# Quantum Scalper Pro: specification and proofs

TLA+ models of the trading core of Quantum Scalper Pro, the TLC runs that check
them on small instances and the theorems about them that TLAPS checks for every
instance. Paths below are relative to the repository, `app/` is `backend/app/`.

1. [The system](#the-system)
2. [Modules](#modules)
3. [Runs](#runs)
4. [Disagreements between code and documentation](#disagreements)
5. [Proofs](#proofs)
6. [Assumptions and limits](#assumptions-and-limits)
7. [Plan](#plan)

## The system

One Python process, one asyncio event loop. Code runs atomically between two
awaits that suspend; a database or Redis round trip suspends, a call of the paper
broker does not. State lives in the process (engines, brokers, flags), in
PostgreSQL (trades, risk profiles, users, subscriptions) and in Redis.

| component | state | operations | talks to |
|---|---|---|---|
| `TradingEngineManager`, `TradingEngine` (`app/engines/trading.py`) | map user -> engine, lock, tasks, `is_running` | start, stop, stop_all, strategy loop, position monitor | broker factory, `ExecutionEngine` |
| `ExecutionEngine` (`app/engines/execution.py`) | none of its own; rows of `trades` | `execute_signal`, `close_trade`, `check_stop_loss_take_profit` | risk engine, guard, broker, database, stop flag |
| `PaperBroker` (`app/brokers/paper.py`) | balance, positions per symbol, order counter | place, close, quote | - |
| Binance and MT5 brokers, `BrokerFactory` | connections, cache of brokers | the same, over a network | the exchange |
| `RiskManagementEngine` (`app/risk/engine.py`) | row of `risk_profiles` | `validate_trade`, `update_trade_result`, pause, resume | database, Redis |
| emergency stop (`app/core/operational_state.py`) | flag in the process, key in Redis | activate, clear, read | manager |
| `RedisClient` (`app/core/redis.py`) | connection, failure count, circuit | every command, reconnect | - |
| `IdempotencyGuard` (`app/core/hardening.py`) | local store, keys in Redis | reserve, complete, fail | Redis |
| `StartupRecovery`, `OrderStateSynchronizer`, `PositionReconciler` (`app/core/`) | - | recover at process start | brokers, database |
| `SubscriptionService`, `StripeService` (`app/services/`) | subscription, payment and webhook rows | checkout, trial, upgrade, cancel, reactivate, webhooks | Stripe, database |
| `DeviceService` (`app/services/device_service.py`) | device and activation rows, cached tokens | register, activate, validate, switch off | database, Redis |
| `BacktestingEngine` (`app/backtesting/engine.py`) | account and position of a simulation | run, walk-forward validation | strategies, dataset files |
| dataset import and launch evidence (`app/backtesting/data.py`, `evidence.py`) | dataset, manifest, qualification report | import, save, read at a live start | files |
| auth | users, failed attempts | logins, registration | database |
| news filter, AI filter, strategies, optimization | calendar, scores | evaluate | - |
| notifications, analytics, WebSocket, admin, frontend | reports | read and send | - |

What is hard in it, and what makes each part correct:

* **Orders.** Strategy loops, API requests, the position monitor and close
  requests interleave at every await, on rows that were read earlier. A position
  must not be lost, a closed trade must have no position, the open-trade limit and
  the emergency stop must hold as far as they can, every exit must be counted.
  Tasks are cancelled at any await, commits fail, and the process restarts with an
  empty paper broker.
* **Engine lifecycle.** Starts, stops and the emergency stop meet at one lock
  while tasks end on their own or are cancelled. No engine may trade out of reach.
* **Risk counters.** Several sessions read, compute and commit the same row.
* **The shared Redis client, guard and durable stop.** Every task uses one client,
  with one connection mark, one failure count and one circuit. It must not be
  healthy on the strength of a dead server and must come back when the server does.
  The guard's two stores must not grant a signal twice and the stop key must say
  what was asked for, through lost replies, reconnects and restarts.
* **Live brokers and recovery.** Requests fail after the broker has acted, a close
  reads a position and orders against it later, an answer looks empty because an
  error was swallowed. The trades table and the exchange must agree as long as
  nothing of that happened, and a start-up must end.
* **Accounts and billing.** Check-then-insert races, webhooks duplicated and out
  of order, cached validity that outlives its reason.
* **Evidence for live trading.** A simulation must keep its own risk limits and
  report what it lost; a validation must not have seen what it is tested on; a live
  start must rest on an approved report about the dataset in place, while imports,
  validations and starts share three files.

`PROJECT.json` lists the components with what is modelled of each, and every such
hazard with its line and the properties that cover it.

## Modules

| module | models | proofs |
|---|---|---|
| `OrderExecution` | the order path of one user on the paper broker | `OrderExecutionProofs` |
| `TradeLedger` | abstract: what the order path owes its reader | refined by `OrderExecution` |
| `EngineManager` | the lifecycle of one user's engines | `EngineManagerProofs` |
| `RiskCounters` | the sessions on one user's risk profile | `RiskCountersProofs` |
| `RedisClient` | the shared client: pings, reconnects, circuit | `RedisGuardsProofs` |
| `RedisHealth` | abstract: what others may assume of the client | refined by `RedisClient` |
| `RedisGuards` | the idempotency guard and the durable stop over `RedisClient` | `RedisGuardsProofs` |
| `LiveTrading` | orders and closes on live brokers, crash and recovery | `LiveTradingProofs` |
| `Subscriptions` | one customer's subscription rows, the webhooks and Stripe | `SubscriptionsProofs` |
| `DeviceLicensing` | one user's devices and license activations | `DeviceLicensingProofs` |
| `Backtest` | one simulation: loop, account, risk state, report | `BacktestProofs` |
| `Qualification` | walk-forward validation, dataset import, report, live start | `BacktestProofs` |

`RedisGuards` EXTENDS `RedisClient`: a task of the one is a task of the other.
`RedisHealth` is what `OrderExecution` was built on: its variable `redis` moves by
the steps of that specification, and `RedisClient` is shown to implement it.
`TradeLedger` stands at the other end: `OrderExecution` implements it. `Backtest`
is one simulation of the many that `Qualification` runs and abstracts to their
outcome.

`MCOrderExecution`, `MCRiskCounters`, `MCSubscriptions` and `MCQualification` add
the symmetry sets for TLC and `MCLiveTrading` the attempts of each broker; the
other modules are checked as they are. Operators marked `Mutant:` stand
beside the definition they would replace: each is a plausible bug in that code,
and the property named with it in `PROJECT.json` fails when it is put in place. No
specification uses them.

### OrderExecution

`call[c]` is one `execute_signal`: `Admit` is everything up to the risk check (the
stop gate is the only part that suspends and that another task can change),
`RiskPassed` the two counts of `_check_open_trades` (one step: with the second
count read later, a call could only meet more open trades on its symbol or fewer,
which the interleavings of the single step also reach), `Reserve` the idempotency
key, `PlaceFilled` and `PlaceRefused` the broker call, `Record` and `RecordFails`
the commit of the row. `Refused` stands for every check that turns a signal away.
`close[k]` is one `close_trade`, or a cycle of the monitor with the rows it has
still to look at in `todo`: the monitor holds its rows from the select at the start
of the cycle and the select in `close_trade` gets them from the identity map, so
that a row stays OPEN for it until it closes it itself. `position` is the paper
broker's map, `order` the trades table with the orders that never reached it,
`stop` the flag and key of the emergency stop. `hit` says on which markets the
price is beyond the stop loss or take profit; the price is read in the same step as
it is acted on, which commutes with the other tasks because they do not read it.

`BookExit` is the commit of the exit and `CountResult` the risk engine's own
transaction after it; `CountFails` is that transaction raising, an error `close_trade`
swallows with the exit booked. `stop.pending` counts the stop requests between the
process flag and the key: several may be in flight, and a reset may come at any time.
`counter` is the paper broker's order counter, which a close moves too.

`exits`, `counted`, `abandoned`, `dropped` and `survivors` are history variables:
no guard reads them. `dropped` are the exits whose task was killed between the two
commits, or whose second commit failed.

### EngineManager

`req[r]` is one call of the manager, `lock` and `queue` the asyncio lock with its
first-come order, `task` the two tasks of every engine, `held` whether the engine's
`_tasks` still lists them. The start endpoint passes one configuration
(`app/api/v1/trading.py`), so an engine has one strategy loop. A call that fails in
`get_status` leaves the same way as one that succeeds (`StatusRead`). `status` on
its own reads only and is left out.

`MaxEngines` bounds the engines created: at the bound `start` can still raise.

### RiskCounters

A session is a read (`base`), the values computed from it (`next`) and a commit
that writes the columns that differ (`Merge`, SQLAlchemy's unit of work). The
daily, weekly and monthly counters always take the same additions and nothing
resets them (`reset_daily_limits` is a stub nobody calls), so they are one counter
`loss`, compared with the smallest limit. `current_drawdown` is a function of the
same losses and is represented by the loss at which it reaches its maximum.
A session may fail or be cancelled before its commit (`ResultLost`, `UserFails`): the
result is gone then, and the row as it was. `kept` is what an exact account of the
committed results would show; it, `early` and `overlapped` are history that no guard
reads.

### Subscriptions

`calls[c]` is a call of `SubscriptionService`: `ChecksTrial` and `ChecksLive` are
the selects of `start_trial` and `create_subscription`, `Inserts` the commit of the
new row; `ReadsRow` selects the one row an upgrade, downgrade, cancellation or
reactivation works on, `AsksStripe` is the SDK call, which takes effect at Stripe
before `CommitsChange` and is not undone by `CallFails`. `hooks[h]` is one delivery
of a webhook: `HookReads` is the check of the event log and the select of the
handler, `HookCommits` stores event, row and payment in one transaction, and
`HookFails` ends a delivery that stores nothing: the commit was refused or failed, or
the handler raised. In the last case the error path counts a retry on an event that
was not flushed yet, so that it raises itself, and the event is delivered again. A
commit writes the columns that differ, as in `RiskCounters`.
Stripe is the environment: `PaysCheckout`, `Bills` and `EndsSubscription` change
`stripe` and append to `events`; a delivery may take any event that is not stored,
in any order and in several requests at once. The number of an event is its place
in the order in which the model raises them, the completed checkout before its
first invoice; an invoice handled before its checkout is out of order.

The service is modelled whole although only checkout, cancellation and the webhook
are mounted (`app/api/v1/billing.py`). Every plan that can be bought has trial days,
so that a checkout adds a trialing row and marks the trial used. The plan and price
columns that an upgrade writes are left out, as is the plan that a downgrade notes
in the row's metadata and nothing applies. `entangled` is history: the Stripe
subscriptions one of whose events was read before an earlier one was stored, or whose
row was committed by a call or a webhook that had read it as the row of another one.
The last needs two Stripe subscriptions: a webhook of the second reads the row, the
completed checkout of the first links the row to it, and the commit of the webhook
leaves the link alone and writes the status of the second.

### RedisClient, RedisHealth and RedisGuards

`task[t]` is where a coroutine is suspended inside `_execute`: the ping before its
command (`PingOk`, `PingFails`), an attempt to connect, the back-off sleep, the
command, or the reply. The server executes a command when the task goes from
"command" to "reply"; `lost` marks what was on the wire when the server failed, so
that a command may fail before or after it took effect. `dropped` is the connection
of a client that still believes in it. `failures` is capped at the threshold it is
compared with. `circuit` is "expired" once its timer is over and until the next
command looks at it; the half-open state of the code is written as closed
(`Begin`). `tries` counts the attempts of one reconnect loop; the loop sleeps after
its last attempt too (`GiveUp` is after the sleep), and a task that wakes to a
client another one has connected goes on without a ping, because `connect()`
returns at once (`WakeAgain`).

`RedisGuards` follows one reservation key through one lifetime and the key of the
emergency stop. `op[t]` is the command a task executes, `Effect` what it does to the
keys. `ReserveRedis` and `ReserveLocal` are the two branches of `check_and_reserve`,
`Fill` and `Reject` the end of the order with the command that completes or releases
the key; nobody waits for the health of the client there, so that a local
reservation may be released in Redis. `StopCommand` is the durable half of the stop,
after the process flag. The server keeps its keys over its own failures (the
deployment runs it with `--appendonly yes`) and over restarts of the process.
`orders`, `crossed`, `asked` and `clean` are history.

### LiveTrading

The position of a broker is a number of units (`net`), bought ones less sold ones, and
the trades table a state, a broker and a side per row. The process starts with OPEN
rows of an earlier one and the positions they stand for, and recovers before it
serves. `order[c]` is `execute_signal` from `place_order` on: the request goes out
(`send`), the broker fills it (`OrderAccepted`), and the reply arrives and is
committed (`Record`) or is lost, after which `_retryable` sends the order again on
Binance, or it is reported as failed (a commit that fails has the same effect).
`close[k]` is `close_trade`: the position is read (`ReadPosition`, or `NoPosition`
when there is none or the read failed), and the order against it goes out later, for
the quantity and against the side that were read; the side that `close_trade` passes
is not looked at. `Reported` is the position as the adapter shows it: Binance takes
the side from the sign of `contracts` (`app/brokers/binance.py:348`), which the
exchange library reports unsigned (the brokers in `Unsigned`), so that a short position
looks like a long one and the order to close it sells once more (`app/brokers/binance.py:240`).
`BookRaises` is the reply without an average price, whose P&L raises.

`Crash` loses the calls in flight. The recovery then visits the brokers with OPEN
rows: `SyncOrders` has no effect, because no broker class defines the
`get_order_status` it asks for, and `reconcile` either fails, also for every broker
that answers with a position (it treats the answer as a dictionary), or closes all
OPEN rows of the user on an empty answer (`ReconcileEmpty`). `parted` is history: the
brokers at which one of the circumstances that the header of the module lists has
occurred.

### DeviceLicensing

`call[c]` is one request, cut at its database round trips: `Activate`, `Lookup`,
`Reactivate`, `Count`, `Insert`, `Issue` and `CacheToken` are `activate_license` with
the `register_device` inside it; `StartOff` with `CommitDeactivate` or `CommitBlock`,
`StartRevoke` with `CommitRevoke`, and `DeactivateAll` with `Sweep` the four ways of
switching something off. `same` is whether the status read was already the one to be
written, in which case the session writes nothing, whatever the row has become.
`Sweep` is one step from its select to its commit, and any of its deletions may be
lost.
`cache` are the tokens with an entry in Redis; every command to Redis may be skipped.
`fresh`, `excused` and `raced` are history. The routers that call the
service (`customer_portal.py`, `admin_customers.py`) are not mounted at this commit.

### Backtest and Qualification

`Backtest` is the loop of `run`, one iteration in five steps: the next candle with
the signal on the candles before it, the reversal, the entry, the levels, the mark to
market. Every valid candle and every signal are possible at each step. Amounts are
integers and quantities are rounded down to whole units instead of five decimals; commission,
slippage and spread of both sides are one `Fee` per unit. `today` and `streak` are
what the trade list says, kept apart from the counters of the risk state they are
compared with; the drawdown limit is a percentage up to 100, as the request schema
requires (`app/api/v1/backtesting.py:38`); `MANDATORY_STOP_LOSS` is on, its default, so
that a signal without a stop never enters and the sizes without a stop are left out; `top` and `fall` are the fold over `equity_curve` that gives
`max_drawdown_pct`.

`Qualification` has the processes that share the dataset, the manifest and the
report: an import (`Import`, `ImportData`, `ImportManifest`), validations (`walk[w]`,
with the candidates of a window simulated one by one) and the check of a live start,
which reads three files one after the other. A dataset is a content and whether it
is whole. A simulation loads the dataset again by dates: on another dataset it may
find nothing ("error"). `approved` also depends on trades, profit and drawdown of the
windows, which may refuse (`HoldoutRun`). The windows are the ranges of the code with
the first candle numbered 1. `SaveWrite` takes the fingerprint and writes the temporary
file in one step, which what others do in between cannot tell apart. Two imports at
once, which nothing in `data.py` excludes, are not in the model. `loaded`, `replaced`, `valid`, `trained` and `known` are
history.


## Runs

Passing runs:

| run | instance | shows |
|---|---|---|
| `OrderEntry` | a loop and a request, 2 markets, limit 1, 2 fills, 1 stop, Redis faults | types, `ExposureBound`, `OrderUnderStop` |
| `OrderExit` | a loop, the monitor, a close request, 1 market, 2 fills, 2 stops, 1 restart, faults of every commit | `ClosedTradeFlat`, `PositionAccounted`, `EveryExitCounted`, the refinement `LedgerKept`, and `HitTradeIsClosed` |
| `EngineCalls` | 2 starts, 2 stops, a stop_all, 3 engines | types, `OneEngineAlive`, `RunningReachable`, `TasksCancellable`, `CallsReturn`, `RemovedEngineEnds` |
| `RiskSessions` | the monitor, a close request, 2 checks, a pause or resume request, 3 results, any session may fail | types, `NoPhantomLoss`, `ExactUnlessOverlapped`, `PauseSurvives`, `PauseHonoured` |
| `Subscriptions` | a call at a time, 2 deliveries, 2 Stripe subscriptions, 2 rows, 4 events | `BookedOnce`, `BookedWhenOrderly`, `StripeSync` |
| `RedisOutage` | 2 tasks, threshold 2, 1 attempt per reconnect loop, any number of outages and restarts | `CircuitInv`, `OneOrderPerStore`, `StopKept`, the refinement `HealthKept`, and `Recovers` |
| `LiveOrders` | Binance and MT5, an order at a time on either side, 2 closers, 2 rows, of an earlier process or new, 2 troubles | `TableMatchesBroker`, `RecoveryEnds` |
| `Devices` | 3 devices, 2 concurrent requests, a plan of 1 device, 1 activation followed | `NewDevicesWithinLimit`, `RevokedByHolder`, `IssuedForActiveDevice`, `RevokedInTheEnd` |
| `Backtest` | 5 candles over 3 prices, every signal, 3 losses allowed | `LimitsPauseFirst`, `EntryWithinLimits`, `ExitInCandle`, `LossWithinRisk`, `ReportCoversLoss` |
| `Qualification` | 2 datasets, 2 imports, 2 validations of 2 windows and 2 candidates | `AdmittedOnEvidence`, `Unseen` |

Why these bounds: the hazards of the order path are between two calls, or a call
and a closer, or two closers, so two callers of different kinds, the monitor with a
close request, and two fills show each of them, the second fill being the one that
takes the market after a close; two stops are an engine stop and an emergency stop, or
a stop, a start and another stop; two markets are needed for the limit of one open trade to be overshot
while each market holds one position. For the engines, three are needed for a third
to be started while one is being removed and one replaced. Three results let a
session of each writer overlap with a third result.
Four events are a checkout with its invoice and a further period, or a
change by the customer and the end of the subscription; two rows let a new
subscription stand beside an old one, and with two subscriptions at Stripe a row may
be relinked while a webhook or a call works on it. Two deliveries are needed for one event to be
handled twice at once; more only repeat it, and the theorem is for any number. One
call at a time keeps the run small: that two requests of the customer may be in flight
together is left to the theorems, which are for any number. `CHECK_DEADLOCK FALSE` because the run stops when its bounds are
used up, as do `LiveOrders` and `Backtest`; Stripe's outcomes `unpaid` and `paused`,
which the code copies like the others, are left to larger instances.

Two Redis tasks are one that reconnects and one that fails meanwhile, or the holder
of a reservation and its rival; a threshold of two failures makes the count, and not
the first failure, open the circuit. The theorems about the client and the guard are
for any number of tasks and any threshold. Two rows and two troubles on live brokers are a
position that belongs to more than one trade, and a lost reply followed by a crash;
the two brokers differ in their attempts and let a recovery close the rows of the
other one. The violations need less: `OrphanClosed` both brokers, `OrderTwiceClosed`
one row, two close requests and no trouble at all. Three devices and a plan of one let
two concurrent requests pass the limit while a third device waits. Five candles are an entry, a loss and a
reversal for each of the three losses allowed, and the prices give levels a side, a
gap and a touch. In `Qualification` a dataset has five candles when it is whole and
four when it is not, enough for two windows and the holdout or one: a validation of
a dataset that is being written has fewer windows than one of a whole one.

`RiskSessions` has `DrawdownLoss` below `LossLimit` so that the automatic pause
happens. With the default balance the loss limits are met long before the drawdown
limit; it is reached first only when the `balance:<user>` key, which the code reads
and nothing in it writes, holds a small balance.

Fairness. The event loop runs every ready task, and no task of the process is
held back by another one for ever: `OrderExit` assumes weak fairness of the
monitor's steps only (prices, orders and engine stops stay free), `EngineCalls` of
every call that is past its arrival and of every task. `RedisOutage` assumes that a
task inside the client goes on (each of its awaits has a timeout), that the circuit
timer runs out, that a holder's order ends, and that commands which do not ask for
the health of the client first keep coming (`Other`: the balance is read for every
trade that is validated, `app/risk/engine.py:154`). Without the last one an unhealthy
client would stay so: most of its users, the guard among them, do nothing while
`is_healthy` is false, and nothing reconnects in the background. `LiveOrders` assumes
that the recovery goes on, because the start-up awaits it and its requests have
timeouts; `Devices` that Redis expires its keys.

Symmetry is used where tasks of a kind are interchangeable and never in a run with
a liveness property.

## Disagreements

Two are runs that must end in a violation.

| run | documented | in the code |
|---|---|---|
| `OrderTwiceClosed` | "Close an open trade." (`app/engines/execution.py:284`) | two close requests find the row OPEN and both read its position; the order of the second goes out after the first has booked the exit, opens a position on the other side and books and counts the exit again |
| `OrphanClosed` | "Close a trade that exists locally but not on broker." (`app/core/hardening.py`, `_close_orphaned_trade`) | an empty answer of one broker, also after an error it swallowed, closes every OPEN row of the user, those of other brokers with their positions included |

More are reached by the models and described here; where something weaker holds, it
is the property that is checked.

* "Order placement", "Trade recording" (`app/engines/execution.py:62`): order ids
  start again at `PAPER_1` after a restart, and the unique constraint
  (`app/models/trading.py:50`) refuses the row of a filled order. `PositionAccounted`
  counts such a position among those of calls that were cut off.
* "Check maximum open trades." (`app/risk/engine.py:244`) counts rows several awaits
  before the insert and reserves nothing: `ExposureBound` says by how much concurrent
  calls overshoot.
* "Immediately block new orders" (`app/api/v1/system.py:102`) does not reach a
  request already past the gate: `OrderUnderStop` says which calls still place orders.
* "All trading engines stopped" (`app/api/v1/system.py:105`): an engine started
  between the release of the lock and the answer runs on. Likewise "Own the single
  live engine instance for each user" (`app/engines/trading.py:164`) holds but for the
  window that `stop_all` opens by leaving the lock before it cancels, which
  `OneEngineAlive` names.
* "Update risk metrics after trade close." (`app/risk/engine.py:418`): read, add in
  Python, commit, so that one of two results in flight together is lost, and a result
  whose session fails or is cancelled is handed in by nobody again: its exit is booked
  and never counted. `ExactUnlessOverlapped` says what the counters are exact about,
  `EveryExitCounted` which exits do not reach them.
* "Close position." (`app/brokers/binance.py:230`) sells once more when the position is
  short, as described under `LiveTrading`, and books the trade as closed; this is one
  of the circumstances `TableMatchesBroker` excepts.
* The durable emergency stop (`app/core/operational_state.py`): a command that the
  open circuit refuses, or whose reply is lost, raises nothing; the stop then holds
  for this process only, and a reset may leave the key for the next one. `StopKept`
  speaks of commands that ran alone and were answered.
* The guard (`app/core/hardening.py:202`): the two stores do not see each other, so
  that a signal may be granted once by each; and a rejected local reservation deletes
  the key another call has reserved in Redis. `OneOrderPerStore` says what each store
  keeps on its own.
* "Durable qualification evidence tied to an exact historical dataset."
  (`app/backtesting/evidence.py:1`): the report gets the fingerprint of the file as it is when it is saved. A dataset that is
  imported while its validation runs is approved by the simulations of the old one;
  `AdmittedOnEvidence` names the case.

`Subscriptions` reaches states nobody would want and no comment of the code rules
out, so that they are described and not counted among the disagreements. A
cancellation before the checkout is completed has no Stripe subscription to cancel;
the one paid for afterwards finds no trialing row and is billed without a row. A
past-due row does not count as live, a new checkout adds another, and when an
invoice revives the first, every later select of one row raises
`MultipleResultsFound`, cancellation included. `StripeSync` therefore speaks of
linked rows. Nor does it speak of events handled out of order: nothing compares their
times, the last one handled wins, and the subscription is entangled from then on.

So do the others. In `LiveTrading` two closes of one trade, a close of more units
than the trade has, or a repeated order leave a position the table does not show;
`parted` lists the circumstances. In `DeviceLicensing` switching a device off leaves
the Redis entries of its activations valid until they expire, the sweep of
`remote_deactivate_user` comes after the rows it looks for were revoked, and the
reactivation of a known device knows no limit. A backtest that is paused ends before
the equity point of its candle, so that the drawdown it reports misses the loss that
paused it (`ReportCoversLoss` excepts paused runs). A walk-forward validation with a
step shorter than its test period counts trades twice; the request may name a part of
the dataset, or no costs, and its report still speaks for the whole; the first sixty
candles of each test period are consumed by the strategy's warm-up; and a live start
compares neither the strategy nor the parameters of the report with those it starts.

One line hides much of the rest: `float(max_risk) * Decimal("1.01")`
(`app/risk/engine.py:159`) raises `TypeError` whenever the balance is positive, so
at this commit no signal of such an account gets past `validate_trade`, and with a
balance of zero the size is zero and the paper broker refuses the order. In
`RiskCounters`, `Allow` has both outcomes. In `OrderExecution` the constant
`RiskRaises` says whether the comparison raises; its theorems hold for both values,
and its runs use `FALSE`, which looks past that line to the rest of the order path.
Past it the position monitor, which keeps the rows of its cycle, would close a trade
that a request has closed meanwhile, with the position of a newer trade on the same
market; `ClosedTradeFlat` and `EveryExitCounted` hold all the same, because the exit is
booked and counted a second time. `OrderTwiceClosed` needs no new trade, only OPEN rows
on a live broker.

## Proofs

All theorems are about the specifications the runs check, for any finite number of
tasks, any limits and any bounds that satisfy the named assumption of the module
(`OrderConstants`, `ManagerConstants`, `RiskConstants`, `SubscriptionConstants`,
`ClientConstants` and `GuardConstants`, `LiveConstants`, `DeviceConstants`,
`BacktestConstants`, `QualificationConstants`). Every property of a passing run but the
liveness properties is the statement of a theorem.

* `OrderExecutionProofs`
  * `TypeCorrect`: `Spec => []TypeOK`, one lemma per group of actions.
  * `ExposureBounded`: `[]ExposureBound`. Inductive with `TypeOK`: the only step
    that raises the sum is `RiskPassed`, whose guard leaves at most
    `MaxOpen - 1` open trades, while the caller itself is not yet among those in
    flight; the step from a call to a row keeps the sum.
  * `LedgerHolds`: `[]LedgerInv`, the strengthening of `ClosedTradeFlat`:
    `FillsNumbered` (fills are issued in order), `PositionsFiled` (a position is
    that of a fill on its own market), `ClosersHoldRows` (an exit about to be
    booked has left the broker) and `FillsTracked` (a fill without a row belongs to
    exactly one call, or to one that was cut off). `ClosedTradeFlat` alone is not
    inductive: `BookExit` needs `ClosersHoldRows`, and that needs that
    `PlaceFilled` issues a fresh fill.
  * `ClosedTradesFlat`, `PositionsAccounted`: consequences of `LedgerInv`.
  * `OrdersUnderStop`: the action property `OrderUnderStop` from `StopInv`: under
    the flag every call in flight is one that was past the gate, and the answered
    request has cancelled the loops.
  * `OrderPathKeepsLedger`: `Spec => LedgerKept`, the refinement of `TradeLedger`.
    Each action maps to one step of the ledger or to a stutter; besides `LedgerInv`
    it needs that a fill that was never issued has no row (`SymbolsKnown`).
  * `ExitsCounted`: `[]EveryExitCounted`, inductive with `TypeOK`. A closer that books
    an exit enters the set of those that are to count it, one that counts leaves it;
    one whose update fails leaves it and is noted (`CountFailsBalances`); an engine stop takes the monitor out of
    it and a restart everyone, and both note how many (`KillBalances`, `RestartBalances`).
* `EngineManagerProofs`
  * `TypeCorrect`.
  * `EnginesReachable`: `[]ReachInv`, and `RunningEnginesReachable` from it. It rests
    on `LockKept`, `FutureIdle` and `ReplacedIdle`: the engine a start replaces stays
    in the map and does not run while the start holds the lock.
  * `OneEngineAtATime`: `[]OneEngineAlive`, from `AliveInv`: tasks belong to the
    engine in the map, to one a `stop_all` is ending, or to the one for which a stop
    holds the lock.
  * `TasksStayCancellable`: `[]TasksCancellable`, inductive with `TypeOK`: what empties
    the list of an engine's tasks cancels them in the same step.
* `RiskCountersProofs`
  * `TypeCorrect`.
  * `WritesSound`: `[]WritesInv`; `LossNeverOverstated` is its first conjunct, and
    `PausesSurvive` (`PauseSurvives`) follows because a result carries the pause it
    read, so its commit leaves the column alone.
  * `ExactWhenSerial`: `[]ExactUnlessOverlapped`, from `ExactInv`: a result in
    flight alone was computed from the counters the row still has. A result that is lost
    leaves both the row and the account of the committed ones.
  * `PausesHonoured`: the action property `PauseHonoured`, from `PauseSeen`: a check
    whose copy of a paused row is not paused had read it before a pause was committed.
    A commit of a result could disturb that, were it not that it leaves the pause alone
    (`WritesInv`).
* `SubscriptionsProofs`
  * `PaymentsBookedOnce`: `[]BookedOnce`, inductive with the type of `payments`: only
    `HookCommits` changes the books, and its guard is the unique constraint on
    `stripe_event_id`, so that an event it books was not stored and hence not booked.
  * `TypeCorrect`, `PaymentsBookedWhenOrderly` (`[]BookedWhenOrderly`) and
    `RowsFollowStripe` (`[]StripeSync`) from one invariant, `SyncInv`. `StripeSync` says
    what a row shows once all events are stored; its strengthening says what it shows
    before: the status of the last event that is stored, or canceled if the subscription
    is over (`RowFollows`). A commit keeps that only if what was read still stands, so
    every call and every delivery in flight needs a conjunct about what it remembers
    (`CallGood`, `HookGood`): the row still has the status it had then, or one of a
    subscription that is over. That in turn needs that the events of a subscription are
    stored in order (`StoredInOrder`), that the last event raised says what Stripe says
    (`EventInv`), and that a subscription has one row (`LinkInv`). `RowsKeep` gathers
    what the steps that store no event have in common.
* `RedisGuardsProofs`, the client and then the guard
  * `CircuitConsistent`: `ClientSpec => []CircuitInv`, inductive as it stands: what
    opens the circuit clears the connection, and what connects closes it.
  * `ClientImplementsHealth`: `ClientSpec => HealthKept`. A step from unhealthy to
    healthy is one that was answered, because by `CircuitInv` neither the timer nor
    a half-open circuit makes a client healthy that was not connected.
  * `GuardsUseClient`: every step of `RedisGuards` is one of the client or leaves it
    alone, so that `CircuitUnderGuards` and `HealthUnderGuards` follow.
  * `TypesKept`.
  * `StopIsKept`: `[]StopKept`, from `StopInFlight`: as long as the last command runs
    alone it is the one that was asked for, and once the server has executed it the
    key is what it says.
  * `OneOrderPerStoreKept`: `[]OneOrderPerStore`. The strengthening follows a token
    for each store. In Redis it passes from the reply that grants the key to the holder
    and from there to an order or to a release that has not reached the server
    (`Token`); there is one at most, and as long as there is one or an order the key
    is there (`RedisOnce`, `LocalOnce`). A release knows the store of its reservation,
    so that only one of a local reservation can cross a key of Redis.
* `LiveTradingProofs`
  * `TypeCorrect`, with `RowsInserted` and `CallsHold`: rows are inserted in order with
    the broker of their order, and a call in flight has a broker.
  * `TableMatches`: `[]TableMatchesBroker`, from `LedgerInv`. The balance alone is not
    inductive: a close that finds a trade no longer open takes a unit off the position and
    no row off the table, and one that read a larger position, or a position of the other
    side, takes something else than the unit of its trade. At a broker where nothing has
    parted a close has read the unit of its own trade, and no two closes with filled
    orders are about one trade (`OneUnitEach`). A step changes one side of one broker
    (`OneSideMoves`) or none (`NothingMoves`). The recovery runs without calls in flight
    (`QuietRecovery`).
* `DeviceLicensingProofs`
  * `TypeCorrect`, with `RequestsHold`: what a request holds at each of its steps.
  * `HolderRevokes`: `[]RevokedByHolder`, from `HolderAnswered`: as soon as a
    revocation has begun the activation has no entry, unless it is excused. The property
    alone is not inductive, because the entry goes before the row is committed.
  * `TokensForActiveDevices`: `IssuedForActiveDevice`, from `ActiveOrRaced`: whoever
    switches a device off marks the requests that have found it active.
  * `NewDevicesBounded`: `[]NewDevicesWithinLimit`, inductive with the types: a request
    that passes the count leaves at most the plan less one device active, and is itself
    not among those that insert.
* `BacktestProofs`
  * `TypeCorrect`, with `LoopInv`: an iteration begins only before the last candle.
  * `LimitsHold`: `[]LimitInv`: the loop runs on only within the limits (`Unpaused`),
    the counters are those of the trade list (`Counted`), a day that lost its limit
    is locked (`DayLocked`, where a positive daily limit is needed on the first candle
    of a day). `PauseComesFirst` and `EntriesWithinLimits` follow.
  * `ExitsInCandle`: a position disappears only through a close, and the price of
    each lies within its candle.
  * `LossesWithinRisk`: from `RiskInv`: a position is sized for the distance of its
    stop (rounding down loses nothing of it), and when the levels of a candle have
    been looked at, its stop was not reached, which the close after the last candle
    needs.
  * `ReportsCoverLosses`: `[]ReportCoversLoss`, from `ReportInv`: the balance is the
    deposit and the results booked so far (`Accounted`), it is positive as long as the
    run is not paused (`Solvent`), and the drawdown reported covers the distance from the
    top when an iteration ends (`CurveCovers`). Percentages are rounded, so that the
    comparison with the deposit needs that the rounded percentage of a fall grows with
    the top it is measured from (`FallGrowsWithTop`). That fails for a balance below zero, which a
    drawdown limit above 100 percent would allow.
  * about `Qualification`, which the module extends as well, so that its specification
    is `EvidenceSpec`: `EvidenceTyped`, `TestsUnseen` (`[]Unseen`) and `StartsOnEvidence`
    (the action property `AdmittedOnEvidence`), from `EvidenceInv`. `WalkGood` says of a
    validation that the test period it is about to choose for ends before the holdout,
    that no simulation has seen more than it may, that one that passed had enough
    windows, and that its dataset is in place or was written meanwhile. `ReportGood` carries the last two over
    to the temporary file and the report, whoever writes or renames them, and a live start
    compares the report with the dataset its check began with.

Only model-checked: the liveness properties `HitTradeIsClosed`, `CallsReturn`,
`RemovedEngineEnds`, `Recovers`, `RecoveryEnds` and `RevokedInTheEnd`, which are out of
the proof system's reach, and the two violations, which have no theorem to state.

## Assumptions and limits

* The database stores what the program hands it. The columns are declared without
  a time zone while the program writes times that have one: SQLite, which the test
  suite uses, accepts them, and the asyncpg driver of the deployment refuses them.
  The models describe the program over a database that accepts its rows. Where the
  program compares a time it read back with one that has a zone, the comparison
  raises (`Validate` in `DeviceLicensing`).
* One process: a second one would share the tables and Redis but not the flags,
  the engines and the paper broker.
* Prices, sizes, P&L and the content of messages are abstracted; the properties about
  money are the order of losses in `RiskCounters` and the integer account of
  `Backtest`.
* Redis keeps its keys over outages and restarts; a reservation does not expire
  within the window that is followed.
* Live brokers have one market on a netting account and orders of one unit; a hedging
  account, reduce-only orders and partial fills are not modelled.
* Notifications are sent after the state change they report; their failures are
  caught and change nothing modelled.
* The profile row is taken to exist and is not edited through `PUT /risk/profile`.

Not modelled: authentication and lockout (the stored lock time raises when it is
compared, `app/models/user.py:98`), the news filter, the AI filter and the strategies
(arbitrary verdicts and signals in the models), optimization, notifications,
analytics, the customer portal and administration, which are not mounted, health
endpoints, the WebSocket push, and the classes `CircuitBreaker`,
`BrokerConnectionManager` and `WebSocketManager`, which nothing in the application
calls. `PROJECT.json` has the reason for each.

## Plan

1. The invariants on which the liveness properties rest, as theorems: that a task in
   the client always has a next step, that a request waiting for the manager's lock
   stands behind one that can go on.
2. Properties that say more about the same models: what each live broker keeps after
   a circumstance in `parted` has occurred; a bound on the devices that reactivations
   add.
3. Authentication with failed attempts and lockout; the news calendar.
