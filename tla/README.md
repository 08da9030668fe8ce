# BINBOT in TLA+

TLA+ models of the live Binance Futures scanner (`src/`), the TLC
configurations that check them on small instances, and TLAPS proofs of the
properties that matter most.  The reference is always the code; documents,
comments and tests only say what it is meant to do.

## 1. The system

One Python process runs everything on one asyncio loop, so two pieces of code
interleave only at an `await` that suspends.  What can still go wrong is what
the models are about: state read before an await and used after it, tasks that
act on the same exchange position, requests that fail half-way, and a process
that dies and comes back with nothing but one JSON file.

| Component | State it keeps | Operations | Talks to |
|---|---|---|---|
| Event bus `core/event_bus.py` | bounded queue, unfinished counter, running flag | start, publish, publish_and_wait, dispatch loop, join, stop | every handler, in subscription order |
| Feeds and aggregation `data/` | rolling price and funding windows, bar under construction | backfill, tick, bar close, reconnect with back-off | publishes ticks, which become bars, on the bus |
| Scanner strategy `strategies/` | `_pending_entries`, `_active` | on_bar, prune, emit_signal, pause, resume | reads the monitor's open symbols, publishes signals |
| Live runner `scripts/run_live_binance_scanner.py` | wiring, monitor_loop | start-up, on_tick, on_signal, operator commands, shutdown | all of them |
| Risk engine `risk/risk_engine.py`, `margin.py`, `position_sizing.py` | positions, prices, rate windows | check_order, update_position, update_market_state | called by on_signal, fed by monitor_loop and on_tick |
| Circuit breaker `risk/circuit_breaker.py` | session date, starting and peak equity, halted | update, force_halt, reset_session, restore | risk engine reads it |
| State recovery `utils/state_recovery.py` | `session_state.json` | recover, persist | breaker, broker |
| Order manager `execution/order_manager.py` | orders and OCO groups | submit, submit_oco, cancel, broker events | broker, bus |
| Binance broker `execution/binance_broker.py` | client order ids, OCA groups, user stream | place, cancel, native stops, queries | the exchange |
| Position monitor `execution/position_monitor.py` | watched positions, closing set, peaks, loss limits, native stop ids | poll, freeze, arm, evaluate, close, disarm | broker, runner |
| Dashboard bridge `server/dashboard_bridge.py` | clients, recent audit lines and trades | register, backfill, broadcast, push_audit, commands | browser tabs, runner, tracker, logs |
| Trade tracker `execution/trade_tracker.py` | the open round trip of each symbol | on_execution | called by the bridge, last of all |
| Daily log `utils/daily_log.py` | one file of JSON lines per day | append, read_recent | the bridge rebuilds its lists from it |
| Backtest `backtest/` | simulated book and clock | bar-by-bar replay | the same strategy, risk engine and order manager |
| Slippage, performance, store, watchdog, notifier, IBKR, front end | per file | see PROJECT.json | |

Entries flow feed -> bus -> scanner -> bus -> on_signal -> risk engine -> order
manager -> broker.  Exits flow broker -> position monitor -> broker.  The
operator's commands (pause, resume, flatten, kill switch, reset) arrive through
the bridge in tasks of their own.  The breaker is fed by monitor_loop every few
seconds and written to disk after each pass.

Hard behaviour, and what correctness means there:

* *Breaker and recovery*: crash between any two steps, a torn file, another
  account's or another day's file, midnight between two updates, commands during
  start-up.  A halt must stand; the drawdown must be measured from the right
  numbers; a new day must start a new session.
* *Position monitor*: three parties close the same position; requests fail in
  the middle of a pass over several symbols; memory is lost on a restart.
  Closing must not open the opposite position; limits, peaks and resting stops
  must belong to the position held; what is to be closed must get closed.
* *Entries*: the strategy trusts a two-second-old poll and a ten-second
  reservation.  No more positions than configured, no symbol entered twice, no
  entry after a halt, no slot lost.
* *Bus*: a full queue, waiting publishers, raising handlers, join and stop on a
  busy bus.  Order, exactly-once dispatch, delivery, termination.
* *Orders*: three channels (REST answers, the user-data stream, the broker's event
  queue) report on the same order, the stream loses what is sent while it
  reconnects, OCO groups are emulated one request at a time.  A finished order must
  stay finished on both sides, fills must be counted once, a filled leg must end the
  others.
* *Pre-trade gate*: equity, positions and prices are read at different awaits, and
  the risk engine never learns that a position closed.  Rates, symbol and leverage
  limits must hold at the moment the order executes; what is remembered as set up on
  the exchange must be set up.
* *Backtest*: bars of several symbols share a time, orders rest over several bars, one
  fill may close and reopen.  No look-ahead, a ledger that agrees with the fills.
* *Dashboard*: broadcasts, registrations and fills interleave at every send; a log
  line may be torn by a crash.  A tab must miss nothing and count no trade twice, a
  restart must forget nothing, the tracker must follow the account.
* *Feed*: gaps, reconnects, a backfill that may be short or absent, a bus that drops.
  A price change must span the window it claims, bars must tell of their ticks.

## 2. Modules

| Module | Models | Used by |
|---|---|---|
| `SessionRecovery` | breaker, snapshot file, recovery, monitor_loop, operator commands | `MCSessionRecovery`, `SessionRecoveryProofs` |
| `PositionMonitor` | the polling loop with the exchange position, native stops and flatten | `MCPositionMonitor`, `PositionMonitorProofs` |
| `EntryPipeline` | bar to filled entry, with the monitor's poll and the switches | `MCEntryPipeline`, `EntryPipelineProofs` |
| `OrderLifecycle` | order manager, place and cancel, user-data stream, OCA groups | `MCOrderLifecycle`, `OrderLifecycleProofs` |
| `OrderedDispatch` | abstract: accept events, handle each once, in order | `EventBus` (INSTANCE) |
| `EventBus` | the bus over asyncio.Queue | `MCEventBus`, `EventBusProofs` |
| `RateLimiter` | abstract to `RiskEngine`: the two sliding windows alone | `RiskEngine` (EXTENDS) |
| `Contracts` | symbols, multipliers and the two limits on contracts | `RiskEngine`, `Backtest` (EXTENDS) |
| `PositionSizing` | the three sizing functions | `RiskEngine` (EXTENDS) |
| `RiskEngine` | on_signal from its first read to its order, with the account, the poll and the leverage set-up | `MCRiskEngine`, `RiskReplayProofs` |
| `Backtest` | replay loop, simulator, ledger, trade records, breaker | `MCBacktest`, `RiskReplayProofs` |
| `TradeTracker` | on_execution as an operator on a trade | `DashboardBridge` |
| `DashboardBridge` | clients, broadcasts, backfill, fills, logs, the tab's lists | `MCDashboardBridge`, `DashboardBridgeProofs` |
| `UniverseFeed` | backfill, stream, windows, aggregator, what on_bar reads | `MCUniverseFeed`, `UniverseFeedProofs` |

The MC modules name the values that the configurations use.  A definition
`M_X...` that stands before a definition `X` is a faulty variant of it, the kind
of slip that could be made in that code (a dropped guard, a missing reset); it is
not part of the specification, and substituting it for `X` makes TLC violate the
property PROJECT.json pairs it with.

### SessionRecovery

`cb` is the breaker's four fields, `disk` the snapshot: absent, torn, or a session
with the account it belongs to.  `phase` is `"down"`, `"starting"` (recovered and
the bridge already serving commands, but the scanner still `None`) or `"up"`.
`Recover` is `recover()` with `_restore_circuit_breaker`; `MonitorCheck` one pass of
monitor_loop, whose `update()` may roll the session over, raise (a starting equity
of zero) or return; after a rollover the loop awaits two notifications before it
persists, hence `AutoResetPersist` and `AutoResetAuditFails`.  A reset reads the
equity first: `RequestReset`, then `ApplyReset` or `ResetEquityFails`.  A command
that needs the scanner does nothing before the scanner exists; a reset has by then
already reset the breaker.  `Persist` may tear the file (`"crash"`) or fail and
leave it empty (`"full"`) as `DiskFaults` says.  `halts` and `fed` are history.

### PositionMonitor

A pass of `_check_once` is split at its awaits: `Poll`, then for each symbol
`SkipClosing`, or `FreezeStop` (or `EquityFails`), `ArmNativeStop` and `Evaluate`,
which raises the peak, tries the three exits in the code's order and may go on to
`SubmitClose` and `CloseAnswered` (or `AuditFails`); at the end `DisarmNativeStop`
for every symbol that closed.  The symbols of a pass are visited in any order.  The
exchange (external) executes plain market orders whatever the position is by then
and triggers resting stops.  One unit of position has a margin of one hundred, so
P&L and ROI% are the same integer; the trailing level uses the code's floor
division.  A position is identified by its symbol and `life`; `stray` marks the
positions that a closing order opened by accident, which the properties about the
scanner's own positions leave out.  `Hazards` selects failures and rivals.

`ArmNativeStop` has the three outcomes of place_stop_loss: an order id; `None`, and
no stop (`"refuse"`); `None`, although the exchange accepted the stop and only its
answer was lost (`"answer"`).  `adrift` is history: the lives whose resting stop the
process cannot know of, because the answer was lost, because its cancellation failed
(cancel_stop_loss swallows that), or because the process that had noted it died.
`failed` is history too: the lives whose closing order was refused, or kept from being
sent by the audit line.

A restart is taken to last longer than the execution of a market order the dead
process had sent, and the operator does not start a second flatten while the orders
of the first are unresolved (one client's commands are handled one by one).

### EntryPipeline

The bus hands the scanner one event at a time (`stage`, `cur`); a handler is
suspended at the awaits of the equity (`"sizing"`), of the order's inputs
(`"reading"`), of the audit line and the leverage set-up (`"approved"`) and of the
order itself (`"placing"`).  Polls, closes, ticks of the clock and the operator's
switches happen in between.  Whether a bar qualifies, how an order is sized and
whether the risk limits pass is data, so a choice; the breaker is not.  `pending`
holds the ages of `_pending_entries`.  `Delays` says what may outlast the TTL: an
entry, from its signal to the poll that shows it, or a poll, from its read to its
use.

### OrderLifecycle

`ex` and `done` are the exchange's side of an order (external), `status`, `filled`
and `published` the manager's.  `call` is the life of place_order's request:
`Submit` runs from `submit` to the request's await (or `SubmitBelowMinQty`,
`SubmitRaises`), `ExchangeAccepts` and `ExchangeRefuses` are the exchange,
`PlaceReturns` and `PlaceFails` the rest of place_order; submit_oco awaits one leg
after the other.  The exchange reports every change on `stream` if a socket is open;
otherwise, and for what a breaking socket had not delivered, the order is `missed`,
a history variable.  `Over` says that an order can no longer execute: the exchange
ended it, or it never reached the exchange, because it was refused, because it was too
small, or because place_order raised (no filter for the symbol, a limit order without a
price).  `UserStreamMessage` is one turn of _consume_user_stream:
`EventOf` is the event it queues, and the fill of a leg makes it cancel the
`siblings` one await at a time before it reads on.  `ConsumeEvent` is
_handle_broker_event with its publish on the bus.  `Hazards`: `"timeout"`, an answer
is lost after the order was accepted; `"fast"`, a leg trades while submit_oco is
still placing others; `"cancel"`, a cancel of a working order fails; `"blind"`,
cancel() is called for finished orders.

### EventBus

`queue`, `unfinished` and `putters` are asyncio.Queue (external: its methods change
them as CPython's do); `loop` is where the dispatch task is, `step` the handler it
is at.  `publish` drops an event on a full queue, `publish_and_wait` waits for room,
and a waiting putter competes with later publishers.  A raising handler ends the
dispatch of its event, not the loop.  `join` wakes when the counter reaches zero and
runs later.  `stop` clears the flag, waits for the counter and cancels the task.
The refinement to `OrderedDispatch` is the identity on `accepted` and `handled`.

### RateLimiter, RiskEngine and PositionSizing

The limiter's windows are sequences of times, pruned at the head as the popleft loops
do; `acquired` is the history of all orders let through.  `RiskEngine` extends it: one
signal (`call`) goes through `OnSignal`, `ReadPositions`, `CheckOrder` (all seven
checks; a token is taken before the limits are looked at and is not given back when one
refuses), the set-up (`AlreadyConfigured`,
`ChangeMarginType`, `ChangeLeverage` and its failures, `UseLeverageCap`, `SetupFails`)
and `PlaceOrder`.  In between the account moves: `Close`, `EquityMoves`, `Breaker`,
`TimePasses`, and the poll, whose `MonitorApplies` leaves out flat symbols, so that
`known` keeps the quantity of a position closed long ago.  Prices stand still while a
handler is suspended, because they are set by another handler of the same bus.
`PositionSizing` states ratios in percent so that the code's floors are `\div`.

### Backtest

`bar` is the bar of this turn of the loop and `ahead` those that follow in the sorted
list: `First` of them by `Before` is next.  A turn is `ProcessBar` (the pending orders
of the symbol meet the bar, `todo`), one `ResolveOrder` for each of them, `Decide` (the
strategy sees the bar and may send one order) or `NoOrder`, and `Settle` (positions,
breaker and the next bar).  The turns of _resolve_pending_orders are separate steps so
that each can be reasoned about alone; the call is synchronous, and nothing else is
enabled until `todo` is empty.  `book` holds positions, average entries, open trades
and equity; `cash`, `lags` and `passive` are history kept independently of it.  The
opens, lows and highs are inputs.  The spread and impact of a fill are one cost per
contract.  There is one bar of a symbol and a time, symbols are numbered as their names
sort, and two bars of one time are of one day.

### TradeTracker and DashboardBridge

`cast[t]` is the broadcast a task has in progress: its message, the clients it started
with, has seen and found dead.  The loop runs over the live set: `Send` is one awaited
send, `BroadcastRaises` what Python does when the set has changed size, `Return` the
removal of the dead and whatever the caller does next, so a fill goes through its order,
marker and filled messages before the tracker sees it, and a closed trade through its
log line before its message.  `Connect` registers a tab and sends the first backfill in
one step (there is no suspension in between), `BackfillRest` the second.  `view` is the
tab's store: a backfill replaces the list, a message is added, both are trimmed.  The
logs are lists of records with their day and a torn last line, which swallows the next
record.  `ReadRecent` gives the lines of the days in the window, but for those that an
OSError keeps from being read: it costs the rest of one day's file, not the next day's
(`Unreadable`), and may happen to any file of either log at every `Restart`.  `cut`,
`unkept`, `unread` and `astray` record what the code is known to lose.

### UniverseFeed

A sample carries the time it is stored under and, unknown to the code, the time its
price is of.  `Backfill` and `BackfillFails`, then `Connect`, `StreamFails` and
`WakeUp` with the doubling back-off; `HandleMessage` stores the sample and publishes
the tick, which the bounded bus may drop; `OnTick` aggregates it, and publishes the bar
it completes; `OnBar` evaluates the entry on the windows as they are by then.
`PopOlder` states the result of the popleft loop: the window from the first sample that
is young enough.  The rows of a backfill are appended and trimmed one by one in the
code; `Seeded` trims once, by the last row's cutoff, and `TrimmedOnce` in
`MCUniverseFeed` compares the two on every run.

## 3. Runs

| Run | Expect | What it shows |
|---|---|---|
| `session_restart` | pass | one account, three days, atomic writes: halts stand over any sequence of crashes, restarts, commands and rollovers; the drawdown budget holds; a running bot leaves yesterday's session |
| `session_accounts` | pass | two accounts (one of which may be empty), torn and failing writes: equity is never compared with another account's numbers |
| `monitor_exits` | pass | two lives of a symbol on either side, all exits, refused orders, lost answers, failing cancels, a failing audit line, native stops and flatten: limits and peaks stay those of the position held; a resting stop is noted by the monitor unless it cannot know of it |
| `monitor_closes` | pass | two symbols of two lives, crashes, failing equity requests, refused orders, a failing audit line: what the monitor decided to close is closed on the exchange unless the process dies or its own closing order fails, and not through zero |
| `monitor_double_close` | violation | native stop and software close both execute: the account is on the other side of the market |
| `entry_limits` | pass | three symbols, two slots: limits hold when entries and polls are in time, slots come back, at most one entry slips past a halt |
| `order_events` | pass | two orders of two lots as an OCO group, partial fills, refusals, expiries, cancels, a place_order that raises, a breaking socket: finished orders stay finished, fills are counted once, a filled leg ends the other, what is over leaves open_orders unless place_order raised |
| `bus_order` | pass | queue of two, five events, two handlers: refinement of `OrderedDispatch`, join, stop, delivery |
| `risk_limits` | pass | two symbols, one capped below the configured leverage, polls, closes and failing requests between the awaits of on_signal: rates, symbol limit, leverage of the whole book and the record of what is set up hold; sizes are the largest within their limits |
| `backtest_replay` | pass | two symbols over two days, market, limit and stop-limit orders: no look-ahead, ledger and trade records agree with the fills, the position limit is overshot by no more than one order and what limit orders executed |
| `dashboard` | pass | two connections, two broadcasting tasks, fills, torn log lines, unreadable log files, a crash and a midnight: tabs miss nothing that was not cut off, list a trade once, a restart forgets nothing that was logged and could be read, the tracker follows the account and adds up |
| `feed_decisions` | pass | backfill of any length or none, gaps longer than a window, a dropping bus: price changes span a window, decisions reach beyond their bar, bars tell of exactly their ticks |

The violation is a finding: it quotes the comment that the code contradicts.
Switching on one more hazard in a passing configuration shows
further limits of the code, which are known and have no run of their own:
`StopLossFrozen` fails with `"equity"` (a failed equity request leaves a new
position with a loss limit of 0 for good); `PeakIsOwn` fails with `"equity"`, two
symbols and two lives (a pass that ends early skips the clean-up), and so does
`NoOrphanStop`; all three fail in the same way with `"audit"` and two symbols;
`HeldWithinExits` fails with `"crash"` (peaks are in memory only), so their run has no
crash, which `NoOrphanStop` survives (section 4);
`HaltStands` fails with two accounts (there is one file for all of them);
`WithinBudget` fails with an account that reports 0 (every later update of that day
divides by zero); `NoDoubleEntry` fails with `"poll"` in `Delays` (a poll older
than the entry confirms it falsely); `WithinMaxOpen` fails with `"entry"` in `Delays`
(an entry slower than the TTL loses its reservation and one position too many is
opened, although the comment on `_pending_entries` says it "closes that gap");
`TerminalIsOver` and `TerminalStays` fail with `"timeout"` (any exception of the
request is reported as a rejection, and the order trades on); `OcoResolves` fails
with `"fast"` (there is no sibling to cancel yet, and the group is cleared) and with
`"cancel"` (a failed cancel is only logged); `TerminalStays` and `Settles` fail with
`"blind"` (cancel() overwrites a terminal status and nothing restores it).  An order whose
place_order raised was registered first and stays SUBMITTED in open_orders for good:
`Settles` names it as an exception, next to the messages a broken socket lost.  Not
visible in a run: the fills of native stops, whose ids the manager does not know, are
never republished on the bus.

More of the same kind, by module:

* *SessionRecovery*: `HaltStands` fails with `"crash"` in `DiskFaults` (dying inside
  `write_text` leaves a file that recovery rejects, and the halted bot comes back
  trading, against `state_recovery.py:16-17`).  `HaltStandsForTheDay` fails: a kill
  switch between midnight and the day's first update is undone by that update, although
  `circuit_breaker.py:2-3` has trading halted for the day.
* *PositionMonitor*: a refused closing order is only a rejection in a queue, and an audit
  line that raises keeps it from being sent; either way the symbol stays in `_closing`,
  every later pass skips it, and neither its stop-loss nor its profit exits are tried
  again, although `position_monitor.py:1-4` "continuously watches every open position".
  `ClosingCompletes` has this as an exception (`failed`) and claims that nothing else,
  another symbol's failure included, keeps a position from being closed.
  `DisarmedOnceClosed` fails with `"answer"`, `"cancel"` or `"crash"`: a stop that is
  adrift rests on after its position closed, although the monitor "disarms it once the
  position is closed by any other means" (`position_monitor.py:26-28`).
* *EventBus*: `StopReturns` fails: `stop()` with an event queued behind the one in hand
  waits for ever for the loop it has ended.
* *RiskEngine*: `WithinSymbolLimit` fails when an order may exceed the symbol limit; the
  stale quantity of a closed position also refuses re-entries that would be allowed.
  `SetUpAsRemembered` fails with `MarginTypeFails` (`binance_broker.py:259-262` takes
  any refusal for "already set").  Orders that have not filled are in no exposure, the
  margin gate ignores margin in use and assumes the configured leverage on capped
  symbols, a fractional `max_per_second` rounds up, and a restart empties the windows.
* *Backtest*: `NoLookahead` fails with `CrossSymbol` (an order for another symbol may
  fill on a bar of the time it was decided at, against `engine.py:7-13`), and so does
  `OvershootBounded` (several market orders for a symbol may pile up between two of its
  bars, each within the limit on its own).  Market orders
  ignore the participation rate, the dropped rest of an IOC or FOK order is not
  reported, FOK may fill in part, STOP fills without a trigger, and a flip charges the
  closed trade the commission of the whole fill.
* *DashboardBridge*: a tab that comes or goes while a broadcast awaits makes it raise:
  later tabs miss the message (`cut`), and the caller ends there, be it the fill handler
  before the tracker (`astray`), on_signal before an approved order is placed, or the
  monitor before a close is sent.  Fills of native stops and a crash with an open trade
  leave the tracker astray too.  A log file that cannot be read, or not to its end, is
  logged and its rest forgotten until the next start (`unread`).  An
  audit line may stand twice in a tab, although
  `dashboard_bridge.py:246-247` and `useTradingStore.ts:59-61` exclude a race.  The tab
  keeps fewer lines than the bridge.  `NothingMissed` fails with a `TabAudit` of 1: the
  older of two lines on their way may arrive last and push the newer one out; a tab of
  two or more cannot lose one so, which is what `NothingIsMissed` proves.
* *UniverseFeed*: klines are stored under their opening time with their closing price, so
  a span may be one kline short; a bar that waits is evaluated on the windows of the
  moment; messages that do not parse are ignored without a reconnect.

### Bounds

`MaxDay` 2: a halt, the rollover after it and one more.  Equities 75, 90, 100 with a
limit of 20%: a gain, a loss within the budget, a breach, from each other's level;
the two accounts' equities are disjoint so that a number tells its account.  ROI
values -20, -10, 20, 30, 45, 80 lie at or on both sides of every threshold (limits
10 and 20, armed at 30 with level 20, raised to 26 at 45, cap 80).  `monitor_closes`
has the one ROI -20, at which every look closes: what matters there is what becomes of the order.  `MaxLives` 2:
a position and its successor, the smallest case in which state is inherited.  Two
symbols where one symbol's failure affects another, three symbols for two slots.
`TTL` 1 tick, the smallest at which fresh, old and expired entries differ.
`QueueBound` 2 puts a bar behind a signal and a signal behind a bar; a handler may
exceed it by one.  `MaxUnits` 2 lets a double entry be seen.  Orders: two lots give partial and complete fills, two
legs a group; the stream and the event queue are not bounded.  Bus: a queue of two
with five events fills, drops and makes putters wait; two handlers let one raise
before and after the other.  Limiter: one order per second of one unit and two per
minute of three, over five instants, so that each window is the binding one and both
edges are met; equities 0 and 3 with prices 1 and 2 put the book on both sides of the
leverage limit.  Backtest: two prices, 360 and 1080, and positions up to four, so that
every weighted average is whole; three orders on four bars scale in, reduce and flip.
Tracker: prices 8 and 16 for the same reason, up to four fills.  Dashboard: two
connections are a tab and its successor or a neighbour, two fills a round trip; the tab
keeps three audit lines of the bridge's four, so the trimming of each is met.  Feed:
windows of four and bars of two units in a run of six, longer than a window.

### Fairness

* Session: the process is restarted (`Restart=always`, quoted in monitor_loop),
  start-up ends, the loop polls, notifications end.  Nothing about crashes or the
  operator.
* Monitor: the loop polls for ever and its passes end (every await is a bounded
  REST call), the exchange resolves every order it was sent, one way or the other.
* Entries: bars keep closing, the loop and the poll run, time passes.  Time is given
  strong fairness because the guards of `Tick` are timing assumptions that hold it up
  until something else is over, not conditions of the clock.
* Orders: requests are answered, the stream's and the manager's tasks run, a broken
  socket is reopened.  Nobody has to submit, cancel or trade, and the socket may break
  for ever.
* Bus: the dispatch task runs, handlers end, woken waiters run, an event loop's
  ready queue being served in turn.  Nobody has to publish or to stop.

The modules of the risk gate, the backtest, the dashboard and the feed have safety
properties only and assume no fairness.

Deadlock is checked except for the bus, which may be stopped for good or run out of
events, for the orders, which may all be finished, for the backtest, which ends with its
bars, and for the dashboard and the feed, whose bounds end a behaviour.

## 4. Proofs

All theorems hold for every value of the constants that satisfies the named
assumption of the module.

* `SessionRecoveryProofs` (from `SessionAssumption`)
  * `TypeCorrect`: type correctness, from facts about `Update` and snapshots.
  * `BaselineOwned`: the breaker's numbers come from the account traded, for any
    accounts, disk faults and crashes.  Inductive with `BaselineInv`, which adds
    that an intact file's numbers belong to the account it names.
  * `HaltsStand`: with one account and no disk fault, halts survive everything.
    `HaltInv` adds that the file of a halted session is itself halted or older, and
    that no halt belongs to a session later than the breaker's.
  * `BudgetHolds`: if no account reports zero, an unhalted running bot is within
    its budget at the last equity seen.  `BudgetInv` rests on `BaselineOwned` for the
    starting equity not being zero.
* `EntryPipelineProofs` (from `EntryAssumption`)
  * `TypeCorrect`, with `HandlerInv`: a suspended handler has a symbol, and one that
    places an order has room to fill it.
  * `HaltStopsEntries`: for any universe and any queue, at most one entry is
    submitted after a halt.  `SlipInv` adds that an entry already approved when the
    breaker halted is the one that may still go out.
  * `NeverOverMaxOpen` and `NeverEnteredTwice`: with `Delays` empty, that is when an
    entry is shown by a poll within its TTL and no tick of the clock falls between a
    poll's read and its use.  `EntryInv` follows a symbol from its bar to the poll that
    confirms it: there is one signal of it, queued or in hand; while there is, it is
    reserved, not held and in no poll; once it fills it is reserved until it is watched;
    and the slots, watched or reserved, are at most `MaxOpen`, fewer while an order is
    being sized.  The bounds of the slots rest on the cardinality of finite sets, hence
    the assumption that there are finitely many symbols.
* `PositionMonitorProofs` (from `MonitorAssumption`), for any symbols, lives, ROIs and
  loss limits
  * `TypeCorrect`, with `LifeInv` (a symbol never entered has left no trace) and
    `PassInv` (what the sets of a pass have to do with the watched positions).
  * `LimitsFrozen`, `PeaksAreOwn`, `StopsAreKnown` and `HoldsOnlyWithinExits`, under
    `PassesComplete`: no failed equity request, and failed audit lines only with one
    symbol, since an exception ends the pass before its clean-up.  `StopsAreKnown`
    needs nothing else: lost answers, failed cancels and crashes only leave stops that
    are `adrift`.  `HoldsOnlyWithinExits` excludes crashes (section 3 says what happens
    otherwise).  The invariants speak of a symbol out of sight, closed and cleaned up or
    not yet looked at: it has no peak (`PeakInv`), no noted stop and none at rest but
    those adrift (`StopsInv`) and no history (`HeldInv`), so what comes next under its
    name inherits nothing.
  * `MonitorOnlyReduces`: without native stops and flatten, the closing order meets the
    position it was meant for, through refusals, failed audit lines and restarts.
    `ReduceInv` says that the monitor has one order under way at most and that the
    position of its poll is still there.  With a rival the property fails, which is the
    run `monitor_double_close`.
* `OrderLifecycleProofs` (from `OrderAssumption`), for any orders, legs, quantities
  and any length of the stream and the queue
  * `OrderTypes`: type correctness.
  * `OrderTerminalIsOver` and `OrderTerminalStays`, without hazard `"timeout"` (and
    `"blind"` for the second).  `LineInv` says that an order's messages and events
    stand in one line from the exchange to the manager (`StreamInv`, `CrossInv`,
    `EvqInv`, `StatusInv`), that a terminal one is about an order that is over, and
    that it is the last one; `CallInv` adds that nothing has been said of an order
    that place_order has no answer for, so a rejection is the first and last event.
  * `OrderFillsAgree`, for any hazards: of an order nothing was lost of, manager and bus
    never count more lots than were traded, and exactly those once stream and queue are
    empty.  `FillInv` says that the fills an order has in the line rise (`FillOrder`)
    and that the first continues what the manager has and the last is what the exchange
    has done (`FillSpan`).
* `EventBusProofs` (from `BusAssumption`), all from one invariant `BusInv`:
  `OrderInv` says that the counter counts what is queued and in hand, and that
  handled, in hand and queued events make up the accepted ones in that order;
  `WaitInv` bounds what a woken joiner and a stopper may assume.
  * `TypeCorrect`, with the queue bound.
  * `ImplementsOrder`: every step of the bus is a step of `OrderedDispatch` or a
    stutter.
  * `JoinsSettle`: join returns only after everything accepted before it is done.
  * `StopsBetweenEvents`: stop never cancels a handler half-way.

* `RiskReplayProofs` (from `ContractsAssumption`, `LimiterAssumption`, `RiskAssumption`,
  `SizingAssumption` and `BacktestAssumption`).  Gate and replay share a module because
  both sum over the symbols.  What a sum over a finite set is made of needs an induction
  on its size: it is stated as a set of numbers that has 0 and every successor
  (`NatSetInduction`), which the provers can use where a rule with a predicate is out of
  their reach.  `SumTakesOut` and `SumChangesAt` are what the rest uses of it.
  * `GateTypes`: type correctness of gate and account.
  * `GateImplementsLimiter`: every step of the gate is a step of the limiter alone or a
    stutter, so nothing on_signal does can bypass or refill the windows.
  * `RateIsBounded`: no closed interval of a span holds more orders than allowed.
    `LimiterInv` says that each window is a tail of `acquired` and that what it dropped
    is older than its span.
  * `SymbolLimitHolds`: with `MaxPerOrder <= MaxPerSymbol`, however stale the quantities
    are.  `SymbolInv` adds that an order past its check is within the order limit and
    that its symbol was flat and stays so until it executes.
  * `SetUpHolds`: unless a margin type may really fail to be set.  `SetupInv` adds that
    while leverage is being set the symbol is not remembered yet and its margin is set.
  * `LeverageHolds`: `LeverageInv` says that while on_signal is suspended the account
    holds no more than was read, since positions can only close meanwhile, and that an
    approved order fits on top of it at the equity that was read.
  * `SizesNeverRoundUp`: each sizing function against its contract over all inputs, from
    one lemma on `\div` (`Floor`) and the caps compared as cross products.
  * `ReplayTypes`: type correctness of the replay.
  * `NeverLooksAhead`, with `CrossSymbol` off.  `FreshInv`: every bar a pending order
    still has to meet is later than its decision, and so is the bar in hand for what is
    in `todo`.  With `CrossSymbol` on it fails (section 3).
  * `RecordsAddUp`: `TradesOf` adds that a flat symbol has an empty record, which is why
    the next one starts from zero.
  * `LedgerAgrees`, of the replays in which `WholeAverages` always holds.  Averages are
    floats in the code and whole numbers here, so a remainder the model would drop is
    excluded; every state of the run satisfies the hypothesis, and fills that reduce,
    close or flip satisfy it whatever the prices.
  * `OvershootIsBounded`, with `CrossSymbol` off.  `LimitInv`: the gate's positions are
    the simulator's except for the symbol of the bar in hand (`Current`); there they are
    behind by what limit orders executed and at most one market order (`Behind`); a
    market order waits for one bar only, fills whole and ends within the bound
    (`UnderWay`, `Waiting`), for the strategy that sees a bar has no other order of that
    kind pending on the symbol.

* `UniverseFeedProofs` (from `FeedAssumption`), for any windows, timeframe and bounds,
  gaps, backfills and drops
  * `TypeCorrect`.
  * `WindowsAreHonest`: a change that counts spans its window.  `WindowInv` says of each
    window that its samples are in order, as old as they say but for one kline, and none
    older than the window, from lemmas on `PopOlder`, `AppendTrimmed` and `Seeded`.
  * `DecisionsAreFresh`: `QueueInv` adds that each queued tick and bar is over by the
    time of the newest sample, so the bus may delay or drop, but not run ahead.
  * `BarsAreTrue`: `BarInv` says that the bar in progress is the open, high, low and
    close of the ticks heard since it began, and starts after the one closed before.
* `DashboardBridgeProofs` (from `BridgeAssumption`), for any connections, prices and
  limits, through every mishap of the model
  * `TypeCorrect`.
  * `TrackerKeepsUp`: `TrackInv` adds what is still owed to the tracker while a fill
    goes through its three broadcasts.
  * `NothingIsForgotten`: `BookInv` says for each list that its numbers rise, in memory
    and on disk, that every number given is on disk or `unkept`, that a running process
    lists it, or it is too old, was not read back (`unread`) or made room (`RecordInv`),
    and that tabs and broadcasts have only numbers that were given (`Shown`).
    `RestartReads` says what a restart lists, whichever lines it could not read; it rests
    on `AscendingExists`, that the numbers of some lines can be put in order, an induction
    on how many there are (`NatSetInduction`).
  * `TradesListedOnce`: `OnceInv` adds that only the bus broadcasts trades, only to
    registered connections, and that those it has not reached list only older trades.
  * `NothingIsMissed`, if a tab keeps two of a kind at least.  `MissInv` has three
    parts.  A connection that works and is served is a client, what a broadcast found
    dead stays dead, and nobody is served while the process is down (`ClientInv`).  Of
    two lines of a list on their way one is the newest (`OneBehind`), so the newest of a
    tab's list stands last, or last but one and then nothing older than it can still
    come (`TopInv`): trimming never drops the newest.  And a tab whose backfill has
    been sent has everything the bridge lists, or is about to, or it was cut off, or
    made room for something newer (`ReachInv`).
  * `TrackerBooksAddUp` (from `TrackerAssumption`): every sequence of fills that
    `TrackerAddsUp` ranges over, for any lot size and fee.  `FillAddsUp` is the step: a
    fill keeps records and money in agreement while the prices' common factor, halved by
    each average, lasts; `FoldSteps` unfolds the four steps of the fold one by one.

So the type invariant of every component is a theorem, and so is every safety and every
action property that a passing run checks.

Only model-checked:

* All liveness properties (`NewDayStartsNewSession`, `ClosingCompletes`, `SlotsReturn`,
  `OcoResolves`, `Settles`, `Delivered`): fairness and ENABLED are beyond the prover.
* What the theorems' hypotheses leave out, where nothing is claimed: the hazards
  excluded in each theorem are those of section 3 under which the property fails.
* The tracker's bookkeeping over sequences of fills that are longer, or of other prices,
  than those `FillsAddUp` ranges over is neither checked nor proved: a longer sequence
  would need an induction over it, and an average that is not whole a model of rounding.

## 5. Plan

1. *Composition*: the bridge's raising broadcasts inside on_signal and the monitor's
   close, which are known limits above and not yet one model.
2. *Bridge*: the candle caches, whose backfill may append the minute in progress out of
   order, and the close reasons, of which a stale one may be shown.
3. *Broker*: connecting, filters and the shutdown sequence of the runner.

## 6. Not modelled

Performance statistics and slippage averages are floating-point arithmetic without
control.  The SQL store, logging, the Telegram notifier and the React components
are input and output.  The watchdog compares two systemd states in a shell script.
Configuration and events are declarations; the validators that matter are ASSUMEs.  The
IBKR adapter has no entry point in this repository.
Redis is optional fan-out of the bus.  Floating point is exact here, prices and
sizes are abstracted as said above.  Everything else that is missing is in the plan.
