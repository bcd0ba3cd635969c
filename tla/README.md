# Models and proofs of the Bybit momentum bot

TLA+ modules, TLC configurations and TLAPS proofs for the Python service in
`src/`: an asyncio process that streams candles from Bybit, ranks a universe of
perpetuals by momentum, and buys, manages and closes positions, on the venue or
with simulated fills, keeping its book in SQLite; and for the backtests that
decide how it is configured.

## 1. The system

| part | source | state it keeps | operations |
|---|---|---|---|
| trade management | `trade_management.py` | none | break-even trigger, initial levels, ratchet rule and rungs, name of an exit |
| execution engine | `execution.py` | none between cycles; all in SQLite and at the venue | `process_cycle`: local branch (risk exits, entries), live branch (sync, break-even stops, profit targets, entries), research tables |
| database | `database.py` | one SQLite file, one connection | one committed statement per call, each in a worker thread |
| trade client | `exchange.py` | HTTP session, instrument cache | orders, position, trading stop, closed PnL, two bounded polls |
| market data client | `exchange.py` | candle cache (SQLite) of the backtests | bootstrap, candle stream, ranges of closed candles through the cache |
| market state | `state.py` | confirmed closes, provisional candle, intrabar ladder and observations per symbol, macro state | append, update provisional, replace history |
| signal engine | `signal_engine.py` | per-ticker ladder and cooldowns (in market state) | rank, classify, alert, log |
| indicators | `indicators.py` | none | numeric indicators, correlation clusters |
| service loops | `main.py` | two bounded queues, `process_lock`, stats | enqueue, two consumers, macro refresh, websocket supervisor, shutdown |
| runtime monitor | `runtime_monitor.py` | tracker timestamps | health snapshots, drift check |
| validation, configuration | `runtime_validation.py`, `config.py` | none | refuse bad settings |
| alerting | `alerting.py` | none | Telegram calls |
| backtest simulator | `backtest.py` | positions, trades, wallet, trackers | the same rules minute by minute over recorded candles |
| research commands | `backtest.py`, `replay.py` | checkpoint CSV, a directory per variant, plan snapshot | prefetch, backtest, compare, grid, sweep, walk-forward |
| reconcile, report, tools, deploy | `reconcile.py`, `report.py`, ... | none | one-shot commands |

How they interact. The websocket task appends candles to `MarketState` and puts
a cycle time into one of two queues, `emerging` or `confirmed`. One consumer per
queue takes the newest time, waits for `process_lock`, and inside it (emerging
only) lets the signal engine rank the universe, then calls
`ExecutionEngine.process_cycle`. The engine reads prices from `MarketState`,
writes SQLite, and in live mode talks to the venue; the venue moves on its own:
orders fill late, stops trigger, its closed-PnL list lags. Every database call
and every request is an `await`, so prices, days and the venue change between
any two of them, and the task can fail, be cancelled or die there.

A research command fetches a replay plan, bars and minutes of every symbol, many
requests at once, through the candle cache; checks that it has no hole; and runs
one backtest on it or one per variant, in this process or in a pool of processes
that read the plan from a temporary file. A grid rewrites its checkpoint after
every row and a later grid resumes from it.

What is hard:

* partial failure: an exit is three commits, an entry two, in live mode with a
  request to the venue before them;
* two copies of the truth: row against venue position, row stop against venue
  stop, closed-PnL record against the trade it is taken to describe;
* values read once and used later in a cycle: open positions, cluster counts,
  the breaker's count, the clock;
* long sequences: break-even stop, ratchet rungs, deadline and exits of one
  position in any order must keep its levels consistent;
* time: two clocks (now, and the bar of a confirmed cycle), deadlines, UTC days;
* candles that are lost, late or straddled by a bootstrap, while queues drop what
  does not fit and a failed cycle holds, or must not hold, the shared lock;
* a ranking that is walked with an await per alert while bars close under it;
* candles that fail to be there, a gather that raises while its other calls go on
  storing, a kill between the truncation of a file and its rewriting.

What makes each part correct:

* trade management: levels form a ladder; a stop is only raised; the name filed
  for an exit says what the stop was;
* execution: one position per ticker, the cap on positions, the cap per cluster,
  the daily breaker; every close has one exit order and one ledger row; the
  deadline is met;
* live execution: a position at the venue is known to the book and protected at
  least as tightly as the book says; exits are booked from their own record and
  sent once; a position the venue closed is closed in the book;
* database: a call's statements commit together and alone;
* market state: prices are contiguous bars, the provisional one follows them;
* signal engine: the rung of a ticker is backed by what was observed of it in
  this bar, and it is alerted once per cooldown;
* service loops: a candle event leads to a cycle; the confirmed clock goes
  forward; a broken history is repaired;
* backtest: wallet and trades agree, a candle judges only what was there before
  it, entries keep every limit, positions live as they do in live execution;
* research: plans without holes, no leak from test to training, rows that are
  ranked together are comparable, and the files of a row are its own.

## 2. Modules

| module | models | built from |
|---|---|---|
| `TradeManagement` | `trade_management.py`, as operators | |
| `PositionBook` | the rows of `positions`, with what `orders` and `trade_analytics` say of them, one operator per committed statement; `OnLadder` and `EventFits`, what is to hold of a row | extends `TradeManagement` |
| `EntryGate` | the chain of early `continue`s at the head of the entry loop, shared by both branches | |
| `PositionLifecycle` | the abstract promise: enter, raise the stop, leave | |
| `LocalExecution` | `process_cycle` with simulated fills | extends `PositionBook`, `EntryGate`; instance of `PositionLifecycle` |
| `LiveExecution` | `process_cycle` against the venue, and the venue as `exchange.py` uses it | same |
| `MarketFeed` | candle histories, stream, bootstrap, supervisor | |
| `Runtime` | queues, consumers, `process_lock`, failed cycles, restarts | extends `MarketFeed` |
| `SignalEngine` | the ladder of a ticker over emerging cycles | |
| `BacktestSimulator` | the minute replay and its simulator | extends `TradeManagement`; instance of `PositionLifecycle` |
| `CandleCache` | ranges of closed candles through the cache | |
| `VariantRun` | a list of variants on one plan: sequence or pool, checkpoint, exports | |
| `Research` | the commands: windows, plans, selection | extends `CandleCache`, `VariantRun` |
| `PositionBookProofs`, `LocalExecutionProofs`, `LiveExecutionProofs`, `BacktestSimulatorProofs`, `RuntimeProofs`, `SignalEngineProofs`, `VariantRunProofs`, `ResearchProofs` | theorems and proofs | extend the modules they are named for |
| `MC...` | finite values for the constants | |

Prices are returns on the position's own entry in basis points: the entry is 0,
the target `TakeProfitPct`, the stop `-StopLossPct`. The code only compares
products of the entry with (1 + pct), so nothing that it decides is lost; its
tolerance of 1e-9 for float noise is not modelled. Sizes at the venue are whole
entries. A cluster label is a model value; a labelling is any of the functions
in `Labelling`.

A row of `PositionBook` is the newest position of a ticker, not the history of
all: every statement names one position id, and no guard reads an older one.

### LocalExecution

`pc` is where the cycle stands between two awaits that commit.

| action | code |
|---|---|
| `StartCycle` | a consumer enters `process_cycle` (`main.py` 204, `execution.py` 1245) |
| `ReviewFails` | `get_prices` of a ticker outside the universe raises (`state.py` 141) |
| `ReadPrice` | price read, break-even stop armed (`_process_risk_exits` 1078) |
| `AdvanceRatchet`, `KeepPosition`, `OrderExit` | the three ways a review goes on (1092-1150) |
| `ClosePosition`, `RecordTrade` | the commits of `_submit_simulated_exit` |
| `BeginEntries`, `SkipEntry`, `OrderEntry`, `OpenPosition` | `_process_entries` |
| `EndConfirmed`, `EndEntries` | the cycle returns |
| `Abort` | an exception, a cancellation or the death of the process at any await |
| `Reconfigure` | a restart with fewer tickers in `UNIVERSE` |
| `Tick`, `NewDay` | time and midnight UTC |

The confirmed cycle's clock is the start of the bar that closed (`_now`,
`exchange.py` 909): `ClockLag` is one bar there, and its UTC day may be the
previous one. After bootstrap every ticker of the universe has a price, so the
early `continue` on an empty history is left out.

### LiveExecution

Three walks over the open rows, then the candidates; one step per request that
changes the venue and per commit. `SyncTake` `OrderExit` `ClosePosition`
`RecordTrade` book an exit found at the venue, `ArmVenue` `ArmRow` and
`RaiseVenueStop` `AdvanceRow` move a stop there and then in the row,
`SendExit` `MarkPending` `ConfirmExit`/`GiveUpExit` are `_submit_live_exit`,
`PlaceBuy` `SeeFill` `SetFirstStop` `OpenPosition` or `GiveUpEntry` the entry.
`LoseExitAck` and `LoseBuyAck` are requests whose answer never comes.
`FillBuy`, `CancelBuy`, `FillSell`, `CancelSell`, `TriggerExit`, `Publish` are
Bybit's, at any moment. A closed-PnL record is reduced to what the code can tell
of it (`updatedTime` before `opened_at`: `stale`) and what it cannot (whose
trade it is: `own` or `foreign`).

`execution.py` calls `asyncio.sleep` (line 861) without importing `asyncio`: the
first poll that finds no record raises, the caller's handler turns it into a
pending exit. That is `GiveUpExit`, enabled from the first poll on.

Not in `LiveExecution`: the daily breaker (its count is an input that
`LocalExecution` models; here it never closes the gate), a changed universe, the
deadline (the live branch has none, although STATUS.md:70 says it does), rounding
of venue prices to the tick, `ANALYTICS_ENABLED` off.

### MarketFeed and Runtime

Time counts bars; a candle is its bar, and of prices only matters whether a
provisional one moved. `link` is where `websocket_supervisor_loop` (before it,
`run`) stands: `boot`, `connect`, `up`, `failed` (the failure is still to be
written to the database), `fetch`, `dead`. `ConfirmOutcome` and
`ProvisionalOutcome` are the three ways `append_close` and `update_provisional`
end. `Fetch` reads each symbol at its own moment, `ApplyBootstrap` replaces all
histories in one synchronous piece and, in `Bootstrap`, queues the last bar of
every symbol. The venue finishes a bar for all symbols before the next; a message
may be lost (`LoseConfirm`), the connection may go (`Disconnect`), a request may
fail (`FetchFails`), the process may restart (`Restart`, systemd
`Restart=always`). Backoff is time spent in `connect`.

A stage is a queue with its consumer. `Enqueued` keeps what fits; `Get`, `Drain`,
`StartCycle`, `EndCycle` are the loop between its awaits; `turn` is the FIFO of
`process_lock`. An exception in the cycle releases the lock and is written to the
database outside any handler: `CycleFailureUnlogged` ends the consumer for good,
`LogFails` the supervisor, and nothing awaits either before shutdown. A ghost
`due` says that an event has not been followed by a cycle. The cycle time of an
emerging cycle is only logged, so it is one value (`Intrabar`). What a cycle does
is `LocalExecution`, `LiveExecution`, `SignalEngine`. The macro, health and drift
loops are left out; the local clock is taken to agree with the venue's.

### SignalEngine

`process` computes all metrics before its first await and then walks the ranking
with an await per alert. `Begin`, then per ticker `Drop` or `Climb`, `FinishAlert`
when Telegram has answered or failed, `End`. `AppendClose` is the websocket task
closing a bar, which resets the ladder of that ticker at any point of the walk.
Rank and score are chosen when the walk reaches the ticker, in the order of the
ranking; an observation carries the bar that was current when the cycle began,
which the code does not record. One ticker of a universe of three is enough: the
tickers share nothing but the awaits of the walk and the order of ranks, and
ranks may be skipped for the others.

### BacktestSimulator

One step per position or signal of a minute, as the loops of
`process_intrabar_exits` and `process_entries` take them; the candle of a
position, low and close, is chosen when it is looked at. Prices are returns on
the entry fill in units of which `Scale` make the price; money is whole units of
`1/Scale`; sizes are rounded to lots as nothing else can be in integers. Equity
curve, excursions, the BTC overlay and the texts are not modelled; the end of a
bar only appends its close and takes a snapshot.

### CandleCache, VariantRun, Research

`Ask` makes the tasks of a gather; they wait in `waiting` until each begins, in the
order of the symbols and, behind the semaphore, when another is done (`Begins`).
`StartCall` runs one up to its first await: it reads the clock for itself, so that
two symbols of one gather may see different minutes, and is answered by a hit or
becomes one of the `calls` with the clock it has read. `Reply` checks
contiguity, stores and commits; `FindsGap` and `RequestFails` raise. When one
raises, the gather is over and the others go on as orphans (`Orphaned`), still
storing, while a sweep is already at its next window. All pages of a call are one
answer, since they are judged by one clock. `stage` walks through
`fetch_minute_replay_plan_for_window`: bars, universe, daily, alignment, minutes,
daily again, BTCDOM. The bars are gathered without a semaphore, minutes and
prefetches with one of `BOOTSTRAP_CONCURRENCY`.

`VariantRun` has the runner (`phase`), the jobs, and what survives it: the
checkpoint `file` and `exports`, the directory of each variant. A variant is taken
by a worker (`Take`), backtested in memory, and in a grid exported in two pieces,
`ExportTrades` and then the rest with the equity curve, which `Complete` stands
for; between the two it can fail or the process be killed. Without a trade the
first piece writes nothing, and what an earlier run left there stays. `CollectRow`
truncates the checkpoint, `WriteCheckpoint` has it whole again; a kill in between
leaves some rows and perhaps a torn one, which the next resume refuses to load
(`BeginUnreadable`). After a failure the pool is drained (`Drain`): what is queued
still runs and exports, but its rows are lost. A result database is not
modelled: there is none (section 5).

A ghost of a plan, `settled`, says that it was asked for when its window was over.
Only then do all its symbols judge their candles alike: with the end of the window
still to come, a midnight between two of them may make the universe of the plan
smaller, which the code lets pass (`backtest.py` 1089).

Assumptions: the same request is given again when a grid is resumed (with
`--resume-variants` and `--export-dir`, so that `variant_summary.csv` is both
checkpoint and export); a sweep compares both filters; a worker fails
alone (no `BrokenProcessPool`); score and trades of a variant depend on it and on
the plan only, and the score is a number for every end a plan can have
(`ScoreAssumption`); the list of variants is not empty and has no variant twice
(`VariantsAssumption`: a request without settings runs the baseline, and equal
values in `--grid-setting` would share a directory), and the names of two variants
differ in more than the characters `_variant_export_slug` replaces; a series has the width its
kind says (`SeriesAssumption`).

## 3. What the runs check

| run | question | result |
|---|---|---|
| `local` | book, ledger and limits under prices, failures, midnight and a shrinking universe | holds |
| `local_liveness` | is a position past its deadline resolved | holds while the universe stays |
| `local_universe` | and when a ticker is removed | violated |
| `local_clock` | is a trade closed after it was opened | violated |
| `live` | book against venue, one ticker | holds |
| `live_pair` | life of positions, two tickers under a cap of one | holds |
| `live_cluster` | cluster cap within one live cycle | violated |
| `live_naked` | a stop under every venue position between cycles | violated |
| `runtime` | histories, cycles and clock under lost messages, failures, restarts | holds |
| `signals` | the ladder of a ticker under closing bars and failing alerts | holds |
| `backtest` | money, reasons, timing and limits of the simulator; refinement | holds |
| `research` | two commands in a row with a fault or a kill anywhere | holds |

Properties of `LocalExecution`:

* `LadderInv`: target, stop, flag and step of every row belong together.
* `EventTellsTheStop`: a trade filed as a stop loss lost on an unlifted stop, one
  filed as a break-even stop was sold at or below the entry on a stop lifted no
  further than that, one filed as a ratchet stop at a stop of a later rung. The
  breaker and the reports count events.
* `LedgerComplete`: between cycles each close has its ledger row and its one exit
  order, each filled entry its position, but for one per failed cycle.
* `ClusterCapKept`: the cap per cluster, whenever the two labellings a cycle uses
  agree (they are computed at two moments and may not; where they differ the code
  promises no cap and none is stated).
* `BreakerSlack`: entries stop at the daily limit of loss-making stops, late by at
  most one per failed cycle: the breaker counts ledger rows. Only stops whose exit
  is stamped with the day count, and only with analytics on: what a confirmed
  cycle stamps with the day before is `ClosedAfterOpened`, and without analytics
  there is no breaker.
* `StaleEventuallyResolved`: a position past its deadline is closed or ratcheted.
* `ClosedAfterOpened` (violated): the lag of the confirmed clock.
* `ImplementsLifecycle`: refinement of `PositionLifecycle` with
  `held <- OpenTickers`, `floor <-` the stops of open rows.

Properties of `LiveExecution`:

* `VenueStopTight`: the venue stop is at least as tight as the row's, in every
  state, unless the ticker is stray: an entry of it was given up and is not yet gone
  from the venue. What a stray entry does to the one position the venue keeps per
  ticker is not stated.
* `ClosedFromOwnRecord`: no exit is booked with the price of another trade, again
  unless the ticker is stray, where the newest record may be that of the stray
  entry.
* `UntrackedIsStray`: what the venue holds and the book does not is an entry whose
  handler gave up, and nothing else.
* `SoldAgainAfterFailure`: a position is sold again only after a cycle that sold it
  failed before it marked the row, once for each such cycle. A lost answer is such a
  failure, and the code does sell again after it; no other failure, restart or poll
  that runs out repeats a sale.
* `ClosedIsSynced`: a position the venue closed is closed in the book.
* `ImplementsLifecycle`, `ClusterCapKept` (violated), `NoNakedPosition` (violated).

Properties of `Runtime`:

* `NoHoles`: every history is consecutive bars and the provisional candle the next.
* `EventsFollowed`: every candle event, dropped ones included, is followed by a
  cycle that starts after it, or its consumer is dead.
* `ConfirmedClockForward`: confirmed cycles never go back in time within a process.
* `HistoryHeals`: once no more goes wrong every symbol has every closed bar, or
  the supervisor is dead.

Properties of `SignalEngine`: `KindEarned` (the rung is backed by the kept
observations), `OneBarBehindAtMost` (only the oldest observation can be of the
bar before: a cycle caught by a close files an old ranking in the new memory,
once), `AlertsAsSpecified` (a move is alerted exactly if no alert of that rung
was delivered within its cooldown).

Properties of `BacktestSimulator`: `LedgerBalances`, `ReasonTellsPrice`,
`LaterCandlesOnly`, `NeverStale`, `FollowedToTheBar`, `EntriesWithinLimits`, and
`ImplementsLifecycle`: simulated, live and backtested positions implement one
abstract specification.

Properties of `Research`: `CacheHoldsClosedCandles`, `PlanWhole`, `WindowsApart`,
`SelectedIsBest`, `PinnedRowsComparable`, `RowsOwnExports`,
`SnapshotOutlivesWorkers`. `RowsOwnExports`: the directory a ranked row names has the
trades, if there are any, and the curve of that very row, after kills between the two
files, failures, drained workers and resumes. `PinnedRowsComparable` needs `--end-date`,
and of rows whose plans were asked for before that date was over it states the end
only. Without `--end-date`
a resumed grid ranks rows of the present window with rows of the window of its
first run: the silent anchoring at "now" that DECISIONS.md:146 warns of.

Bounds. Two tickers are enough for the caps (one candidate after another) and
for two labellings (together, apart); one ticker is enough for what row and
venue say of one position, since nothing else is shared. Take profit and stop of
2, the trigger at 1, and prices on, between and beyond every level
(`MCPrice`; `FewPrices` keeps one per decision) make every branch of the rules
distinct; with a ladder of two rungs in `local` (the first at the entry, the second
above it) each event can be filed and the limit bites, with one in `live`. `MaxAborts` and
`MaxFaults` of 1 or 2 put a failure at every await of every cycle. `MaxSize` of
2 lets a late entry meet a second one. `AgeBound` is where the deadline has
passed for both clocks. `MaxOpen` equals the number of tickers where clusters
are the question and 1 where the cap is.

`runtime`: two symbols (so that a bootstrap can straddle a close), a window of
two bars, two more bars closing, queues of one (so that they overflow), one
fault; a failed write that follows a failed cycle or stream is part of it.
214 412 states, about two minutes for the liveness. `signals`: cooldowns of 3 and
4 in 7 cycles, so that each rung can be alerted, be silent and be alerted again;
two closes. 690 953 states. `backtest`: five minutes over two UTC days, returns
-2, -1, 1 and 4, fees and slippage of 1 %, a breaker of one stop loss, a ladder
of two rungs, deadline 2, trackers of 3 bars. 601 297 states. `research`: a bar
of two minutes, three windows, three variants (one tie), two workers, two
commands, one fault or kill; at two venues, one where a symbol is listed late,
one where it lacks two minutes and BTC its first bar; the clock passes the end of
a bar once; two fetches at a time; the first variant trades on one end a plan can have
and not on another, so that a resumed grid meets trades of an earlier run. 1 163 297
states.

Fairness of `LocalExecution`, `LiveExecution`. `EngineStep` weakly fair: candle events keep coming and asyncio runs
the consumers, so cycles start and go on. `StartEmerging` strongly fair: both
consumers wait for one `asyncio.Lock`, which serves in order, so confirmed
cycles cannot shut emerging ones out. `Publish` weakly fair: the venue's list
shows every close in the end. `Abort` is bounded, not fair: failures are allowed,
and after the last one the system is as live as the code makes it. Deadlock is
checked in these runs, in `signals` and in `backtest` (where the end is a
stutter).

Fairness of `Runtime`. Bars close, confirmations come, and for a symbol with a
bar open prices come, weakly fair: a symbol without any message can neither be
noticed nor repaired. The supervisor and each consumer are weakly fair, as
asyncio runs what can run; the lock is a FIFO by construction. Faults are
bounded, not fair. `CHECK_DEADLOCK FALSE`: when the last bar has closed and the
supervisor or the consumers are dead, the service is idle for ever, as in the
code. In `research` the commands are finite, which is where it stops.

Disagreements found, each a run that TLC must refute:

1. a ticker removed from `UNIVERSE` with a position open stops every later cycle
   (STATUS.md:70 promises the deadline);
2. a confirmed cycle can stamp an exit before its entry, and on the previous UTC
   day (JOURNAL.md:92: holding time);
3. in live mode the cluster cap is not counted within a cycle (README.md:473);
4. an entry given up after its order was accepted can leave a position without a
   stop and without a row (SPEC.md:191).

## 4. What is proved

Every safety invariant and action property of every passing run has a theorem, for
every value of the constants that satisfies the named assumptions: positive take
profit and stop loss, which startup validation enforces; limits and lengths that
are naturals; finitely many tickers; what section 2 says of variants, scores and
series. Four theorems ask for more and say so: `ReasonsHold`,
`BacktestTypeCorrect`, `EventsKept` and `KindsEarned`, below.

* `PositionBookProofs`: facts about one row. `RatchetClimbs`: an allowed ratchet
  step leads to the next rung. `StopRises`: arming and ratcheting never lower the
  stop; the case that needs the ladder is step 0 with any stop loss, and step n
  where rungs are `TakeProfitPct` apart. `FiledEventFits`: the inferred event tells
  where the stop stood, below, at or above the entry. Both engines' proofs rest on these and on the lemmas about the row
  statements beside them.
* `LocalExecutionProofs`:
  * `TypeCorrect`. The inductive form `TypeInv` adds `InHand`: between `ReadPrice`
    and `RecordTrade`, and between `OrderEntry` and `OpenPosition`, there is a
    ticker in hand. Without it `rows[cur]` has no type.
  * `LadderHolds`, `EventsTellTheStop` from `RowInv`: every row on the ladder, its
    event fitting, and `WalkInv`, which says the position in hand is open until
    `ClosePosition`, closed at the price in hand after it, and tickers still to be
    reviewed are open. Only with it are `ArmedRow` and `AnalysedRow` applied to
    the rows the row lemmas are about.
  * `LocalImplementsLifecycle`. `EntryInv`: while entries are processed `booked`
    is exactly the open tickers, and the ticker about to be opened was admitted
    below the cap. Each action maps to `Enter`, `RaiseStop`, `Leave` or a stutter
    (`LifeStep`).
  * `BreakerHolds`. `BreakerInv`: losses of the day exceed the ledger rows of the
    day by at most the failed cycles plus the close in hand, and while entries are
    processed they exceed `stopsSeen` by at most the failed cycles; midnight
    clears losses and ledger alike.
  * `LedgerIsComplete`. `LedgerInv`: closed and not filed are at most the trade in
    hand and those that failed cycles dropped, an entry order without its row is
    the one in hand or theirs, and an exit was ordered once more than cycles
    failed at it. The count is over sets of tickers, so each action shows by how
    much its set can grow.
  * `ClusterCapHolds`. `ClusterInv`: while the labels of the signals and those the
    book was counted by agree, the running count of a cluster is the number of
    booked tickers in it; an entry order is out only while its cluster has room.
* `LiveExecutionProofs`, where the venue moves between any two steps:
  * `LiveTypeCorrect`, again with `InHand`.
  * `LiveRowsStand` from `WalkInv` (a walk reaches an open row once, and what is
    in hand stays open until its exit is booked) and `MovedInv` (a row whose venue
    stop was just moved is one that may still be armed or ratcheted).
  * `LiveImplementsLifecycle` with `EntryInv`: `booked` is the open tickers, and
    an entry order is out only for a ticker without position, with room under the
    cap.
  * `ResendsNeedFailures` with `SentInv`: a position whose exit is neither marked
    pending nor about to be has had no exit sent but those `unmarked` counts, one
    for each cycle that sold it and failed before marking the row. Between sending
    and marking nothing happens in the engine but a failure, and a mark stays until
    the row is closed.
  * `NothingUntracked` with `FlatInv` and `StrayInv`: for a ticker that is not a
    stray, nothing is held or out at the venue but what its row, or the order that
    is being awaited for it, accounts for (`Known`). This is the longest of the
    arguments here: each venue step is taken against each place the cycle may be
    at.
  * `ExitsFromOwnRecords` with `RecordInv`: the closed-PnL list tells of a close
    that no row is about only for a stray, so that for any other ticker an exit is
    booked from its own.
  * `VenueStopsTight` with `TightInv`: between moving the stop at the venue and
    writing the row the venue is already as tight as the row will say; after a
    failure in between it is tighter than the row, never looser. Stray tickers are
    left out here too.
* `BacktestSimulatorProofs`:
  * `NeverStaleHolds`, `LaterCandlesHold`, `ReasonsHold` and
    `BacktestImplementsLifecycle`. `BookInv`: every open position is on the ladder
    and of the past, and while exits run, what is still in `todo` was open, and
    its stop where it is, before this minute's candle, and what has left it is not
    stale. The positions the loop has yet to see are what makes the per-minute
    properties inductive. Every closing then files a trade that tells its price
    (`StopOutFiles` and its like); the record of trades is carried by `TradeInv`.
    `ReasonsHold` assumes that the slippage of an entry is less than the stop
    distance: only then is a position that is closed by the end of the data in the
    minute of its entry not sold at its stop. Nothing in the code checks that.
  * `FollowedHolds` with `FollowInv`: the trackers are those of the trades younger
    than `PostExitBars`, each with the bars its age leaves it, and every older
    trade is followed.
  * `LedgerBalanced`. A small theory of finite sums comes first, because the
    library's induction theorems take operators: that a sum adds up is proved by a
    least counter-example in the order of strict subsets, then its independence of
    the order (`SumWithout`) and its split by classes (`SumByClass`). `LedgerInv`
    adds to the equation of the wallet that trades are dated within the replay and
    that at the forced close what is left of the loop is exactly what is open, so
    that nothing is open when the balance is drawn.
  * `EntriesKeepLimits`, an action property, with `BreakerInv`: the counter of a
    day is the number of stop losses of that day in the list of trades. The code
    reads the counter and never the list.
  * `BacktestTypeCorrect` with `TypeInv` and `FeeInv`, where neither stop distance
    nor slippage is more than the whole price; otherwise a sale is at a negative
    price and its fee negative. Nothing in the code checks that either.
* `RuntimeProofs`:
  * `HistoriesWhole` and `ConfirmedClockHolds`. `HistoryInv`: each history is
    consecutive, a provisional candle is that of the next bar, and where the
    supervisor is past its first bootstrap no history is empty; without the last
    part the first close after a bootstrap has no predecessor. `ClockInv`: every
    time in the confirmed queue or in its consumer's hand is at most what the
    stream sends next for any symbol and at most what a bootstrap under way has
    read, and none in the queue is before the time in hand. The one hard step is
    the consumer that drains its queue and keeps the largest (`MaxProperties`, by
    the least element of a well-founded order).
  * `CyclesExclude` and `LockFreed` with `LockInv`: the lock is held, or waited
    for, by exactly the consumers that run or wait, each once, and never by a dead
    one. This is what `LocalExecution`, `LiveExecution` and `SignalEngine` take
    for granted when they model one cycle at a time.
  * `EventsKept` with `DueInv`: where an event has not been followed by a cycle,
    its queue is not empty or its consumer has taken a time and not begun the
    cycle. It is the safety half of the liveness property `EventsFollowed`, and
    needs a universe that is not empty.
  * `RuntimeTypeCorrect` with `FeedBounds` and `LoopBounds`.
* `SignalEngineProofs`: `TypeCorrect`; `OneBarBehindHolds` with `WalkInv` (a
  ticker the walk has yet to visit still has the bar its ranking was made from, or
  nothing was kept of it); `AlertsHold` with `MemoryInv` (what the engine
  remembers is what was delivered); `KindsEarned`, where both rungs ask for two
  observations or more: with one, a first observation earns a rung and improves on
  nothing.
* `VariantRunProofs`: `RowsRanked`, that the ranking is a permutation of the rows,
  best first, whatever scores and order of arrival; and `RunInv`, which
  `ResearchProofs` uses: rows, jobs, checkpoint and exports of a run belong to
  each other at every phase, and the files under the name of a row are of that row.
* `ResearchProofs`:
  * `CacheHolds` with `CacheInv` (a call that is out was noted by the present
    clock or an earlier one, so what it found closed is closed when it is stored,
    also by a call nobody waits for); `SnapshotHolds`, which is inductive once
    `job` is known to be a function of the variants.
  * `WindowsStayApart` with `StageInv` and `WindowInv`: test ends fall by a test
    length or more, what was tested is of windows already behind, and the training
    of a window ends where its test begins.
  * `PlansWhole` with `PlanInv` (which series of the plan are whole is settled by
    the stage it has reached) and `MinutesInv` (while minutes are fetched every
    series has its answer or a call out, also with orphans of an earlier plan
    about).
  * `RowsKeepExports` from `RunInv` and `EndInv` (no window ends later than a plan
    can end, so every score that is read is a number).
  * `BestIsSelected` with `SelectInv`: while a window is tested, every variant was
    trained for it and none beats the one that is tested.
  * `PinnedRowsCompare` with `GenuineInv`, `BarsInv`, `PlanPinned` and
    `RowsPinned`: the bars of a plan are those the venue has that were closed when
    its calls read the clock; with a pinned end that was over when the plan was asked
    for (`settled`) every clock that lets the plan pass selects one universe
    (`Listed`), and every such row a grid has or resumes rests on it.
  * `ResearchTypeCorrect` with `FetchTypes`, `PoolTypes` and `CountTypes`.

Only model-checked: the liveness properties `StaleEventuallyResolved`,
`ClosedIsSynced`, `EventsFollowed` and `HistoryHeals` (fairness and ENABLED are out
of the prover's reach), and the four properties that are violated. TLC also
evaluates each of the proved invariants on the instances of section 3, which is
where a reader sees that their hypotheses are met and their interesting cases
happen.

## 5. Not modelled, and the plan

To come: safety lemmas that the liveness properties rest on, as `EventsKept` is for
`EventsFollowed`; the strengthening of the abstract specification by the reason
of a leaving; `reconcile.py` over the rows and records of `LiveExecution`.

Not modelled, with the reason:

* HTTP, signing, CSV and report formatting, plots, deployment scripts, one-shot
  tools, `report.py`, `reconcile.py`: no state that a step of another part meets;
* indicators: floating-point formulas; what they say is a nondeterministic rank,
  score, label;
* macro, health and drift loops: they read state and venue and write reports. A
  failed query ends a loop for good (there is no handler), and its exception
  comes out at shutdown (`main.py` 542), before `run_stopped` is logged and the
  database is closed;
* the one sqlite connection shared by worker threads: what two overlapping
  statements do depends on how sqlite was built;
* portfolio snapshots, position marks and post-exit tracking of the live engine:
  tables that only reports read;
* the close-proxy backtest mode (`run_replay`): it calls `process` with the
  default stage, which returns no signal (`replay.py` 133).

Seen while reading, stated by no property because the code promises nothing else
or the part is not modelled:

* a local clock ahead of the venue's makes `fetch_closed_klines` accept a forming
  bar (`exchange.py` 600), and a cache hit then keeps it;
* rows that finish after a failed variant are lost, and a kill between truncation
  and rewriting of the checkpoint loses finished rows (README.md:240 says
  completed variants are skipped); the export of a resumed grid rewrites the same
  file;
* candidates of a walk-forward window that is later skipped stay in its CSV;
* a stop exit of the backtest is filled at the stop, even if the candle opened
  below it; the break-even summary leaves out ratchet stops (`backtest.py` 1944);
* the start of the cached daily range is not aligned to a day (`backtest.py`
  1102), so it hits only for replays that start at midnight;
* the branch `if not pending_variants` (`backtest.py` 3634) cannot be reached;
* equal values in `--grid-setting` give two workers one directory;
* nothing is ever written at the `database_path` of a row: the path is unlinked
  (`backtest.py` 2669) and signals are kept in memory (583, 2688). So the `exists()`
  guards of the grid export (3118, 3135) never let `best_variant_trades.csv` or the
  reconciliation of the best variant be made, although JOURNAL.md:333 and STATUS.md:27
  name the former;
* a variant without a trade leaves the `backtest_trades.csv` of an earlier run in
  its directory (`backtest.py` 2015: no rows, no file), next to a fresh curve;
* a plan asked for before its `--end-date` is over can have a smaller universe when
  the date passes while its bars are gathered (`backtest.py` 1089), and a resumed
  grid ranks its row with the others;
* an alert whose answer is lost is sent again; cooldowns are lost on restart; a
  `log_signals` that raises drops the cycle's signals.
