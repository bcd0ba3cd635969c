-------------------------- MODULE LocalExecution -------------------------
(***************************************************************************)
(* ExecutionEngine.process_cycle with EXECUTION_SUBMIT_ORDERS=false: fills *)
(* are simulated, and the engine itself watches prices, moves stops and    *)
(* closes positions.  main.queue_consumer_loop runs one cycle at a time    *)
(* under process_lock, so the engine is one process; its steps are split   *)
(* at every await that commits to SQLite, because prices move, UTC days    *)
(* roll over, and the cycle can fail or be cancelled at each of them.      *)
(*                                                                         *)
(* Positions are processed in any order: the source walks them by id and   *)
(* the candidates by rank, and no handler below looks at either number.    *)
(* Position marks, portfolio snapshots, post-exit tracking, notifications  *)
(* and runtime events write tables no guard of this module reads.          *)
(***************************************************************************)
EXTENDS PositionBook, EntryGate

CONSTANTS
  Ticker,
  Nobody,             \* no ticker in hand
  Label,              \* cluster labels
  Labelling,          \* the labellings [Ticker -> Label] correlations can give
  Price,              \* the prices a ticker can show, as returns on its entry
  StaleAfter,         \* STALE_POSITION_MAX_MINUTES in ticks, 0 for no deadline
  BarTicks,           \* CANDLE_INTERVAL in ticks
  AnalyticsEnabled,   \* ANALYTICS_ENABLED
  Universe,           \* the universes the service is configured with in turn
  MaxAborts           \* bound: how many cycles may fail

ASSUME LocalExecutionAssumption ==
  /\ IsFiniteSet(Ticker)
  /\ Nobody \notin Ticker
  /\ Labelling # {}
  /\ Labelling \subseteq [Ticker -> Label]
  /\ Price \subseteq Int
  /\ StaleAfter \in Nat
  /\ BarTicks \in Nat
  /\ AnalyticsEnabled \in BOOLEAN
  /\ Universe \subseteq SUBSET Ticker
  /\ MaxAborts \in Nat

VARIABLES
  \* SQLite: what survives a cycle
  rows,           \* [Ticker -> Row], the newest position of each ticker
  entryOrders,    \* filled entry orders that no position names
  age,            \* ticks since a position was opened or last ratcheted
  stops,          \* trade_analytics rows of today with event stop_loss_exit
  universe,       \* settings.universe, read when the process starts
  \* observed by the properties only
  losses,         \* positions closed today by a loss-making stop
  aborts,         \* cycles that failed so far
  \* the locals of the cycle in progress
  pc,             \* where the cycle is
  stage,          \* "emerging" or "confirmed"
  ready,          \* tickers with an entry_ready signal, not yet handled
  todo,           \* open positions still to be reviewed
  cur,            \* the position or candidate in hand
  quote,          \* its price, read once
  reason,         \* exit_reason
  closedTickers,  \* positions closed in this cycle
  booked,         \* open_positions
  counted,        \* cluster_counts
  labels,         \* labels the signals carry and labels the book was counted by
  stopsSeen,      \* daily_stop_loss_count
  sameDay         \* the UTC day has not changed since the cycle began

bookVars == <<rows, age, entryOrders>>
dayVars == <<stops, losses, sameDay>>
exitVars == <<todo, quote, reason, closedTickers>>
entryVars == <<booked, counted, labels, stopsSeen>>
vars == <<rows, age, entryOrders, universe, stops, losses, aborts, pc, stage,
          ready, todo, cur, quote, reason, closedTickers, booked, counted, labels, stopsSeen, sameDay>>

Phases == {"idle", "exits", "decide", "close", "analyse", "entries", "open"}
Reasons == {"none", "take_profit_hit", "stop_hit", "stale_timeout_hit"}

OpenTickers == {t \in Ticker : rows[t].status = "open"}

NoCounts == [l \in Label |-> 0]
SomeLabelling == CHOOSE f \in Labelling : TRUE
NoLabels == [signal |-> SomeLabelling, book |-> SomeLabelling]

\* What a cycle leaves behind in memory when it ends or fails: nothing.
ForgetCycle ==
  /\ pc' = "idle" /\ stage' = "confirmed"
  /\ ready' = {} /\ todo' = {} /\ cur' = Nobody
  /\ quote' = 0 /\ reason' = "none" /\ closedTickers' = {}
  /\ booked' = {} /\ counted' = NoCounts /\ labels' = NoLabels
  /\ stopsSeen' = 0 /\ sameDay' = TRUE

Init ==
  /\ rows = [t \in Ticker |-> NoRow]
  /\ age = [t \in Ticker |-> 0]
  /\ entryOrders = 0 /\ universe \in Universe
  /\ stops = 0 /\ losses = 0 /\ aborts = 0
  /\ pc = "idle" /\ stage = "confirmed"
  /\ ready = {} /\ todo = {} /\ cur = Nobody
  /\ quote = 0 /\ reason = "none" /\ closedTickers = {}
  /\ booked = {} /\ counted = NoCounts /\ labels = NoLabels
  /\ stopsSeen = 0 /\ sameDay = TRUE

--------------------------------------------------------------------------
\* The consumer takes the lock and starts a cycle.  Only an emerging cycle
\* ranks the universe; a confirmed one passes no signals, and its clock reads
\* the start of the bar that closed, which may lie in the previous UTC day.
StartCycle(s, signals) ==
  /\ pc = "idle"
  /\ signals \subseteq universe
  /\ s = "confirmed" => signals = {}
  /\ pc' = "exits"
  /\ stage' = s
  /\ ready' = signals
  /\ todo' = OpenTickers
  /\ IF s = "confirmed" THEN sameDay' \in BOOLEAN ELSE sameDay' = TRUE
  /\ UNCHANGED <<bookVars, universe, stops, losses, aborts, cur, quote, reason,
                 closedTickers, entryVars>>

\* MarketState keeps prices for the configured universe only: a position left
\* open on a ticker that has since been removed makes get_prices raise, and the
\* cycle fails.  (With position marks logged it fails before the first review,
\* without them at this position; here at either.)
ReviewFails(t) ==
  /\ pc = "exits" /\ t \in todo \ universe
  /\ ForgetCycle
  /\ UNCHANGED <<bookVars, stops, losses, aborts, universe>>

\* The price is read once and the break-even stop is armed from it, before
\* take profit, stop and deadline are looked at.
ReadPrice(t, p) ==
  /\ pc = "exits" /\ t \in todo \cap universe
  /\ pc' = "decide"
  /\ todo' = todo \ {t}
  /\ cur' = t
  /\ quote' = p
  /\ rows' = IF ~rows[t].breakEven /\ BreakEvenReached(p)
             THEN [rows EXCEPT ![t] = ArmedRow(@)] ELSE rows
  /\ UNCHANGED <<age, entryOrders, universe, dayVars, aborts, stage, ready, reason, closedTickers,
                 entryVars>>

MayRatchet ==
  /\ quote >= rows[cur].tp
  /\ ProfitRatchetCanAdvance(rows[cur].step, cur \in ready)

\* How far the clock of this cycle lags behind the time.
ClockLag == IF stage = "confirmed" THEN BarTicks ELSE 0

IsStale(t) == StaleAfter > 0 /\ age[t] - ClockLag >= StaleAfter

\* Mutant: no deadline.
ExitReasonByPrice ==
  IF quote >= rows[cur].tp THEN "take_profit_hit"
  ELSE IF quote <= rows[cur].sl THEN "stop_hit"
  ELSE "none"

\* The first rule of the chain that applies, "none" when the position stays.
ExitReason ==
  IF quote >= rows[cur].tp THEN "take_profit_hit"
  ELSE IF quote <= rows[cur].sl THEN "stop_hit"
  ELSE IF IsStale(cur) THEN "stale_timeout_hit"
  ELSE "none"

AdvanceRatchet ==
  /\ pc = "decide" /\ MayRatchet
  /\ rows' = [rows EXCEPT ![cur] = RatchetedRow(@, @.step + 1)]
  /\ age' = [age EXCEPT ![cur] = 0]
  /\ pc' = "exits"
  /\ cur' = Nobody /\ quote' = 0
  /\ UNCHANGED <<entryOrders, dayVars, universe, aborts, stage, ready, todo, reason, closedTickers,
                 entryVars>>

KeepPosition ==
  /\ pc = "decide" /\ ~MayRatchet /\ ExitReason = "none"
  /\ pc' = "exits"
  /\ cur' = Nobody /\ quote' = 0
  /\ UNCHANGED <<bookVars, dayVars, universe, aborts, stage, ready, todo, reason,
                 closedTickers, entryVars>>

\* The simulated client fills at the price hint; the order row is committed.
OrderExit ==
  /\ pc = "decide" /\ ~MayRatchet /\ ExitReason # "none"
  /\ rows' = [rows EXCEPT ![cur] = ExitOrderedRow(@)]
  /\ reason' = ExitReason
  /\ pc' = "close"
  /\ UNCHANGED <<age, entryOrders, universe, dayVars, aborts, stage, ready, todo, cur, quote,
                 closedTickers, entryVars>>

\* positions.status = 'closed'.
ClosePosition ==
  /\ pc = "close"
  /\ rows' = [rows EXCEPT ![cur] = ClosedRow(@, quote)]
  /\ losses' = IF sameDay
                  /\ RowExitEvent(rows[cur], quote, reason) = "stop_loss_exit"
               THEN losses + 1 ELSE losses
  /\ age' = [age EXCEPT ![cur] = 0]
  /\ pc' = "analyse"
  /\ UNCHANGED <<entryOrders, universe, stops, sameDay, aborts, stage, ready, todo, cur, quote,
                 reason, closedTickers, entryVars>>

\* _record_trade_analytics: returns early when analytics are disabled.  The
\* row carries the UTC day the cycle began on.
RecordTrade ==
  /\ pc = "analyse"
  /\ LET event == RowExitEvent(rows[cur], quote, reason)
     IN  IF AnalyticsEnabled
         THEN /\ rows' = [rows EXCEPT ![cur] = AnalysedRow(@, event)]
              /\ stops' = IF sameDay /\ event = "stop_loss_exit"
                          THEN stops + 1 ELSE stops
         ELSE UNCHANGED <<rows, stops>>
  /\ closedTickers' = closedTickers \cup {cur}
  /\ pc' = "exits"
  /\ cur' = Nobody /\ quote' = 0 /\ reason' = "none"
  /\ UNCHANGED <<age, entryOrders, universe, losses, sameDay, aborts, stage, ready, todo, entryVars>>

EndConfirmed ==
  /\ pc = "exits" /\ todo = {} /\ stage = "confirmed"
  /\ ForgetCycle
  /\ UNCHANGED <<bookVars, universe, stops, losses, aborts>>

--------------------------------------------------------------------------
\* Entries.  The signals were labelled when the universe was ranked; the
\* book is counted by labels computed now, and candles may have arrived in
\* between.
BeginEntries(signalLabels, bookLabels) ==
  /\ pc = "exits" /\ todo = {} /\ stage = "emerging"
  /\ pc' = "entries"
  /\ booked' = OpenTickers
  /\ labels' = [signal |-> signalLabels, book |-> bookLabels]
  /\ counted' = [l \in Label |->
                   Cardinality({t \in OpenTickers : bookLabels[t] = l})]
  /\ stopsSeen' = IF MaxDailyStopLosses > 0 THEN stops ELSE 0
  /\ UNCHANGED <<bookVars, dayVars, universe, aborts, stage, ready, exitVars, cur>>

Admitted(t) ==
  Admits(t, booked, counted[labels.signal[t]], closedTickers, stopsSeen)

SkipEntry(t) ==
  /\ pc = "entries" /\ t \in ready /\ ~Admitted(t)
  /\ ready' = ready \ {t}
  /\ UNCHANGED <<bookVars, dayVars, universe, aborts, pc, stage, exitVars, entryVars, cur>>

\* SimulatedExecutionClient, the only client of this mode, always fills, so
\* the rejected and the unfilled branch never run.
OrderEntry(t) ==
  /\ pc = "entries" /\ t \in ready /\ Admitted(t)
  /\ ready' = ready \ {t}
  /\ cur' = t
  /\ entryOrders' = entryOrders + 1
  /\ pc' = "open"
  /\ UNCHANGED <<rows, age, dayVars, universe, aborts, stage, exitVars, entryVars>>

\* The unique index on open rows refuses a second one.
OpenPosition ==
  /\ pc = "open" /\ rows[cur].status # "open"
  /\ rows' = [rows EXCEPT ![cur] = OpenedRow]
  /\ age' = [age EXCEPT ![cur] = 0]
  /\ entryOrders' = entryOrders - 1
  /\ booked' = booked \cup {cur}
  /\ counted' = [counted EXCEPT ![labels.signal[cur]] = @ + 1]
  /\ pc' = "entries"
  /\ cur' = Nobody
  /\ UNCHANGED <<dayVars, universe, aborts, stage, ready, exitVars, labels, stopsSeen>>

EndEntries ==
  /\ pc = "entries" /\ ready = {}
  /\ ForgetCycle
  /\ UNCHANGED <<bookVars, universe, stops, losses, aborts>>

--------------------------------------------------------------------------
\* An await raises (the consumer logs cycle_failure and goes on), or the task
\* is cancelled, or the process dies and starts again: the engine keeps
\* nothing between cycles, so all three leave exactly what SQLite holds.
Abort ==
  /\ pc # "idle" /\ aborts < MaxAborts
  /\ aborts' = aborts + 1
  /\ ForgetCycle
  /\ UNCHANGED <<bookVars, universe, stops, losses>>

\* The service is restarted with fewer tickers in UNIVERSE.  (Bound: no ticker
\* comes back.)
Reconfigure(U) ==
  /\ pc = "idle" /\ U \subseteq universe /\ U # universe
  /\ universe' = U
  /\ UNCHANGED <<bookVars, dayVars, aborts, pc, stage, ready, cur, exitVars,
                 entryVars>>

\* Bound on age: the age at which every cycle sees the deadline passed.
AgeBound == StaleAfter + BarTicks

\* Time.  A cycle reads the clock once, so a tick inside it is not seen.
Tick ==
  /\ pc = "idle" /\ \E t \in OpenTickers : age[t] < AgeBound
  /\ age' = [t \in Ticker |->
               IF t \in OpenTickers /\ age[t] < AgeBound
               THEN age[t] + 1 ELSE age[t]]
  /\ UNCHANGED <<rows, entryOrders, dayVars, universe, aborts, pc, stage, ready, cur, exitVars,
                 entryVars>>

\* Midnight UTC.
NewDay ==
  /\ stops # 0 \/ losses # 0 \/ (pc # "idle" /\ sameDay)
  /\ stops' = 0 /\ losses' = 0
  /\ sameDay' = (pc = "idle")
  /\ UNCHANGED <<bookVars, universe, aborts, pc, stage, ready, cur, exitVars, entryVars>>

ReviewStep ==
  \/ \E t \in Ticker : ReviewFails(t)
  \/ \E t \in Ticker, p \in Price : ReadPrice(t, p)
  \/ AdvanceRatchet
  \/ KeepPosition
  \/ OrderExit
  \/ ClosePosition
  \/ RecordTrade
  \/ EndConfirmed

EntryStep ==
  \/ \E f, g \in Labelling : BeginEntries(f, g)
  \/ \E t \in Ticker : SkipEntry(t)
  \/ \E t \in Ticker : OrderEntry(t)
  \/ OpenPosition
  \/ EndEntries

EngineStep ==
  \/ \E s \in {"emerging", "confirmed"}, R \in SUBSET Ticker : StartCycle(s, R)
  \/ ReviewStep
  \/ EntryStep

Next ==
  \/ EngineStep
  \/ Abort
  \/ \E U \in Universe : Reconfigure(U)
  \/ Tick
  \/ NewDay

Spec == Init /\ [][Next]_vars

StartEmerging == \E R \in SUBSET Ticker : StartCycle("emerging", R)

\* The stream of candle events never dries up and asyncio is fair to the
\* consumer tasks, so a started cycle keeps going; both consumers queue for
\* one asyncio.Lock, first come first served, so confirmed cycles cannot keep
\* emerging ones out.
FairSpec == Spec /\ WF_vars(EngineStep) /\ SF_vars(StartEmerging)

--------------------------------------------------------------------------
TypeOK ==
  /\ rows \in [Ticker -> Row]
  /\ age \in [Ticker -> Nat]
  /\ entryOrders \in Nat /\ universe \in SUBSET Ticker
  /\ stops \in Nat /\ losses \in Nat /\ aborts \in Nat
  /\ pc \in Phases /\ stage \in {"emerging", "confirmed"}
  /\ ready \in SUBSET Ticker /\ todo \in SUBSET Ticker
  /\ cur \in Ticker \cup {Nobody} /\ quote \in Int /\ reason \in Reasons
  /\ closedTickers \in SUBSET Ticker /\ booked \in SUBSET Ticker
  /\ counted \in [Label -> Nat]
  /\ labels \in [signal : Labelling, book : Labelling]
  /\ stopsSeen \in Nat /\ sameDay \in BOOLEAN

\* Every position the book holds stands on a rung of the ladder: its stop and
\* target are exactly those of its step, and its flags say how they got there.
LadderInv == \A t \in Ticker : OnLadder(rows[t])

\* A trade filed as a plain stop loss really lost money on a stop that was never
\* lifted, one filed as a break-even stop had its stop lifted to the entry and no
\* further, and one filed as a ratchet stop was sold at a stop above the entry: the
\* daily breaker and the research ledger count what happened.
EventTellsTheStop == \A t \in Ticker : EventFits(rows[t])

\* An entry never brings its cluster above the cap, whenever the labels the
\* signals were ranked with are still those the book is counted by.
ClusterCapKept ==
  [][\A t \in Ticker :
       ( /\ rows[t].status # "open" /\ rows'[t].status = "open"
         /\ MaxPerCluster > 0 /\ labels.signal = labels.book ) =>
       Cardinality({u \in Ticker : /\ rows'[u].status = "open"
                                   /\ labels.book[u] = labels.book[t]})
         <= MaxPerCluster]_vars

\* The breaker counts trade_analytics rows, not stop losses.  A position is
\* only opened on a day with fewer loss-making stops than the limit, give or
\* take one for each cycle that failed between closing a trade and filing it.
\* Counted are the stops whose exit is stamped with that day: a confirmed cycle
\* can stamp one with the day before (ClosedAfterOpened), which no day promises
\* to count, and without analytics there is no breaker.
BreakerSlack ==
  [][\A t \in Ticker :
       ( /\ rows[t].status # "open" /\ rows'[t].status = "open"
         /\ MaxDailyStopLosses > 0 /\ AnalyticsEnabled ) =>
       losses < MaxDailyStopLosses + aborts]_vars

\* Between cycles, every closed trade has its trade_analytics row, every closed
\* position has its one exit order and every filled entry order its position,
\* but for one such loss or duplicate per cycle that failed.
LedgerComplete ==
  pc = "idle" =>
    /\ AnalyticsEnabled =>
         Cardinality({t \in Ticker : rows[t].status = "closed" /\ rows[t].event = "none"})
           <= aborts
    /\ entryOrders <= aborts
    /\ \A t \in Ticker :
         rows[t].status = "closed" => rows[t].exitOrders \in 1 .. aborts + 1

\* A position past its deadline does not stay: it is closed, or a ratchet step
\* gives it a new deadline.
PastDeadline(t) ==
  t \in OpenTickers /\ StaleAfter > 0 /\ age[t] >= StaleAfter

StaleEventuallyResolved ==
  \A t \in Ticker : PastDeadline(t) ~> ~PastDeadline(t)

\* A trade is not filed as closed before it was opened (or, once ratcheted,
\* before its latest ratchet): the holding time of trade_analytics is a time.
ClosedAfterOpened ==
  [][\A t \in Ticker :
       rows[t].status = "open" /\ rows'[t].status = "closed" =>
         age[t] >= ClockLag]_vars

Life == INSTANCE PositionLifecycle WITH
  Cap <- MaxOpenPositions,
  InitialStop <- InitialStopLoss,
  held <- OpenTickers,
  floor <- [t \in Ticker |->
             IF rows[t].status = "open" THEN rows[t].sl ELSE InitialStopLoss]

\* Local execution keeps what position handling promises: one position per
\* ticker, the cap on open positions, and a stop that is never loosened.
ImplementsLifecycle == Life!LifeSpec
==========================================================================
