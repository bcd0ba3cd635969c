------------------------ MODULE BacktestSimulator ------------------------
(***************************************************************************)
(* The minute replay of backtest.py: run_comprehensive_backtest_plan and   *)
(* the HistoricalBacktestSimulator it drives.  Every minute the trackers   *)
(* of closed trades see its candles, then every open position meets its    *)
(* candle, then the entry_ready signals of the minute are tried in order   *)
(* of rank; the last minute is followed by the closing of what is left.    *)
(* The replay is sequential: what is free is what the candles and the      *)
(* signal engine bring.                                                    *)
(*                                                                         *)
(* Prices are returns on the entry fill of the position, Scale units to    *)
(* that price.  A lot costs Scale units at entry and money is counted in   *)
(* 1/Scale of a unit; a size is rounded down to lots, a fill to a unit.    *)
(***************************************************************************)
EXTENDS TradeManagement, Sequences, FiniteSets, FiniteSetsExt, Functions

CONSTANTS
  Ticker,
  Labelling,            \* the cluster labels a ranking may give, functions on Ticker
  Price,                \* bound: the lows and closes a candle may have
  Minutes,              \* bound: minutes replayed
  DayMinutes,           \* minutes to a UTC day
  Scale,
  StartingEquity,       \* BACKTEST_STARTING_EQUITY_USD
  RiskPct,              \* RISK_PER_TRADE_PCT, in the units of StopLossPct
  MaxExposurePercent,   \* BACKTEST_MAX_GROSS_EXPOSURE_MULTIPLE
  FeeUnits,             \* BACKTEST_FEE_RATE, of Scale
  SlippageUnits,        \* BACKTEST_SLIPPAGE_BPS, of Scale
  MaxOpenPositions, MaxPerCluster, MaxDailyStopLosses,
  StaleMinutes,         \* STALE_POSITION_MAX_MINUTES, 0 for no deadline
  PostExitBars          \* ANALYTICS_POST_EXIT_BARS

ASSUME BacktestAssumption ==
  /\ Price \subseteq Int
  /\ {Minutes, StartingEquity, RiskPct, MaxExposurePercent, FeeUnits, SlippageUnits,
      MaxOpenPositions, MaxPerCluster, MaxDailyStopLosses, StaleMinutes, PostExitBars}
       \subseteq Nat
  /\ {DayMinutes, Scale} \subseteq Nat \ {0}

VARIABLES
  positions,       \* the open positions, by ticker
  trades,
  realizedGross, totalFees,
  stopLossesOf,    \* stop_loss_exits_by_day
  trackers,        \* post_exit_trackers: the trade and the bars it has left
  followed,        \* the trades whose post-exit fields are set
  minute, pc,
  ready, label,    \* entry_ready tickers of this minute, labels of the ranking
  todo,            \* tickers the loop at pc has yet to look at
  closed,          \* closed_tickers of this minute
  mark             \* mark_prices of the open positions

bookVars == <<positions, trades, realizedGross, totalFees, stopLossesOf>>
followVars == <<trackers, followed>>
minuteVars == <<minute, ready, label>>
vars == <<bookVars, followVars, minuteVars, pc, todo, closed, mark>>

ExitReason == ExitEvents \cup {"end_of_backtest"}
Day(m) == m \div DayMinutes
Open == DOMAIN positions

-----------------------------------------------------------------------------
(* Money. *)

\* A sale at a return of price fills lower by the slippage.
ExitFill(price) == ((Scale + price) * (Scale - SlippageUnits)) \div Scale
\* The raw price of an entry, as a return on its fill.
RawEntry == (Scale * Scale) \div (Scale + SlippageUnits) - Scale

LotCost == Scale * Scale
EntryFee(lots) == lots * Scale * FeeUnits
ExitFee(lots, price) == lots * ExitFill(price) * FeeUnits
Gross(lots, price) == lots * Scale * (ExitFill(price) - Scale)

Wallet == StartingEquity + realizedGross - totalFees
Exposure == SumFunction([t \in Open |-> positions[t].lots * Scale * (Scale + mark[t])])

\* Sized by what a stop loss would cost the wallet, within the exposure cap.
Target ==
  Min({(Wallet * RiskPct) \div StopLossPct,
       (Wallet * MaxExposurePercent) \div 100 - Exposure})
Lots == IF Target <= 0 THEN 0 ELSE Target \div LotCost

-----------------------------------------------------------------------------
Init ==
  /\ positions = <<>>
  /\ trades = <<>>
  /\ realizedGross = 0 /\ totalFees = 0
  /\ stopLossesOf = [d \in 0..Day(Minutes) |-> 0]
  /\ trackers = {} /\ followed = {}
  /\ minute = 0 /\ pc = "minute"
  /\ ready = {} /\ label \in Labelling /\ todo = {} /\ closed = {}
  /\ mark = [t \in Ticker |-> 0]

\* Mutant: a tracker is done one bar late.
SpentLate(left) == left < 0
Spent(left) == left <= 0

\* update_post_exit_trackers: every ticker has a candle every minute.
FollowUp ==
  LET seen == {[k EXCEPT !.left = @ - 1] : k \in trackers} IN
  /\ trackers' = {k \in seen : ~Spent(k.left)}
  /\ followed' = followed \cup {k.trade : k \in {j \in seen : Spent(j.left)}}

\* A minute's candles and the signals ranked on their closes.
StartMinute ==
  /\ pc = "minute" /\ minute < Minutes
  /\ minute' = minute + 1
  /\ \E signals \in SUBSET Ticker, labels \in Labelling :
       ready' = signals /\ label' = labels
  /\ FollowUp
  /\ pc' = "exits" /\ todo' = Open
  /\ closed' = {} /\ mark' = [t \in Ticker |-> 0]
  /\ UNCHANGED bookVars

\* Mutant: the fee of a sale is charged to the trade only.
FeesBookedAtEntry(lots, price) == 0
FeesBooked(lots, price) == ExitFee(lots, price)

\* Mutant: the day is that of the minute's start, which the trade list is not dated by.
BreakerDayOfStart(m) == Day(m - 1)
BreakerDay(m) == Day(m)

\* _close_position
Close(t, p, price, reason) ==
  /\ trades' = Append(trades,
       [opened |-> p.opened, closed |-> minute, lifted |-> p.lifted, reason |-> reason,
        price |-> price, lots |-> p.lots,
        net |-> Gross(p.lots, price) - EntryFee(p.lots) - ExitFee(p.lots, price)])
  /\ positions' = [u \in Open \ {t} |-> positions[u]]
  /\ realizedGross' = realizedGross + Gross(p.lots, price)
  /\ totalFees' = totalFees + FeesBooked(p.lots, price)
  /\ trackers' = IF PostExitBars > 0
                 THEN trackers \cup {[trade |-> Len(trades) + 1, left |-> PostExitBars]}
                 ELSE trackers
  /\ stopLossesOf' = IF reason = "stop_loss_exit"
                     THEN [stopLossesOf EXCEPT ![BreakerDay(minute)] = @ + 1]
                     ELSE stopLossesOf
  /\ mark' = [mark EXCEPT ![t] = 0]
  /\ UNCHANGED followed

-----------------------------------------------------------------------------
(* process_intrabar_exits, one position at a time. *)

Reviewed(t) == pc = "exits" /\ t \in todo /\ todo' = todo \ {t}

\* Mutant: a stop on a rung of the ladder is armed again.
ArmedByAgain(p, close) == BreakEvenReached(close)
ArmedBy(p, close) == ~p.armed /\ BreakEvenReached(close)

Armed(p, close) ==
  IF ArmedBy(p, close)
  THEN [p EXCEPT !.armed = TRUE, !.stop = Entry, !.lifted = minute] ELSE p

\* Mutant: the stop is armed by the close before the low is judged by it.
AsFoundArmed(p, close) == Armed(p, close)
\* The low is judged by the stop the candle found.
AsFound(p, close) == p

\* The low reached the stop, which is what the trade is filled at.
StopOut(t, low, close) ==
  LET p == AsFound(positions[t], close) IN
  /\ Reviewed(t)
  /\ low <= p.stop
  /\ Close(t, p, p.stop, InferExitEvent(p.stop, p.target, p.armed, p.stop, "none"))
  /\ closed' = closed \cup {t}
  /\ UNCHANGED <<minuteVars, pc>>

\* The close reached the target and the ratchet may not climb.
TakeProfit(t, low, close) ==
  LET p == positions[t] IN
  /\ Reviewed(t)
  /\ low > p.stop /\ close >= p.target
  /\ ~ProfitRatchetCanAdvance(p.step, t \in ready)
  /\ Close(t, p, IF RatchetEnabled THEN close ELSE p.target, "take_profit_exit")
  /\ closed' = closed \cup {t}
  /\ UNCHANGED <<minuteVars, pc>>

\* Or it may, and the deadline is not looked at.
Climb(t, low, close) ==
  LET p == positions[t] IN
  /\ Reviewed(t)
  /\ low > p.stop /\ close >= p.target
  /\ ProfitRatchetCanAdvance(p.step, t \in ready)
  /\ positions' = [positions EXCEPT ![t] =
       [p EXCEPT !.target = RatchetTakeProfit(p.step + 1),
                 !.stop = RatchetStopLoss(p.step + 1),
                 !.armed = TRUE, !.step = p.step + 1,
                 !.since = minute, !.lifted = minute]]
  /\ mark' = [mark EXCEPT ![t] = close]
  /\ UNCHANGED <<trades, realizedGross, totalFees, stopLossesOf, followVars, minuteVars, pc, closed>>

\* Mutant: the minute of the deadline itself is let through.
TimedOutLate(p) == StaleMinutes > 0 /\ minute - p.since > StaleMinutes
TimedOut(p) == StaleMinutes > 0 /\ minute - p.since >= StaleMinutes

Hold(t, low, close) ==
  LET p == positions[t] IN
  /\ Reviewed(t)
  /\ low > p.stop /\ close < p.target /\ ~TimedOut(p)
  /\ positions' = [positions EXCEPT ![t] = Armed(p, close)]
  /\ mark' = [mark EXCEPT ![t] = close]
  /\ UNCHANGED <<trades, realizedGross, totalFees, stopLossesOf, followVars, minuteVars, pc, closed>>

\* Past its deadline it is sold at the mark; a stop armed by the same close is
\* on the position when it goes and protects nothing.
TimeOut(t, low, close) ==
  LET p == positions[t] IN
  /\ Reviewed(t)
  /\ low > p.stop /\ close < p.target /\ TimedOut(p)
  /\ Close(t, p, close, "stale_timeout_exit")
  /\ closed' = closed \cup {t}
  /\ UNCHANGED <<minuteVars, pc>>

EndExits ==
  /\ pc = "exits" /\ todo = {}
  /\ pc' = "entries" /\ todo' = ready
  /\ UNCHANGED <<bookVars, followVars, minuteVars, closed, mark>>

-----------------------------------------------------------------------------
(* process_entries, one signal at a time. *)

AtLimit(count, limit) == limit > 0 /\ count >= limit

Admitted(t) ==
  /\ t \notin closed
  /\ t \notin Open
  /\ ~AtLimit(Cardinality(Open), MaxOpenPositions)
  /\ ~AtLimit(Cardinality({u \in Open : positions[u].cluster = label[t]}), MaxPerCluster)
  /\ ~AtLimit(stopLossesOf[BreakerDay(minute)], MaxDailyStopLosses)

OpenedPosition(t) ==
  [lots |-> Lots, opened |-> minute, since |-> minute, lifted |-> 0,
   cluster |-> label[t], target |-> InitialTakeProfit, stop |-> InitialStopLoss,
   step |-> 0, armed |-> FALSE]

Enter(t) ==
  /\ pc = "entries" /\ t \in todo /\ todo' = todo \ {t}
  /\ Admitted(t) /\ Lots > 0
  /\ positions' = [u \in Open \cup {t} |-> IF u = t THEN OpenedPosition(t) ELSE positions[u]]
  /\ totalFees' = totalFees + EntryFee(Lots)
  /\ mark' = [mark EXCEPT ![t] = RawEntry]
  /\ UNCHANGED <<trades, realizedGross, stopLossesOf, followVars, minuteVars, pc, closed>>

Skip(t) ==
  /\ pc = "entries" /\ t \in todo /\ todo' = todo \ {t}
  /\ ~(Admitted(t) /\ Lots > 0)
  /\ UNCHANGED <<bookVars, followVars, minuteVars, pc, closed, mark>>

\* The last minute of a bar is followed by the append of its close and a snapshot,
\* which leave the book alone.
EndMinute ==
  /\ pc = "entries" /\ todo = {}
  /\ IF minute < Minutes THEN pc' = "minute" /\ todo' = {}
                         ELSE pc' = "force" /\ todo' = Open
  /\ closed' = {} /\ ready' = {}
  /\ UNCHANGED <<bookVars, followVars, minute, label, mark>>

-----------------------------------------------------------------------------
(* force_close_all after the last bar. *)

ForceClose(t) ==
  /\ pc = "force" /\ t \in todo /\ todo' = todo \ {t}
  /\ Close(t, positions[t], mark[t], "end_of_backtest")
  /\ UNCHANGED <<minuteVars, pc, closed>>

EnoughSeen(k) == PostExitBars - k.left > 1

\* finalize_post_exit_trackers
Finish ==
  /\ pc = "force" /\ todo = {}
  /\ followed' = followed \cup {k.trade : k \in {j \in trackers : EnoughSeen(j)}}
  /\ trackers' = {}
  /\ pc' = "done"
  /\ UNCHANGED <<bookVars, minuteVars, todo, closed, mark>>

\* What the summary reports of the trades.
SummaryReasons ==
  {"take_profit_exit", "stop_loss_exit", "break_even_stop_exit", "profit_ratchet_stop_exit",
   "stale_timeout_exit", "end_of_backtest"}
DayNet(d) ==
  SumFunctionOnSet([i \in DOMAIN trades |-> trades[i].net],
                   {i \in DOMAIN trades : Day(trades[i].closed) = d})

Done == pc = "done" /\ UNCHANGED vars

Next ==
  \/ StartMinute \/ EndExits \/ EndMinute \/ Finish \/ Done
  \/ \E t \in Ticker : Enter(t) \/ Skip(t) \/ ForceClose(t)
  \/ \E t \in Ticker, low, close \in Price :
       /\ low <= close
       /\ StopOut(t, low, close) \/ TakeProfit(t, low, close) \/ Climb(t, low, close)
            \/ Hold(t, low, close) \/ TimeOut(t, low, close)

Spec == Init /\ [][Next]_vars

-----------------------------------------------------------------------------
Cluster == {f[t] : f \in Labelling, t \in Ticker}
Position ==
  [lots : Nat \ {0}, opened : 1..Minutes, since : 1..Minutes, lifted : 0..Minutes,
   cluster : Cluster,
   target : Nat, stop : Int, step : Nat, armed : BOOLEAN]
Trade ==
  [opened : 1..Minutes, closed : 1..Minutes, lifted : 0..Minutes, reason : ExitReason,
   price : Int, lots : Nat \ {0}, net : Int]

TypeOK ==
  /\ Open \subseteq Ticker /\ \A t \in Open : positions[t] \in Position
  /\ trades \in Seq(Trade)
  /\ realizedGross \in Int /\ totalFees \in Nat
  /\ stopLossesOf \in [0..Day(Minutes) -> Nat]
  /\ trackers \subseteq [trade : DOMAIN trades, left : 1..PostExitBars]
  /\ followed \subseteq DOMAIN trades
  /\ minute \in 0..Minutes /\ pc \in {"minute", "exits", "entries", "force", "done"}
  /\ ready \subseteq Ticker /\ label \in Labelling
  /\ todo \subseteq Ticker /\ closed \subseteq Ticker
  /\ mark \in [Ticker -> Int]

\* The wallet that sizes new entries, kept as two running totals, is the starting
\* equity with the net result of every trade and without the entry fees of what is
\* still open; at the end nothing is open and the days of the summary add up to it.
LedgerBalances ==
  /\ Wallet + SumFunction([t \in Open |-> EntryFee(positions[t].lots)]) =
       StartingEquity + SumFunction([i \in DOMAIN trades |-> trades[i].net])
  /\ pc = "done" =>
       /\ Open = {}
       /\ Wallet = StartingEquity + SumFunction([d \in 0..Day(Minutes) |-> DayNet(d)])

\* No trade loses more than the stop it was sized by, and the reason it is filed
\* under tells what it was sold at and when: only these reasons are counted in the
\* summary, and the breaker counts one of them.
ReasonTellsPrice ==
  \A i \in DOMAIN trades :
    LET x == trades[i] IN
    /\ x.price >= -StopLossPct
    /\ x.reason = "stop_loss_exit" <=> x.price = -StopLossPct
    /\ x.reason = "break_even_stop_exit" => x.price = Entry
    /\ x.reason = "profit_ratchet_stop_exit" => x.price > Entry
    /\ x.reason = "take_profit_exit" => x.price >= TakeProfitPct
    /\ x.reason = "stale_timeout_exit" => x.closed - x.opened >= StaleMinutes
    /\ x.reason \in SummaryReasons

\* Candles judge a position only from the minute after its entry, and a lifted stop
\* only from the minute after it was lifted: no trade is saved or lost by what the
\* candle did before (DECISIONS.md:89, STATUS.md:170).
LaterCandlesOnly ==
  \A i \in DOMAIN trades :
    LET x == trades[i] IN
    x.reason # "end_of_backtest" =>
      /\ x.closed > x.opened
      /\ x.reason \in {"break_even_stop_exit", "profit_ratchet_stop_exit"} => x.closed > x.lifted

\* Once the exits of a minute are through, no position has gone StaleMinutes without
\* an entry or a rung, whatever else the candle made of it.
NeverStale ==
  pc = "entries" /\ StaleMinutes > 0 =>
    \A t \in Open : minute - positions[t].since < StaleMinutes

\* Every trade is followed for the PostExitBars candles after its exit and not one
\* more; a replay that ends sooner keeps what at least two of them showed.
FollowedToTheBar ==
  \A i \in DOMAIN trades :
    LET age == minute - trades[i].closed IN
    IF pc = "done"
    THEN i \in followed <=> PostExitBars > 0 /\ age >= Min({PostExitBars, 2})
    ELSE /\ i \in followed <=> PostExitBars > 0 /\ age >= PostExitBars
         /\ {k.left : k \in {j \in trackers : j.trade = i}} =
              {left \in 1..PostExitBars : left = PostExitBars - age}

\* Every entry keeps the limits of the moment, as the trade list shows them and not
\* the counters: the day's stop losses, the exposure against the wallet, the
\* cluster, and no ticker that was sold this minute.
EntriesWithinLimits ==
  [][\A t \in Open' \ Open :
       /\ MaxDailyStopLosses > 0 =>
            Cardinality({i \in DOMAIN trades : /\ trades[i].reason = "stop_loss_exit"
                                               /\ Day(trades[i].closed) = Day(minute)})
              < MaxDailyStopLosses
       /\ Exposure' * 100 <= Wallet * MaxExposurePercent
       /\ MaxPerCluster > 0 =>
            Cardinality({u \in Open' : positions'[u].cluster = label[t]}) <= MaxPerCluster
       /\ t \notin closed]_vars

Life == INSTANCE PositionLifecycle WITH
  held <- Open,
  floor <- [t \in Ticker |-> IF t \in Open THEN positions[t].stop ELSE InitialStopLoss],
  Cap <- MaxOpenPositions, InitialStop <- InitialStopLoss

\* The backtest manages positions as live and local execution do: it implements the
\* same abstract life of positions (DECISIONS.md:177).
ImplementsLifecycle == Life!LifeSpec
==========================================================================
