------------------------------ MODULE Research ------------------------------
(***************************************************************************)
(* The research commands of backtest.py: prefetch, a single backtest, a    *)
(* comparison, grid, sweep and walk-forward, which get replay plans        *)
(* through CandleCache and run them, a grid and the training half of a     *)
(* walk-forward window through VariantRun.  Commands follow one another on *)
(* the same cache, checkpoint and exports, and any may be killed.          *)
(***************************************************************************)
EXTENDS CandleCache, VariantRun

CONSTANTS
  Universe, Btc, Btcdom,            \* symbols
  BarMinutes, DayMinutes,
  StateWindow,                      \* STATE_WINDOW, bars
  BtcDailyLookback, BtcdomLookback, \* days, bars
  GridCycles, TrainCycles, TestCycles,
  LookbackMinutes, StepMinutes,     \* --sweep-lookback-days, --sweep-step-days
  PinnedEnd,                        \* --end-date
  BootstrapConcurrency,             \* BOOTSTRAP_CONCURRENCY
  Strict, MinActiveUniverse,        \* BACKTEST_UNIVERSE_POLICY, BACKTEST_MIN_ACTIVE_UNIVERSE
  MaxCommands, MaxFaults            \* bounds: commands given, things that go wrong

ASSUME ResearchAssumption ==
  /\ {BarMinutes, DayMinutes, GridCycles, TrainCycles, TestCycles, LookbackMinutes, StepMinutes,
      BootstrapConcurrency, MinActiveUniverse} \subseteq Nat \ {0}
  /\ {StateWindow, PinnedEnd, MaxCommands, MaxFaults} \subseteq Nat
  /\ PinnedEnd % BarMinutes = 0 /\ StepMinutes % BarMinutes = 0

LatestEnd == IF PinnedEnd > MaxNow THEN PinnedEnd ELSE MaxNow

\* Whatever plan a variant is run on, its result is a number.
ASSUME ScoreAssumption == \A i \in Index : \A t \in 0..LatestEnd : Score[i][t] \in Int

Tracked == Universe \cup {Btc}

ASSUME SeriesAssumption ==
  /\ \A s \in Tracked \cup {Btcdom} : <<s, "bar">> \in Series /\ Width[<<s, "bar">>] = BarMinutes
  /\ \A s \in Tracked : <<s, "minute">> \in Series /\ Width[<<s, "minute">>] = 1
  /\ <<Btc, "day">> \in Series /\ Width[<<Btc, "day">>] = DayMinutes

Mode == {"prefetch", "backtest", "compare", "grid", "sweep", "walk"}
Windowed == {"sweep", "walk"}

VARIABLES
  pinned,    \* is --end-date given?
  mode,      \* the present command
  stage,     \* where it stands
  ends,      \* its window end times
  idx,       \* the window it is at
  part,      \* what the plan is for: the mode, or training or test
  plan,      \* the replay plan, and had its last bar closed when its bars were asked for?
  candidates,  \* the training rows of every window, best first
  chosen,      \* the selected variant and the span it was trained on
  windows,   \* results of completed windows
  skipped,   \* end times of skipped windows
  commands, faults

driverVars == <<pinned, mode, ends, commands>>
resultVars == <<candidates, chosen, windows, skipped>>
vars == <<cacheVars, runVars, driverVars, stage, idx, part, plan, resultVars, faults>>

Terminal == {"idle", "done", "failed", "killed"}
Fetching == {"bars", "daily", "minutes", "again", "btcdom", "prices", "regime"}
NoPlan == [end |-> 0, cycles |-> 0, settled |-> FALSE, active |-> {}, bars |-> <<>>, minutes |-> <<>>]

TypeOK ==
  /\ CacheTypeOK /\ RunTypeOK
  /\ pinned \in BOOLEAN /\ mode \in Mode
  /\ stage \in Terminal \cup Fetching \cup {"next", "variants", "test", "on", "off"}
  /\ part \in (Mode \ {"prefetch", "walk"}) \cup {"train", "test"}
  /\ plan.active \subseteq Universe /\ DOMAIN plan.bars \subseteq Series
  /\ idx \in 1..(Len(ends) + 1)
  /\ Len(windows) + Len(skipped) <= Len(ends)
  /\ commands \in 0..MaxCommands /\ faults \in 0..MaxFaults

Init ==
  /\ CacheInit /\ RunInit
  /\ pinned \in BOOLEAN
  /\ mode = "prefetch" /\ stage = "idle" /\ ends = <<>> /\ idx = 1 /\ part = "grid"
  /\ plan = NoPlan /\ candidates = <<>> /\ chosen = <<>> /\ windows = <<>> /\ skipped = <<>>
  /\ commands = 0 /\ faults = 0

Fault == faults < MaxFaults /\ faults' = faults + 1

-----------------------------------------------------------------------------
(* Windows. *)

AlignDown(t) == (t \div BarMinutes) * BarMinutes

\* Mutant: the command is anchored at the clock, whatever date was given.
EndByClock == AlignDown(now)

ResolveEnd == IF pinned THEN PinnedEnd ELSE AlignDown(now)

\* The step of a walk-forward is its test length.
WindowEndTimes(m) ==
  LET step == IF m = "walk" THEN TestCycles * BarMinutes ELSE StepMinutes
      count == (LookbackMinutes + step - 1) \div step
  IN IF m \notin Windowed THEN <<ResolveEnd>>
     ELSE [k \in 1..count |-> ResolveEnd - (k - 1) * step]

WindowEnd == ends[idx]

\* Mutant: the variants are trained on the window they are tested on.
TrainOnTest == WindowEnd

TrainEnd == WindowEnd - TestCycles * BarMinutes

PlanEnd(p) == IF p = "train" THEN TrainEnd ELSE WindowEnd

PlanCycles(p) == IF p = "train" THEN TrainCycles ELSE IF p = "test" THEN TestCycles ELSE GridCycles

ReplayStart(p) == PlanEnd(p) - PlanCycles(p) * BarMinutes
HistoryStart(p) == ReplayStart(p) - StateWindow * BarMinutes

Bars(symbols, from, to) == {Request(<<s, "bar">>, from, to) : s \in symbols}
Minutes(symbols, from, to) == {Request(<<s, "minute">>, from, to) : s \in symbols}
Daily(from, to) == {Request(<<Btc, "day">>, from, to)}
Dominance(from, to) == Bars({Btcdom}, from, to)

-----------------------------------------------------------------------------
(* A command, its windows, and what an exception does to them. *)

Start(m) ==
  /\ stage \in Terminal /\ commands < MaxCommands
  /\ commands' = commands + 1
  /\ mode' = m /\ stage' = "next" /\ ends' = WindowEndTimes(m) /\ idx' = 1
  /\ plan' = NoPlan /\ candidates' = <<>> /\ chosen' = <<>> /\ windows' = <<>> /\ skipped' = <<>>
  /\ Leave
  /\ UNCHANGED <<cacheVars, file, exports, pinned, part, faults>>

\* A window that raises is skipped; any other command that raises ends.
GiveUp(left) ==
  /\ IF mode \in Windowed
       THEN /\ skipped' = Append(skipped, WindowEnd)
            /\ idx' = idx + 1 /\ stage' = "next"
            /\ waiting' = Orphaned(waiting) /\ calls' = Orphaned(left)
       ELSE stage' = "failed" /\ waiting' = {} /\ calls' = {} /\ UNCHANGED <<skipped, idx>>
  /\ replies' = <<>>
  /\ UNCHANGED <<now, absent, cache, candidates, chosen, windows>>

Finish ==
  /\ stage = "next" /\ idx > Len(ends)
  /\ stage' = "done" /\ waiting' = {} /\ calls' = {} /\ replies' = <<>>
  /\ UNCHANGED <<now, absent, cache, runVars, driverVars, idx, part, plan, resultVars, faults>>

SkipEpoch ==
  /\ stage = "next" /\ idx <= Len(ends) /\ mode = "walk" /\ TrainEnd <= 0
  /\ skipped' = Append(skipped, WindowEnd)
  /\ idx' = idx + 1
  /\ UNCHANGED <<cacheVars, runVars, driverVars, stage, part, plan, candidates, chosen, windows, faults>>

FetchBars(p) ==
  /\ Ask(Bars(Tracked, HistoryStart(p), PlanEnd(p)))
  /\ part' = p /\ stage' = "bars"
  /\ plan' = [NoPlan EXCEPT !.end = PlanEnd(p), !.cycles = PlanCycles(p), !.settled = PlanEnd(p) <= now]

BeginWindow ==
  /\ stage = "next" /\ idx <= Len(ends) /\ mode # "prefetch"
  /\ mode = "walk" => TrainEnd > 0
  /\ FetchBars(IF mode = "walk" THEN "train" ELSE mode)
  /\ UNCHANGED <<runVars, driverVars, idx, resultVars, faults>>

-----------------------------------------------------------------------------
(* Fetching a plan: bars, the active universe, daily candles, minutes,     *)
(* daily candles again, BTCDOM.                                            *)

\* Minutes and prefetches are fetched a few at a time.
Limited == stage \in {"minutes", "prices"}

Begins(r) ==
  /\ Earliest(r)
  /\ r.live /\ Limited => Cardinality(Live(calls)) < BootstrapConcurrency
  /\ StartCall(r)
  /\ UNCHANGED <<runVars, driverVars, stage, idx, part, plan, resultVars, faults>>

\* Without a limit every coroutine has begun before the first is answered.
AllBegun == Limited \/ Live(waiting) = {}

Answer(c) ==
  /\ AllBegun
  /\ Reply(c)
  /\ UNCHANGED <<runVars, driverVars, stage, idx, part, plan, resultVars, faults>>

Raises(c) ==
  /\ IF c.live THEN GiveUp(calls \ {c})
     ELSE calls' = calls \ {c} /\ UNCHANGED <<now, absent, cache, waiting, replies, stage, idx, resultVars>>
  /\ UNCHANGED <<runVars, driverVars, part, plan>>

FindsGap(c) == AllBegun /\ c \in calls /\ ~Contiguous(c) /\ Raises(c) /\ UNCHANGED faults
RequestFails(c) == AllBegun /\ c \in calls /\ Fault /\ Raises(c)

Ready(s) == stage = s /\ Answered

CompleteHistory(s) ==
  replies[<<s, "bar">>] = Starts(HistoryStart(part), PlanEnd(part), BarMinutes)

ActiveUniverse == {s \in Universe : CompleteHistory(s)}

UniverseRefused ==
  (Strict /\ ActiveUniverse # Universe) \/ Cardinality(ActiveUniverse) < MinActiveUniverse

RefuseUniverse ==
  /\ Ready("bars") /\ UniverseRefused
  /\ GiveUp(calls)
  /\ UNCHANGED <<runVars, driverVars, part, plan, faults>>

DailyRange == Daily(ReplayStart(part) - (BtcDailyLookback + 5) * DayMinutes, PlanEnd(part))

TakeBars ==
  /\ Ready("bars") /\ ~UniverseRefused
  /\ plan' = [plan EXCEPT !.active = ActiveUniverse, !.bars = replies]
  /\ Ask(DailyRange)
  /\ stage' = "daily"
  /\ UNCHANGED <<runVars, driverVars, idx, part, resultVars, faults>>

\* build_replay_plan wants BTC aligned with the first symbol of the universe.
Aligned ==
  plan.bars[<<Btc, "bar">>] = Starts(HistoryStart(part), PlanEnd(part), BarMinutes)

RefuseAlignment ==
  /\ Ready("daily") /\ ~Aligned
  /\ GiveUp(calls)
  /\ UNCHANGED <<runVars, driverVars, part, plan, faults>>

BuildReplayPlan ==
  /\ Ready("daily") /\ Aligned
  /\ Ask(Minutes(plan.active \cup {Btc}, ReplayStart(part), PlanEnd(part)))
  /\ stage' = "minutes"
  /\ UNCHANGED <<runVars, driverVars, idx, part, plan, resultVars, faults>>

Bucket(series, bar) == {t \in replies[series] : AlignDown(t) = bar}

\* Mutant: a bucket need not be full.
AnyBuckets(series) ==
  \A bar \in Starts(ReplayStart(part), PlanEnd(part), BarMinutes) : Bucket(series, bar) # {}

FullBuckets(series) ==
  \A bar \in Starts(ReplayStart(part), PlanEnd(part), BarMinutes) :
    Cardinality(Bucket(series, bar)) = BarMinutes

\* Each coroutine checks its own answer, while others may still be waiting.
RefuseMinutes ==
  /\ stage = "minutes" /\ \E series \in DOMAIN replies : ~FullBuckets(series)
  /\ GiveUp(calls)
  /\ UNCHANGED <<runVars, driverVars, part, plan, faults>>

TakeMinutes ==
  /\ Ready("minutes") /\ \A series \in DOMAIN replies : FullBuckets(series)
  /\ plan' = [plan EXCEPT !.minutes = replies]
  /\ Ask(DailyRange)
  /\ stage' = "again"
  /\ UNCHANGED <<runVars, driverVars, idx, part, resultVars, faults>>

TakeDaily ==
  /\ Ready("again")
  /\ Ask(Dominance(ReplayStart(part) - (BtcdomLookback + 2) * BarMinutes, PlanEnd(part)))
  /\ stage' = "btcdom"
  /\ UNCHANGED <<runVars, driverVars, idx, part, plan, resultVars, faults>>

TakeDominance ==
  /\ Ready("btcdom")
  /\ stage' = CASE part \in {"grid", "train"} -> "variants" [] part \in {"test", "backtest"} -> "test"
                   [] OTHER -> "on"
  /\ UNCHANGED <<cacheVars, runVars, driverVars, idx, part, plan, resultVars, faults>>

-----------------------------------------------------------------------------
(* Prefetch fills the cache for the plans to come. *)

Prefetch ==
  /\ stage = "next" /\ idx <= Len(ends) /\ mode = "prefetch"
  /\ LET from == WindowEnd - LookbackMinutes IN
       Ask(Bars(Tracked, from - StateWindow * BarMinutes, WindowEnd) \cup Minutes(Tracked, from, WindowEnd))
  /\ stage' = "prices"
  /\ UNCHANGED <<runVars, driverVars, idx, part, plan, resultVars, faults>>

PrefetchRegime ==
  /\ Ready("prices")
  /\ LET from == WindowEnd - LookbackMinutes IN
       Ask(Daily(from - (BtcDailyLookback + 5) * DayMinutes, WindowEnd)
             \cup Dominance(from - (BtcdomLookback + 2) * BarMinutes, WindowEnd))
  /\ stage' = "regime"
  /\ UNCHANGED <<runVars, driverVars, idx, part, plan, resultVars, faults>>

Prefetched ==
  /\ Ready("regime")
  /\ stage' = "next" /\ idx' = idx + 1
  /\ UNCHANGED <<cacheVars, runVars, driverVars, part, plan, resultVars, faults>>

-----------------------------------------------------------------------------
(* Running the variants on the plan. *)

Basis == [end |-> plan.end, active |-> plan.active, settled |-> plan.settled]

\* A grid has a checkpoint and exports, a training run has neither.
RunVariants ==
  /\ stage = "variants"
  /\ \/ BeginUnreadable(part = "grid")
     \/ BeginSequential(part = "grid", Basis)
     \/ BeginPool(part = "grid", Basis)
  /\ UNCHANGED <<cacheVars, driverVars, stage, idx, part, plan, resultVars, faults>>

RunStep ==
  /\ \/ CollectRow \/ CollectFailure \/ WriteCheckpoint \/ AllCollected \/ Drain \/ OpenSummary
     \/ \E i \in Index : Take(i) \/ ExportTrades(i) \/ Complete(i)
  /\ UNCHANGED <<cacheVars, driverVars, stage, idx, part, plan, resultVars, faults>>

RunFails ==
  /\ Fault
  /\ \E i \in Index : Fail(i)
  /\ UNCHANGED <<cacheVars, driverVars, stage, idx, part, plan, resultVars>>

VariantsRaised ==
  /\ phase = "raised"
  /\ GiveUp(calls)
  /\ Leave
  /\ UNCHANGED <<file, exports, driverVars, part, plan, faults>>

ExportVariantRun ==
  /\ phase = "exporting"
  /\ file' = [rows |-> RankVariants(rows), torn |-> FALSE]
  /\ Leave
  /\ stage' = "next" /\ idx' = idx + 1
  /\ UNCHANGED <<cacheVars, exports, driverVars, part, plan, resultVars, faults>>

Span(p) == <<PlanEnd(p) - PlanCycles(p) * BarMinutes, PlanEnd(p)>>

SelectVariant ==
  /\ phase = "over" /\ part = "train"
  /\ LET ranked == RankVariants(rows) IN
       /\ chosen' = [name |-> ranked[1].name, train |-> Span("train")]
       /\ candidates' = candidates \o [k \in DOMAIN ranked |->
            [window |-> WindowEnd, variant |-> ranked[k].name, rank |-> k, score |-> ranked[k].score]]
  /\ Leave
  /\ FetchBars("test")
  /\ UNCHANGED <<file, exports, driverVars, idx, windows, skipped, faults>>

TestVariant ==
  /\ stage = "test" /\ part = "test"
  /\ windows' = Append(windows, [variant |-> chosen.name, train |-> chosen.train, test |-> Span("test")])
  /\ idx' = idx + 1 /\ stage' = "next"
  /\ UNCHANGED <<cacheVars, runVars, driverVars, part, plan, candidates, chosen, skipped, faults>>

RunBacktest ==
  /\ stage = "test" /\ part = "backtest"
  /\ idx' = idx + 1 /\ stage' = "next"
  /\ UNCHANGED <<cacheVars, runVars, driverVars, part, plan, resultVars, faults>>

\* A sweep or a comparison runs its plan with the filter and without.
RunFilterOn ==
  /\ stage = "on" /\ stage' = "off"
  /\ UNCHANGED <<cacheVars, runVars, driverVars, idx, part, plan, resultVars, faults>>

CompareFilters ==
  /\ stage = "off"
  /\ windows' = Append(windows, [variant |-> "pair", train |-> Span(part), test |-> Span(part)])
  /\ idx' = idx + 1 /\ stage' = "next"
  /\ UNCHANGED <<cacheVars, runVars, driverVars, part, plan, candidates, chosen, skipped, faults>>

BacktestFails ==
  /\ stage \in {"test", "on", "off"} /\ Fault
  /\ GiveUp(calls)
  /\ UNCHANGED <<runVars, driverVars, part, plan>>

Kill ==
  /\ stage \notin Terminal /\ Fault
  /\ Killed
  /\ stage' = "killed" /\ waiting' = {} /\ calls' = {} /\ replies' = <<>>
  /\ UNCHANGED <<now, absent, cache, exports, driverVars, idx, part, plan, resultVars>>

ClockTicks ==
  /\ Tick
  /\ UNCHANGED <<runVars, driverVars, stage, idx, part, plan, resultVars, faults>>

Next ==
  \/ \E m \in Mode : Start(m)
  \/ Finish \/ SkipEpoch \/ BeginWindow
  \/ \E r \in waiting : Begins(r)
  \/ \E c \in calls : Answer(c) \/ FindsGap(c) \/ RequestFails(c)
  \/ RefuseUniverse \/ TakeBars \/ RefuseAlignment \/ BuildReplayPlan
  \/ RefuseMinutes \/ TakeMinutes \/ TakeDaily \/ TakeDominance
  \/ Prefetch \/ PrefetchRegime \/ Prefetched
  \/ RunVariants \/ RunStep \/ RunFails \/ VariantsRaised
  \/ ExportVariantRun \/ SelectVariant \/ TestVariant \/ RunBacktest
  \/ RunFilterOn \/ CompareFilters \/ BacktestFails
  \/ Kill \/ ClockTicks

Spec == Init /\ [][Next]_vars

-----------------------------------------------------------------------------
(* What the research commands owe whoever reads their results. *)

\* A backtest only ever runs on a plan without a hole: every symbol of its
\* universe and BTC has all the bars from the first of the warm-up to the last,
\* and every minute of the bars replayed, whatever the cache held, the venue
\* lacked and the clock did in between (backtest.py:962, 1148, replay.py:48).
PlanWhole ==
  stage \in {"variants", "test", "on", "off"} =>
    \A s \in plan.active \cup {Btc} :
      /\ plan.bars[<<s, "bar">>] = Starts(HistoryStart(part), PlanEnd(part), BarMinutes)
      /\ plan.minutes[<<s, "minute">>] = Starts(ReplayStart(part), PlanEnd(part), 1)

\* A walk-forward tests a variant on nothing it was chosen by, counts no minute
\* as out of sample twice, and accounts for each window once, as completed or
\* as skipped (backtest.py:3870-3937).
WindowsApart ==
  mode = "walk" =>
    /\ \A i \in DOMAIN windows : windows[i].train[2] <= windows[i].test[1]
    /\ \A i, j \in DOMAIN windows : i < j => windows[j].test[2] <= windows[i].test[1]
    /\ Range(SubSeq(ends, 1, idx - 1)) = Range(skipped) \cup {windows[i].test[2] : i \in DOMAIN windows}
    /\ Len(windows) + Len(skipped) = idx - 1

\* In whatever order the workers of a pool finish, the variant a window is tested
\* with is one that no other variant beat in training, and every variant has
\* been a candidate (backtest.py:3163, 3890).
SelectedIsBest ==
  \A i \in DOMAIN windows : mode = "walk" =>
    LET rivals == {c \in Range(candidates) : c.window = windows[i].test[2]}
        mine == {c \in rivals : c.variant = windows[i].variant}
    IN /\ {c.variant : c \in rivals} = Range(Variants)
       /\ \A c \in mine, r \in rivals : c.score >= r.score

\* With --end-date, rows that are ranked together end at that date, and those whose
\* plans were fetched once it was over ran on one universe, however often the grid was
\* interrupted and resumed, and whenever (DECISIONS.md:146; backtest.py:4392, 3536).
\* At midnight the symbols of one gather read the clock on either side of it, and the
\* universe of that plan may be smaller.
PinnedRowsComparable ==
  pinned =>
    \A rs \in {rows, file.rows} : \A r, s \in Range(rs) :
      /\ r.basis.end = s.basis.end
      /\ r.basis.settled /\ s.basis.settled => r.basis.active = s.basis.active

\* The directory a row names holds the export of that row, its trades if it has any
\* and its curve: what a killed run, a failed variant or workers that are drained
\* have left there belongs to no row that is ranked (backtest.py:3288, 3536, 3579).
RowsOwnExports ==
  \A r \in Range(rows) \cup Range(file.rows) :
    r.dir > 0 =>
      /\ Variants[r.dir] = r.name
      /\ exports[r.dir].curve = {r.basis}
      /\ r.traded => exports[r.dir].trades = {r.basis}

\* The temporary file of the plan is there for as long as a worker may still be
\* given a variant, after a failure too (backtest.py:3712).
SnapshotOutlivesWorkers == task.pooled /\ Unfinished # {} => snapshot
=============================================================================
