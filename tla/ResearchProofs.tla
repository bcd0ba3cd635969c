--------------------------- MODULE ResearchProofs ---------------------------
(***************************************************************************)
(* What holds of the research commands for every universe, every request,  *)
(* every pool size, and any number of commands, faults and kills.          *)
(***************************************************************************)
EXTENDS Research, VariantRunProofs

-----------------------------------------------------------------------------
\* The cache.

IsCall(c) ==
  DOMAIN c = {"series", "from", "to", "noted", "live"} /\ c.noted \in Int /\ c.noted <= now

IsRequest(r) == DOMAIN r = {"series", "from", "to", "live"}

\* No call that is still out was noted by a later clock than the present one.
CacheInv ==
  /\ now \in 0..MaxNow
  /\ DOMAIN cache = Series
  /\ CacheHoldsClosedCandles
  /\ \A r \in waiting : IsRequest(r)
  /\ \A c \in calls : IsCall(c)

\* Fewer requests and calls, orphaned or not, leave the cache as it is.
LEMMA CallsDropped ==
  ASSUME CacheInv, UNCHANGED <<now, cache>>, waiting' \in {{}, waiting, Orphaned(waiting)},
         NEW left \in SUBSET calls, calls' \in {{}, left, Orphaned(left)}
  PROVE  CacheInv'
<1>1. /\ \A c \in left : IsCall([c EXCEPT !.live = FALSE])
      /\ \A q \in waiting : IsRequest([q EXCEPT !.live = FALSE])
  BY DEF CacheInv, IsCall, IsRequest
<1>2. (\A c \in calls' : IsCall(c)) /\ (\A q \in waiting' : IsRequest(q))
  BY <1>1 DEF Orphaned, CacheInv
<1> QED BY <1>2 DEF CacheInv, CacheHoldsClosedCandles, IsCall

\* Every gather is of requests.
Requests(requests) == \A r \in requests : IsRequest(r) /\ r.live

LEMMA AreRequests ==
  ASSUME NEW symbols, NEW from, NEW to
  PROVE  /\ Requests(Bars(symbols, from, to)) /\ Requests(Minutes(symbols, from, to))
         /\ Requests(Daily(from, to)) /\ Requests(Dominance(from, to))
BY DEF Requests, IsRequest, Request, Bars, Minutes, Daily, Dominance

LEMMA AskKeeps ==
  ASSUME CacheInv, NEW requests, Requests(requests), Ask(requests)
  PROVE  CacheInv'
BY DEF Ask, Requests, CacheInv, CacheHoldsClosedCandles, IsCall

\* The steps that ask, and for what.
Asks == \E requests : Requests(requests) /\ Ask(requests)

LEMMA AskingSteps ==
  ASSUME BeginWindow \/ TakeBars \/ BuildReplayPlan \/ TakeMinutes \/ TakeDaily
           \/ Prefetch \/ PrefetchRegime \/ SelectVariant
  PROVE  Asks
<1> USE AreRequests DEF Asks
<1>1. CASE BeginWindow \/ SelectVariant
  BY <1>1 DEF BeginWindow, FetchBars, SelectVariant
<1>2. CASE TakeBars \/ TakeMinutes
  BY <1>2 DEF TakeBars, TakeMinutes, DailyRange
<1>3. CASE BuildReplayPlan \/ TakeDaily
  BY <1>3 DEF BuildReplayPlan, TakeDaily
<1>4. \A q, r : Requests(q) /\ Requests(r) => Requests(q \cup r)
  BY DEF Requests
<1>5. CASE Prefetch \/ PrefetchRegime
  BY <1>4, <1>5 DEF Prefetch, PrefetchRegime
<1> QED BY <1>1, <1>2, <1>3, <1>5

\* A coroutine that begins takes the clock of its beginning.
LEMMA CallStarts ==
  ASSUME CacheInv, NEW r, StartCall(r)
  PROVE  CacheInv'
<1>1. IsCall(Call(r)) /\ UNCHANGED <<now, cache>> /\ waiting' \subseteq waiting
  BY DEF StartCall, CacheInv, IsCall, Call
<1>2. calls' \subseteq calls \cup {Call(r)}
  BY DEF StartCall
<1> QED BY <1>1, <1>2 DEF CacheInv, CacheHoldsClosedCandles, IsCall

\* A candle is stored only if it had closed by the clock of its call.
LEMMA ReplyKeeps ==
  ASSUME CacheInv, NEW c, Reply(c)
  PROVE  CacheInv'
<1> DEFINE s == c.series
           fresh == [t \in Returned(c) |-> t + Width[s] <= now]
<1>1. /\ c \in calls /\ now' = now /\ calls' = calls \ {c} /\ waiting' = waiting
      /\ cache' = [cache EXCEPT ![s] = Replaced(cache[s], fresh)]
  BY DEF Reply
<1>2. ASSUME NEW u \in Series PROVE \A t \in DOMAIN cache'[u] : cache'[u][t]
  <2>1. CASE u # s
    BY <1>1, <2>1 DEF CacheInv, CacheHoldsClosedCandles
  <2>2. CASE u = s
    <3>1. \A t \in Returned(c) : t + Width[s] <= now
      <4> SUFFICES ASSUME NEW t \in Returned(c) PROVE t + Width[s] <= now
        OBVIOUS
      <4>1. t \in Int /\ t + Width[s] <= c.noted
        BY <1>1 DEF Returned, VenueStarts, CacheInv
      <4>2. Width[s] \in Int
        BY <2>2, CacheAssumption
      <4> QED BY <1>1, <4>1, <4>2 DEF CacheInv, IsCall
    <3>2. cache'[u] = Replaced(cache[u], fresh)
      BY <1>1, <2>2 DEF CacheInv
    <3> QED BY <2>2, <3>1, <3>2 DEF Replaced, CacheInv, CacheHoldsClosedCandles
  <2> QED BY <2>1, <2>2
<1>3. DOMAIN cache' = Series /\ \A d \in calls' : IsCall(d)
  BY <1>1 DEF CacheInv
<1> QED BY <1>1, <1>2, <1>3 DEF CacheInv, CacheHoldsClosedCandles, IsCall

LEMMA CacheStart == Init => CacheInv
BY CacheAssumption DEF Init, CacheInit, CacheInv, CacheHoldsClosedCandles

LEMMA CacheStep == CacheInv /\ [Next]_vars => CacheInv'
<1> SUFFICES ASSUME CacheInv, [Next]_vars PROVE CacheInv'
  OBVIOUS
<1>1. CASE UNCHANGED cacheVars
  BY <1>1 DEF cacheVars, CacheInv, CacheHoldsClosedCandles, IsCall
<1>2. CASE Asks
  BY <1>2, AskKeeps DEF Asks
<1>3. ASSUME NEW left \in SUBSET calls, GiveUp(left)
      PROVE  CacheInv'
  BY <1>3, CallsDropped DEF GiveUp
<1>4. ASSUME NEW c \in calls, Raises(c)
      PROVE  CacheInv'
  <2>1. calls \ {c} \in SUBSET calls
    OBVIOUS
  <2>2. CASE c.live
    BY <1>3, <1>4, <2>1, <2>2 DEF Raises
  <2>3. CASE ~c.live
    BY <1>4, <2>1, <2>3, CallsDropped DEF Raises
  <2> QED BY <2>2, <2>3
<1>5. ASSUME NEW c \in calls, Answer(c) \/ FindsGap(c) \/ RequestFails(c)
      PROVE  CacheInv'
  BY <1>4, <1>5, ReplyKeeps DEF Answer, FindsGap, RequestFails
<1>6. CASE Finish \/ Kill
  <2>1. UNCHANGED <<now, cache>> /\ calls' = {} /\ {} \in SUBSET calls /\ waiting' = {}
    BY <1>6 DEF Finish, Kill
  <2> QED BY <2>1, CallsDropped
<1>7. CASE RefuseUniverse \/ RefuseAlignment \/ RefuseMinutes \/ VariantsRaised \/ BacktestFails
  BY <1>3, <1>7 DEF RefuseUniverse, RefuseAlignment, RefuseMinutes, VariantsRaised, BacktestFails
<1>8. CASE BeginWindow \/ TakeBars \/ BuildReplayPlan \/ TakeMinutes \/ TakeDaily
           \/ Prefetch \/ PrefetchRegime \/ SelectVariant
  BY <1>2, <1>8, AskingSteps
<1>9. CASE ClockTicks
  <2>1. now < MaxNow /\ now' = now + 1 /\ UNCHANGED <<cache, waiting, calls>>
    BY <1>9 DEF ClockTicks, Tick
  <2>2. now' \in 0..MaxNow
    BY <2>1, CacheAssumption DEF CacheInv
  <2> QED BY <2>1, <2>2 DEF CacheInv, CacheHoldsClosedCandles, IsCall
<1>10. CASE (\E m \in Mode : Start(m)) \/ SkipEpoch \/ TakeDominance \/ Prefetched \/ RunVariants
            \/ RunStep \/ RunFails \/ ExportVariantRun \/ TestVariant \/ RunBacktest
            \/ RunFilterOn \/ CompareFilters \/ UNCHANGED vars
  BY <1>1, <1>10 DEF Start, SkipEpoch, TakeDominance, Prefetched, RunVariants, RunStep, RunFails,
     ExportVariantRun, TestVariant, RunBacktest, RunFilterOn, CompareFilters, vars
<1>11. ASSUME NEW r \in waiting, Begins(r)
       PROVE  CacheInv'
  BY <1>11, CallStarts DEF Begins
<1> QED BY <1>5, <1>6, <1>7, <1>8, <1>9, <1>10, <1>11 DEF Next

\* No cached candle was still forming when it was stored, whatever the venue lacks,
\* and however many commands share the cache, are killed, or leave orphaned calls.
THEOREM CacheHolds == Spec => []CacheHoldsClosedCandles
<1>1. CacheInv => CacheHoldsClosedCandles
  BY DEF CacheInv
<1> QED BY <1>1, CacheStart, CacheStep, PTL DEF Spec

-----------------------------------------------------------------------------
\* The temporary file of the plan.

PoolInv ==
  /\ DOMAIN job = Index
  /\ SnapshotOutlivesWorkers

LEMMA PoolStart == Init => PoolInv
BY DEF Init, RunInit, Idle, PoolInv, SnapshotOutlivesWorkers

\* A job that changes hands was not finished before.
LEMMA JobKeeps ==
  ASSUME PoolInv, NEW i \in Unfinished, NEW s \in {"running", "exporting", "done", "failed"},
         job' = [job EXCEPT ![i] = s], UNCHANGED <<task, snapshot>>
  PROVE  PoolInv'
<1>1. Unfinished # {}
  OBVIOUS
<1>2. DOMAIN job' = Index
  BY DEF PoolInv
<1> QED BY <1>1, <1>2 DEF PoolInv, SnapshotOutlivesWorkers

LEMMA LeaveKeeps ==
  ASSUME PoolInv, Leave
  PROVE  PoolInv'
BY DEF PoolInv, Leave, Idle, SnapshotOutlivesWorkers

LEMMA BeginKeeps ==
  ASSUME PoolInv, NEW keep, NEW basis, NEW next, NEW pooled, NEW workers,
         Begin(keep, basis, next, pooled, workers)
  PROVE  PoolInv'
BY DEF PoolInv, Begin, SnapshotOutlivesWorkers

LEMMA PoolStep == PoolInv /\ [Next]_vars => PoolInv'
<1> SUFFICES ASSUME PoolInv, [Next]_vars PROVE PoolInv'
  OBVIOUS
<1> USE DEF PoolInv, SnapshotOutlivesWorkers, Unfinished, Working, With
<1>1. CASE UNCHANGED <<task, job, snapshot>>
  BY <1>1
<1>2. CASE Leave
  BY <1>2, LeaveKeeps
<1>3. CASE RunVariants
  <2>1. CASE \E keep \in BOOLEAN : BeginUnreadable(keep)
    BY <1>1, <2>1 DEF BeginUnreadable
  <2>2. CASE ~\E keep \in BOOLEAN : BeginUnreadable(keep)
    <3>1. \E keep, basis, next, pooled, workers : Begin(keep, basis, next, pooled, workers)
      BY <1>3, <2>2 DEF RunVariants, BeginSequential, BeginPool
    <3> QED BY <3>1, BeginKeeps
  <2> QED BY <2>1, <2>2
<1>4. ASSUME NEW i \in Index, Take(i) \/ ExportTrades(i) \/ Complete(i) \/ Fail(i)
      PROVE  PoolInv'
  BY <1>4, JobKeeps DEF Take, ExportTrades, Complete, Fail
<1>5. CASE CollectRow \/ CollectFailure \/ WriteCheckpoint \/ OpenSummary
  BY <1>1, <1>5 DEF CollectRow, CollectFailure, WriteCheckpoint, OpenSummary
<1>6. CASE AllCollected \/ Drain
  BY <1>6 DEF AllCollected, Drain
<1>7. CASE RunStep \/ RunFails
  BY <1>4, <1>5, <1>6, <1>7 DEF RunStep, RunFails
<1>8. CASE (\E m \in Mode : Start(m)) \/ VariantsRaised \/ ExportVariantRun \/ SelectVariant \/ Kill
  BY <1>2, <1>8 DEF Start, VariantsRaised, ExportVariantRun, SelectVariant, Kill, Killed
<1>9. CASE UNCHANGED runVars
  BY <1>1, <1>9 DEF runVars
<1>10. ASSUME NEW c \in calls, Answer(c) \/ FindsGap(c) \/ RequestFails(c)
       PROVE  PoolInv'
  BY <1>9, <1>10 DEF Answer, FindsGap, RequestFails, Raises
<1>13. CASE \E r \in waiting : Begins(r)
  BY <1>9, <1>13 DEF Begins
<1>11. CASE Finish \/ SkipEpoch \/ BeginWindow \/ RefuseUniverse \/ TakeBars \/ RefuseAlignment
            \/ BuildReplayPlan \/ RefuseMinutes \/ TakeMinutes \/ TakeDaily \/ TakeDominance
  BY <1>9, <1>11 DEF Finish, SkipEpoch, BeginWindow, RefuseUniverse, TakeBars, RefuseAlignment,
     BuildReplayPlan, RefuseMinutes, TakeMinutes, TakeDaily, TakeDominance
<1>12. CASE Prefetch \/ PrefetchRegime \/ Prefetched \/ TestVariant \/ RunBacktest \/ RunFilterOn
            \/ CompareFilters \/ BacktestFails \/ ClockTicks \/ UNCHANGED vars
  BY <1>9, <1>12 DEF Prefetch, PrefetchRegime, Prefetched, TestVariant, RunBacktest, RunFilterOn,
     CompareFilters, BacktestFails, ClockTicks, vars
<1> QED BY <1>3, <1>7, <1>8, <1>10, <1>11, <1>12, <1>13 DEF Next

\* As long as a worker of a pool may still be given a variant, the file it reads the
\* plan from is there, whichever variants fail and whatever the number of workers.
THEOREM SnapshotHolds == Spec => []SnapshotOutlivesWorkers
<1>1. PoolInv => SnapshotOutlivesWorkers
  BY DEF PoolInv
<1> QED BY <1>1, PoolStart, PoolStep, PTL DEF Spec

-----------------------------------------------------------------------------
\* Where a command stands.

Busy == Fetching \cup {"variants", "test", "on", "off"}

\* What the plan in hand is for.
PartFits ==
  /\ stage \in Busy \ {"prices", "regime"} =>
       /\ mode # "prefetch"
       /\ IF mode = "walk" THEN part \in {"train", "test"} ELSE part = mode
  /\ stage = "variants" => part \in {"grid", "train"}
  /\ stage = "test" => part \in {"backtest", "test"}
  /\ stage \in {"on", "off"} => part \in {"sweep", "compare"}
  /\ stage \in {"prices", "regime"} => mode = "prefetch"

\* Nobody waits for a call but where a plan is fetched, and variants run only at
\* their stage.
StageInv ==
  /\ stage \in Terminal \cup Busy \cup {"next"} /\ mode \in Mode
  /\ ends \in Seq(Int) /\ idx \in 1..(Len(ends) + 1)
  /\ stage \in Busy => idx <= Len(ends)
  /\ PartFits
  /\ stage \notin Fetching => Answered
  /\ phase # "idle" => stage = "variants"
  /\ phase = "idle" => task = Idle /\ job = [i \in Index |-> "kept"]
  /\ phase \in {"rewriting", "exporting"} => task.keep
  /\ task.keep => part = "grid"

LEMMA ParameterTypes ==
  /\ BarMinutes \in Nat \ {0} /\ DayMinutes \in Nat \ {0} /\ LookbackMinutes \in Nat \ {0}
  /\ GridCycles \in Nat \ {0} /\ TrainCycles \in Nat \ {0} /\ TestCycles \in Nat \ {0}
  /\ StepMinutes \in Nat \ {0} /\ StateWindow \in Nat /\ PinnedEnd \in Nat
  /\ TestCycles * BarMinutes \in Nat \ {0}
<1>1. \A x, y \in Nat \ {0} : x * y \in Nat \ {0}
  OBVIOUS
<1> QED BY <1>1, ResearchAssumption

LEMMA AlignedDown ==
  ASSUME NEW t \in Int
  PROVE  /\ AlignDown(t) \in Int /\ AlignDown(t) % BarMinutes = 0
         /\ AlignDown(t) <= t /\ t < AlignDown(t) + BarMinutes
         /\ t \in Nat => AlignDown(t) \in Nat
<1> DEFINE q == t \div BarMinutes
<1>1. q \in Int /\ q * BarMinutes <= t /\ t < (q + 1) * BarMinutes
  BY ParameterTypes
<1>2. t \in Nat => q \in Nat
  BY ParameterTypes
<1> HIDE DEF q
<1>3. q * BarMinutes \in Int /\ (q + 1) * BarMinutes = q * BarMinutes + BarMinutes
  BY <1>1, ParameterTypes
<1>4. (q * BarMinutes) % BarMinutes = 0
  BY <1>1, ParameterTypes
<1>5. q \in Nat => q * BarMinutes \in Nat
  BY <1>1, ParameterTypes
<1>6. AlignDown(t) = q * BarMinutes
  BY DEF AlignDown, q
<1> QED BY <1>1, <1>2, <1>3, <1>4, <1>5, <1>6, ParameterTypes

LEMMA EndTypes ==
  ASSUME NEW m \in Mode, now \in Nat
  PROVE  /\ ResolveEnd \in Int
         /\ WindowEndTimes(m) \in Seq(Int)
<1>1. ResolveEnd \in Int
  BY AlignedDown, ParameterTypes DEF ResolveEnd
<1>2. CASE m \notin Windowed
  BY <1>1, <1>2 DEF WindowEndTimes
<1>3. CASE m \in Windowed
  <2> DEFINE step == IF m = "walk" THEN TestCycles * BarMinutes ELSE StepMinutes
             count == (LookbackMinutes + step - 1) \div step
  <2>1. step \in Nat \ {0}
    BY ParameterTypes
  <2> HIDE DEF step
  <2>4. LookbackMinutes + step - 1 \in Nat
    BY <2>1, ParameterTypes
  <2>5. count \in Nat
    BY <2>1, <2>4
  <2>2. WindowEndTimes(m) = [k \in 1..count |-> ResolveEnd - (k - 1) * step]
    BY <1>3 DEF WindowEndTimes, step
  <2> HIDE DEF count
  <2>3. \A k \in 1..count : ResolveEnd - (k - 1) * step \in Int
    BY <1>1, <2>1
  <2>6. \A n \in Nat : \A f : f \in [1..n -> Int] => f \in Seq(Int)
    OBVIOUS
  <2>7. WindowEndTimes(m) \in [1..count -> Int]
    BY <2>2, <2>3
  <2> QED BY <1>1, <2>5, <2>6, <2>7
<1> QED BY <1>1, <1>2, <1>3

LEMMA StageStart == Init => StageInv
<1> SUFFICES ASSUME Init PROVE StageInv
  OBVIOUS
<1>1. ends \in Seq(Int) /\ Len(ends) = 0
  BY DEF Init
<1>2. Answered
  BY DEF Init, CacheInit, Answered, Live
<1> QED BY <1>1, <1>2 DEF Init, RunInit, Idle, StageInv, PartFits, Terminal, Busy, Fetching, Mode

\* A step that leaves the command where it is and takes no plan.
Quiet == UNCHANGED <<driverVars, stage, idx, part, plan, resultVars>>

\* A step within a window, from one of its stages to the next.
Onward == stage \in Busy /\ stage' \in Busy /\ UNCHANGED <<runVars, driverVars, idx, part, resultVars>>

\* An exception that reaches the command.
Abandon ==
  /\ stage \in Busy
  /\ \E left \in SUBSET calls : GiveUp(left)
  /\ UNCHANGED <<driverVars, part, plan>>
  /\ (phase = "idle" /\ UNCHANGED runVars) \/ (Leave /\ UNCHANGED <<file, exports>>)

LEMMA AbandonKeeps == StageInv /\ CacheInv /\ Abandon => StageInv'
<1> SUFFICES ASSUME StageInv, CacheInv, Abandon PROVE StageInv'
  OBVIOUS
<1> USE DEF StageInv, Abandon
<1>1. PICK left \in SUBSET calls : GiveUp(left)
  OBVIOUS
<1>2. Answered'
  BY <1>1 DEF GiveUp, Orphaned, Answered, Live, CacheInv, IsCall, IsRequest
<1>3. stage' \in {"failed", "next"} /\ idx' \in 1..(Len(ends) + 1)
  BY <1>1 DEF GiveUp
<1>4. phase' = "idle" /\ task' = Idle /\ job' = [i \in Index |-> "kept"]
  BY DEF Leave, runVars
<1> QED BY <1>2, <1>3, <1>4 DEF Idle, PartFits, driverVars, Terminal, Busy, Fetching

LEMMA BeginsQuietly ==
  ASSUME NEW r, Begins(r)
  PROVE  Quiet /\ UNCHANGED runVars
BY DEF Begins, Quiet

LEMMA RaisesAbandons ==
  ASSUME StageInv, NEW c \in calls, Raises(c)
  PROVE  (c.live /\ Abandon) \/ (~c.live /\ Quiet /\ calls' = calls \ {c} /\ UNCHANGED <<waiting, runVars>>)
<1>1. CASE c.live
  <2>1. stage \in Fetching /\ phase = "idle"
    BY <1>1 DEF StageInv, Answered, Live, Fetching
  <2>2. calls \ {c} \in SUBSET calls
    OBVIOUS
  <2>3. GiveUp(calls \ {c}) /\ UNCHANGED <<runVars, driverVars, part, plan>>
    BY <1>1 DEF Raises
  <2> QED BY <1>1, <2>1, <2>2, <2>3 DEF Abandon, Busy
<1>2. CASE ~c.live
  BY <1>2 DEF Raises, Quiet
<1> QED BY <1>1, <1>2

LEMMA RefusalsAbandon ==
  ASSUME StageInv,
         RefuseUniverse \/ RefuseAlignment \/ RefuseMinutes \/ VariantsRaised \/ BacktestFails
  PROVE  Abandon
<1>1. CASE RefuseUniverse \/ RefuseAlignment \/ RefuseMinutes
  <2>1. stage \in Busy /\ phase = "idle"
    BY <1>1 DEF RefuseUniverse, RefuseAlignment, RefuseMinutes, Ready, StageInv, Busy, Fetching
  <2> QED BY <1>1, <2>1 DEF RefuseUniverse, RefuseAlignment, RefuseMinutes, Abandon
<1>2. CASE VariantsRaised
  BY <1>2 DEF VariantsRaised, StageInv, Busy, Abandon
<1>3. CASE BacktestFails
  <2>1. stage \in Busy /\ phase = "idle"
    BY <1>3 DEF BacktestFails, StageInv, Busy, Fetching
  <2> QED BY <1>3, <2>1 DEF BacktestFails, Abandon
<1> QED BY <1>1, <1>2, <1>3

LEMMA OnwardSteps ==
  ASSUME StageInv,
         TakeBars \/ BuildReplayPlan \/ TakeMinutes \/ TakeDaily \/ TakeDominance
           \/ PrefetchRegime \/ RunFilterOn
  PROVE  Onward
<1> USE DEF Onward, Busy, Fetching, Ready
<1>1. CASE TakeBars \/ BuildReplayPlan \/ TakeMinutes
  BY <1>1 DEF TakeBars, BuildReplayPlan, TakeMinutes, resultVars
<1>2. CASE TakeDaily \/ PrefetchRegime \/ RunFilterOn
  BY <1>2 DEF TakeDaily, PrefetchRegime, RunFilterOn, resultVars
<1>3. CASE TakeDominance
  BY <1>3 DEF TakeDominance, resultVars
<1> QED BY <1>1, <1>2, <1>3

\* Only where a plan is fetched do steps leave somebody waiting.
LEMMA OnwardKeeps ==
  ASSUME StageInv,
         TakeBars \/ BuildReplayPlan \/ TakeMinutes \/ TakeDaily \/ TakeDominance
           \/ PrefetchRegime \/ RunFilterOn
  PROVE  StageInv'
<1>1. Onward
  BY OnwardSteps
<1>2. (stage' \notin Fetching => Answered') /\ PartFits' /\ phase = "idle"
  <2> USE DEF PartFits, StageInv, Ready, Fetching, Busy, Mode
  <2>1. CASE TakeBars \/ BuildReplayPlan \/ TakeMinutes
    BY <2>1 DEF TakeBars, BuildReplayPlan, TakeMinutes, driverVars
  <2>2. CASE TakeDaily \/ PrefetchRegime
    BY <2>2 DEF TakeDaily, PrefetchRegime, driverVars
  <2>3. CASE RunFilterOn
    BY <2>3 DEF RunFilterOn, driverVars, cacheVars, Answered, Live
  <2>4. CASE TakeDominance
    BY <2>4 DEF TakeDominance, driverVars, cacheVars, Answered, Live
  <2> QED BY <2>1, <2>2, <2>3, <2>4
<1> QED BY <1>1, <1>2 DEF Onward, StageInv, runVars, driverVars

\* Steps of the runner begin and end where the variants are run.
LEMMA RunKeeps ==
  ASSUME StageInv, RunVariants \/ RunStep \/ RunFails
  PROVE  StageInv' /\ Quiet /\ UNCHANGED cacheVars /\ stage = "variants"
<1>1. Quiet /\ UNCHANGED cacheVars
  BY DEF RunVariants, RunStep, RunFails, Quiet
<1>2. /\ stage = "variants" /\ phase' # "idle"
      /\ phase' \in {"rewriting", "exporting"} => task'.keep
      /\ task'.keep => part = "grid"
  <2>1. CASE RunVariants
    <3>1. stage = "variants"
      BY <2>1 DEF RunVariants
    <3>2. CASE BeginUnreadable(part = "grid")
      BY <3>1, <3>2 DEF BeginUnreadable, StageInv
    <3>3. ASSUME NEW next \in {"sequential", "pool"}, NEW pooled, NEW workers,
                 Begin(part = "grid", Basis, next, pooled, workers)
          PROVE  <1>2
      BY <3>1, <3>3 DEF Begin
    <3>4. CASE ~BeginUnreadable(part = "grid")
      <4>1. \E pooled, workers : \E next \in {"sequential", "pool"} :
              Begin(part = "grid", Basis, next, pooled, workers)
        BY <2>1, <3>4 DEF RunVariants, BeginSequential, BeginPool
      <4> QED BY <3>3, <4>1
    <3> QED BY <3>2, <3>4
  <2>2. CASE \E i \in Index : Take(i) \/ ExportTrades(i) \/ Complete(i) \/ Fail(i)
    <3>1. UNCHANGED <<phase, task>> /\ phase # "idle"
      BY <2>2 DEF Take, ExportTrades, Complete, Fail, Working, With, StageInv
    <3> QED BY <3>1 DEF StageInv
  <2>3. CASE CollectRow \/ CollectFailure \/ WriteCheckpoint \/ AllCollected \/ Drain \/ OpenSummary
    BY <2>3 DEF CollectRow, CollectFailure, WriteCheckpoint, AllCollected, Drain, OpenSummary, StageInv
  <2> QED BY <2>1, <2>2, <2>3 DEF RunStep, RunFails
<1> QED BY <1>1, <1>2 DEF StageInv, Quiet, PartFits, Answered, Live, cacheVars, driverVars

\* A window begins, or its training half is over.
LEMMA WindowStarts ==
  ASSUME StageInv, BeginWindow \/ Prefetch \/ SelectVariant
  PROVE  StageInv' /\ UNCHANGED <<driverVars, idx>> /\ stage' \in Fetching /\ idx \in DOMAIN ends
<1>1. CASE BeginWindow
  <2>1. /\ mode # "prefetch" /\ stage' = "bars" /\ part' = IF mode = "walk" THEN "train" ELSE mode
        /\ UNCHANGED <<runVars, driverVars, idx>> /\ idx <= Len(ends) /\ stage = "next"
    BY <1>1 DEF BeginWindow, FetchBars
  <2>2. ~task.keep /\ phase = "idle"
    BY <2>1 DEF StageInv, Idle
  <2> QED BY <2>1, <2>2 DEF StageInv, PartFits, Fetching, Busy, driverVars, runVars
<1>2. CASE Prefetch
  <2>1. /\ mode = "prefetch" /\ stage' = "prices"
        /\ UNCHANGED <<runVars, driverVars, idx, part>> /\ idx <= Len(ends)
    BY <1>2 DEF Prefetch
  <2> QED BY <2>1 DEF StageInv, PartFits, Fetching, Busy, driverVars, runVars
<1>3. CASE SelectVariant
  <2>1. /\ phase = "over" /\ part = "train" /\ stage' = "bars" /\ part' = "test"
        /\ UNCHANGED <<driverVars, idx>> /\ Leave
    BY <1>3 DEF SelectVariant, FetchBars
  <2>2. stage = "variants" /\ mode = "walk"
    BY <2>1 DEF StageInv, PartFits, Busy, Mode
  <2> QED BY <2>1, <2>2 DEF StageInv, PartFits, Fetching, Busy, driverVars, Leave, Idle
<1> QED BY <1>1, <1>2, <1>3

LEMMA WindowEnds ==
  ASSUME StageInv,
         TestVariant \/ RunBacktest \/ CompareFilters \/ Prefetched \/ ExportVariantRun \/ SkipEpoch
  PROVE  StageInv' /\ UNCHANGED driverVars /\ idx \in DOMAIN ends /\ idx' = idx + 1 /\ stage' = "next"
<1>1. /\ idx \in DOMAIN ends /\ idx' = idx + 1 /\ stage' = "next" /\ UNCHANGED <<driverVars, part, plan>>
      /\ UNCHANGED runVars \/ Leave
  <2>1. CASE TestVariant \/ RunBacktest \/ CompareFilters \/ Prefetched
    BY <2>1 DEF TestVariant, RunBacktest, CompareFilters, Prefetched, Ready, StageInv, Busy, Fetching
  <2>2. CASE ExportVariantRun \/ SkipEpoch
    BY <2>2 DEF ExportVariantRun, SkipEpoch, StageInv, Busy
  <2> QED BY <2>1, <2>2
<1>2. UNCHANGED <<waiting, calls>> /\ (stage \notin Fetching \/ Answered)
  BY DEF TestVariant, RunBacktest, CompareFilters, Prefetched, ExportVariantRun, SkipEpoch, cacheVars,
         Ready, StageInv, Fetching
<1>3. Answered'
  BY <1>2 DEF StageInv, Answered, Live
<1>4. phase' = "idle" /\ task' = Idle /\ job' = [i \in Index |-> "kept"]
  <2>1. CASE Leave
    BY <2>1 DEF Leave
  <2>2. CASE UNCHANGED runVars
    <3>1. stage # "variants" \/ phase = "exporting"
      BY DEF TestVariant, RunBacktest, CompareFilters, Prefetched, ExportVariantRun, SkipEpoch, Ready
    <3>2. CASE phase = "exporting"
      BY <3>2, <2>2 DEF TestVariant, RunBacktest, CompareFilters, Prefetched, ExportVariantRun, SkipEpoch,
         Ready, StageInv, Leave, runVars
    <3> QED BY <2>2, <3>1, <3>2 DEF StageInv, runVars
  <2> QED BY <1>1, <2>1, <2>2
<1> QED BY <1>1, <1>3, <1>4 DEF StageInv, PartFits, Busy, Fetching, Terminal, driverVars, Idle

LEMMA CommandSteps ==
  ASSUME StageInv, CacheInv, (\E m \in Mode : Start(m)) \/ Finish \/ Kill
  PROVE  StageInv'
<1>1. CASE \E m \in Mode : Start(m)
  <2>1. PICK m \in Mode : Start(m)
    BY <1>1
  <2>2. /\ mode' = m /\ stage' = "next" /\ idx' = 1 /\ Leave /\ UNCHANGED <<waiting, calls>> /\ stage \in Terminal
        /\ ends' = WindowEndTimes(m)
    BY <2>1 DEF Start, cacheVars
  <2>3. ends' \in Seq(Int)
    BY <2>2, EndTypes DEF CacheInv
  <2>4. Answered'
    BY <2>2 DEF StageInv, Terminal, Fetching, Answered, Live
  <2> QED BY <2>2, <2>3, <2>4 DEF StageInv, PartFits, Busy, Fetching, Terminal, Leave, Idle
<1>2. CASE Finish \/ Kill
  <2>1. /\ stage' \in {"done", "killed"} /\ waiting' = {} /\ calls' = {} /\ UNCHANGED <<mode, ends, idx, part>>
        /\ phase' = "idle" /\ task' = Idle /\ job' = [i \in Index |-> "kept"]
    BY <1>2 DEF Finish, Kill, Killed, Leave, driverVars, StageInv, runVars
  <2> QED BY <2>1 DEF StageInv, PartFits, Answered, Live, Busy, Fetching, Terminal, Idle
<1> QED BY <1>1, <1>2

LEMMA StageStep == CacheInv /\ StageInv /\ [Next]_vars => StageInv'
<1> SUFFICES ASSUME CacheInv, StageInv, [Next]_vars PROVE StageInv'
  OBVIOUS
<1>1. ASSUME Quiet, waiting' \subseteq waiting, calls' \subseteq calls, UNCHANGED runVars
      PROVE  StageInv'
  BY <1>1 DEF Quiet, driverVars, runVars, StageInv, PartFits, Answered, Live
<1>2. CASE UNCHANGED vars \/ ClockTicks
  BY <1>1, <1>2 DEF vars, cacheVars, ClockTicks, Tick, Quiet
<1>3. ASSUME NEW c \in calls, Answer(c) \/ FindsGap(c) \/ RequestFails(c)
      PROVE  StageInv'
  <2>1. CASE Answer(c)
    BY <1>1, <2>1 DEF Answer, Reply, Quiet
  <2>2. CASE Raises(c)
    BY <1>1, <2>2, RaisesAbandons, AbandonKeeps
  <2> QED BY <1>3, <2>1, <2>2 DEF FindsGap, RequestFails
<1>4. ASSUME NEW r \in waiting, Begins(r)
      PROVE  StageInv'
  <2>1. /\ Quiet /\ UNCHANGED runVars /\ waiting' \subseteq waiting
        /\ calls' \subseteq calls \cup {Call(r)} /\ Call(r).live = r.live
    BY <1>4 DEF Begins, StartCall, Quiet, Call
  <2>2. Answered => Answered'
    BY <2>1 DEF Answered, Live
  <2> QED BY <2>1, <2>2 DEF Quiet, driverVars, runVars, StageInv, PartFits
<1> QED BY <1>2, <1>3, <1>4, RefusalsAbandon, AbandonKeeps, OnwardKeeps, RunKeeps, WindowStarts, WindowEnds,
           CommandSteps DEF Next

-----------------------------------------------------------------------------
\* The windows of a walk-forward.

TestLength == TestCycles * BarMinutes

Fallen == \A i, j \in DOMAIN ends : i < j => ends[j] + TestLength <= ends[i]

\* A window tested is one of the first n, trained up to where its test begins.
TestedAmong(w, es, n) ==
  /\ w.train[2] = w.test[1] /\ w.test[1] = w.test[2] - TestLength
  /\ \E k \in 1..n : w.test[2] = es[k]

Behind == {ends[k] : k \in 1..(idx - 1)}
TestedEnds == {windows[i].test[2] : i \in DOMAIN windows}

WindowInv ==
  mode = "walk" =>
    /\ Fallen
    /\ stage \in Busy /\ part = "test" => chosen.train[2] = TrainEnd
    /\ (\E S : windows \in Seq(S)) /\ skipped \in Seq(Int)
    /\ \A i \in DOMAIN windows : TestedAmong(windows[i], ends, idx - 1)
    /\ \A i, j \in DOMAIN windows : i < j => windows[j].test[2] <= windows[i].test[1]
    /\ Behind = Range(skipped) \cup TestedEnds
    /\ Len(windows) + Len(skipped) = idx - 1

LEMMA WalkEndsFall ==
  ASSUME now \in Nat
  PROVE  \A i, j \in DOMAIN WindowEndTimes("walk") :
           i < j => WindowEndTimes("walk")[j] + TestLength <= WindowEndTimes("walk")[i]
<1> DEFINE count == (LookbackMinutes + TestLength - 1) \div TestLength
<1>1. /\ ResolveEnd \in Int /\ TestLength \in Nat \ {0}
  BY EndTypes, ParameterTypes DEF Mode, TestLength
<1>2. WindowEndTimes("walk") = [k \in 1..count |-> ResolveEnd - (k - 1) * TestLength]
  BY DEF WindowEndTimes, Windowed, TestLength
<1>3. \A x, y \in Nat : x < y => x * TestLength + TestLength <= y * TestLength
  <2> SUFFICES ASSUME NEW x \in Nat, NEW y \in Nat, x < y
               PROVE  x * TestLength + TestLength <= y * TestLength
    OBVIOUS
  <2>1. y - x - 1 \in Nat /\ y * TestLength = x * TestLength + TestLength + (y - x - 1) * TestLength
    BY <1>1
  <2>2. (y - x - 1) * TestLength \in Nat
    BY <1>1, <2>1
  <2>3. x * TestLength \in Nat
    BY <1>1
  <2> QED BY <1>1, <2>1, <2>2, <2>3
<1> HIDE DEF count
<1> SUFFICES ASSUME NEW i \in 1..count, NEW j \in 1..count, i < j
             PROVE  ResolveEnd - (j - 1) * TestLength + TestLength <= ResolveEnd - (i - 1) * TestLength
  BY <1>2
<1>4. i - 1 \in Nat /\ j - 1 \in Nat /\ i - 1 < j - 1
  OBVIOUS
<1>5. (i - 1) * TestLength + TestLength <= (j - 1) * TestLength
  BY <1>3, <1>4
<1>6. (i - 1) * TestLength \in Int /\ (j - 1) * TestLength \in Int
  BY <1>1, <1>4
<1> QED BY <1>1, <1>5, <1>6

Skips == skipped' = Append(skipped, ends[idx]) /\ UNCHANGED windows

Tests ==
  /\ UNCHANGED skipped
  /\ \E w : /\ windows' = Append(windows, w) /\ w.test[2] = ends[idx]
            /\ w.train[2] = w.test[1] /\ w.test[1] = w.test[2] - TestLength

\* The window at idx is behind: it was skipped, or tested.
LEMMA WindowBehind ==
  ASSUME StageInv, WindowInv, mode = "walk", idx \in DOMAIN ends,
         UNCHANGED <<mode, ends>>, idx' = idx + 1, stage' \notin Busy,
         Skips \/ Tests
  PROVE  WindowInv'
<1>1. PICK S : windows \in Seq(S)
  BY DEF WindowInv
<1>2. idx \in Nat \ {0} /\ \A k \in DOMAIN ends : ends[k] \in Int
  BY DEF StageInv
<1>3. 1..(idx' - 1) = (1..(idx - 1)) \cup {idx} /\ 1..(idx - 1) \subseteq DOMAIN ends
  BY <1>2 DEF StageInv
<1>4. Behind' = Behind \cup {ends[idx]}
  BY <1>3 DEF Behind
<1>5. \A w : TestedAmong(w, ends, idx - 1) => TestedAmong(w, ends', idx' - 1)
  BY <1>3 DEF TestedAmong
<1>6. CASE Skips
  <2> USE DEF Skips
  <2>1. /\ skipped' \in Seq(Int) /\ Len(skipped') = Len(skipped) + 1 /\ Len(skipped) \in Nat
        /\ Range(skipped') = Range(skipped) \cup {ends[idx]}
    <3>1. skipped \in Seq(Int) /\ Int \cup {ends[idx]} = Int
      BY <1>2 DEF WindowInv
    <3> QED BY <1>6, <3>1, Grown
  <2>2. Len(windows) \in Nat
    BY <1>1
  <2>3. TestedEnds' = TestedEnds
    BY <1>6 DEF TestedEnds
  <2>4. Behind' = Range(skipped') \cup TestedEnds' /\ Len(windows') + Len(skipped') = idx' - 1
    BY <1>2, <1>4, <1>6, <2>1, <2>2, <2>3 DEF WindowInv
  <2>5. Fallen' /\ \A i \in DOMAIN windows' : TestedAmong(windows'[i], ends', idx' - 1)
    BY <1>5, <1>6 DEF WindowInv, Fallen
  <2> QED BY <1>6, <2>1, <2>4, <2>5 DEF WindowInv
<1>7. ASSUME UNCHANGED skipped, NEW w, windows' = Append(windows, w), w.test[2] = ends[idx],
             w.train[2] = w.test[1], w.test[1] = w.test[2] - TestLength
      PROVE  WindowInv'
  <2> DEFINE n == Len(windows) + 1
  <2>1. /\ DOMAIN windows' = DOMAIN windows \cup {n} /\ n \notin DOMAIN windows
        /\ DOMAIN windows = 1..Len(windows) /\ Len(windows) \in Nat
        /\ \A i \in DOMAIN windows : windows'[i] = windows[i]
        /\ windows'[n] = w /\ Len(windows') = n /\ windows' \in Seq(S \cup {w})
    BY <1>1, <1>7, Grown
  <2> HIDE DEF n
  <2>2. TestedAmong(w, ends', idx' - 1)
    BY <1>3, <1>7 DEF TestedAmong
  <2>3. \A i \in DOMAIN windows : TestedAmong(windows[i], ends, idx - 1)
    BY DEF WindowInv
  <2>4. \A i \in DOMAIN windows : w.test[2] <= windows[i].test[1]
    <3> SUFFICES ASSUME NEW i \in DOMAIN windows PROVE w.test[2] <= windows[i].test[1]
      OBVIOUS
    <3>1. PICK k \in 1..(idx - 1) : windows[i].test[2] = ends[k]
      BY <2>3 DEF TestedAmong
    <3>2. k \in DOMAIN ends /\ k < idx
      BY <1>2, <1>3
    <3>3. ends[idx] + TestLength <= ends[k]
      BY <3>2 DEF WindowInv, Fallen
    <3>4. ends[idx] \in Int /\ ends[k] \in Int /\ TestLength \in Int
      BY <1>2, <3>2, ParameterTypes DEF TestLength
    <3>5. windows[i].test[1] = ends[k] - TestLength
      BY <2>3, <3>1 DEF TestedAmong
    <3> QED BY <1>7, <3>3, <3>4, <3>5
  <2>5. \A i \in DOMAIN windows' : TestedAmong(windows'[i], ends', idx' - 1)
    BY <1>5, <2>1, <2>2, <2>3
  <2>6. \A i, j \in DOMAIN windows' : i < j => windows'[j].test[2] <= windows'[i].test[1]
    <3> SUFFICES ASSUME NEW i \in DOMAIN windows', NEW j \in DOMAIN windows', i < j
                 PROVE  windows'[j].test[2] <= windows'[i].test[1]
      OBVIOUS
    <3>1. i \in DOMAIN windows /\ (j \in DOMAIN windows \/ j = n)
      BY <2>1 DEF n
    <3> QED BY <2>1, <2>4, <3>1 DEF WindowInv
  <2>7. TestedEnds' = TestedEnds \cup {ends[idx]}
    <3>1. \A x : x \in TestedEnds' <=> \E i \in DOMAIN windows \cup {n} : x = windows'[i].test[2]
      BY <2>1 DEF TestedEnds
    <3>2. \A x : x \in TestedEnds <=> \E i \in DOMAIN windows : x = windows[i].test[2]
      BY DEF TestedEnds
    <3>3. /\ \A i \in DOMAIN windows : windows'[i] = windows[i]
          /\ windows'[n].test[2] = ends[idx]
      BY <1>7, <2>1
    <3>4. \A x : x \in TestedEnds' <=> x \in TestedEnds \/ x = ends[idx]
      BY <3>1, <3>2, <3>3
    <3> QED BY <3>4
  <2>8. Len(windows') + Len(skipped') = idx' - 1
    <3>1. Len(skipped) \in Nat /\ Len(windows) + Len(skipped) = idx - 1
      BY DEF WindowInv
    <3>2. Len(windows') = Len(windows) + 1 /\ Len(windows) \in Nat
      BY <2>1 DEF n
    <3>3. Len(skipped') = Len(skipped)
      BY <1>7
    <3> QED BY <1>2, <3>1, <3>2, <3>3
  <2>9. Behind' = Range(skipped') \cup TestedEnds'
    BY <1>4, <1>7, <2>7 DEF WindowInv
  <2>10. Fallen' /\ (\E T : windows' \in Seq(T)) /\ skipped' \in Seq(Int)
    BY <1>7, <2>1 DEF WindowInv, Fallen
  <2> QED BY <2>5, <2>6, <2>8, <2>9, <2>10 DEF WindowInv
<1> QED BY <1>6, <1>7 DEF Tests

LEMMA WindowSame ==
  ASSUME WindowInv, UNCHANGED <<mode, ends, idx, windows, skipped>>,
         mode = "walk" /\ stage' \in Busy /\ part' = "test" =>
           (stage \in Busy /\ UNCHANGED <<part, chosen>>) \/ chosen'.train[2] = TrainEnd
  PROVE  WindowInv'
<1>1. Fallen' = Fallen /\ Behind' = Behind /\ TestedEnds' = TestedEnds /\ TrainEnd' = TrainEnd
  BY DEF Fallen, Behind, TestedEnds, TrainEnd, WindowEnd
<1> QED BY <1>1 DEF WindowInv

LEMMA WindowStart == Init => WindowInv
BY DEF Init, WindowInv

LEMMA WindowStep == CacheInv /\ StageInv /\ WindowInv /\ [Next]_vars => WindowInv'
<1> SUFFICES ASSUME CacheInv, StageInv, WindowInv, [Next]_vars PROVE WindowInv'
  OBVIOUS
<1>1. CASE Quiet
  BY <1>1, WindowSame DEF Quiet, driverVars, resultVars
<1>2. CASE Onward
  BY <1>2, WindowSame DEF Onward, driverVars, resultVars
<1>3. CASE Abandon
  <2>1. PICK left \in SUBSET calls : GiveUp(left)
    BY <1>3 DEF Abandon
  <2>2. CASE mode = "walk"
    <3>1. /\ skipped' = Append(skipped, ends[idx]) /\ UNCHANGED <<mode, ends, windows>>
          /\ idx' = idx + 1 /\ stage' = "next" /\ idx \in DOMAIN ends
      BY <1>3, <2>1, <2>2 DEF GiveUp, Abandon, Windowed, WindowEnd, driverVars, StageInv
    <3> QED BY <2>2, <3>1, WindowBehind DEF Busy, Fetching, Skips, Tests
  <2>3. CASE mode # "walk"
    BY <1>3, <2>3 DEF Abandon, driverVars, WindowInv
  <2> QED BY <2>2, <2>3
<1>4. CASE UNCHANGED vars \/ ClockTicks
  BY <1>1, <1>4 DEF vars, ClockTicks, Quiet
<1>5. ASSUME NEW c \in calls, Answer(c) \/ FindsGap(c) \/ RequestFails(c)
      PROVE  WindowInv'
  BY <1>1, <1>3, <1>5, RaisesAbandons DEF Answer, FindsGap, RequestFails, Quiet
<1>6. CASE RunVariants \/ RunStep \/ RunFails \/ \E r \in waiting : Begins(r)
  BY <1>1, <1>6, RunKeeps, BeginsQuietly
<1>7. CASE \E m \in Mode : Start(m)
  <2>1. PICK m \in Mode : Start(m)
    BY <1>7
  <2>2. /\ mode' = m /\ ends' = WindowEndTimes(m) /\ idx' = 1 /\ windows' = <<>> /\ skipped' = <<>>
        /\ stage' = "next"
    BY <2>1 DEF Start
  <2>3. m = "walk" => Fallen'
    BY <2>2, WalkEndsFall DEF Fallen, CacheInv
  <2>4. Behind' = {} /\ Range(skipped') = {} /\ DOMAIN windows' = {} /\ TestedEnds' = {}
    BY <2>2 DEF Range, Behind, TestedEnds
  <2> QED BY <2>2, <2>3, <2>4 DEF WindowInv, Busy, Fetching
<1>8. CASE Finish \/ Kill
  <2>1. UNCHANGED <<mode, ends, idx, windows, skipped>> /\ stage' \notin Busy
    BY <1>8 DEF Finish, Kill, driverVars, resultVars, Busy, Fetching
  <2> QED BY <2>1, WindowSame
<1>9. CASE BeginWindow \/ Prefetch
  <2>1. /\ UNCHANGED <<mode, ends, idx, windows, skipped>>
        /\ mode = "walk" => part' = "train"
    BY <1>9 DEF BeginWindow, Prefetch, FetchBars, driverVars, resultVars
  <2> QED BY <2>1, WindowSame
<1>10. CASE SelectVariant
  <2>1. UNCHANGED <<mode, ends, idx, windows, skipped>> /\ chosen'.train = Span("train")
    BY <1>10 DEF SelectVariant, driverVars
  <2>2. chosen'.train[2] = TrainEnd
    BY <2>1 DEF Span, PlanEnd
  <2> QED BY <2>1, <2>2, WindowSame
<1>11. CASE SkipEpoch
  <2>1. /\ skipped' = Append(skipped, ends[idx]) /\ UNCHANGED <<mode, ends, windows>> /\ mode = "walk"
        /\ idx' = idx + 1 /\ stage' = "next" /\ idx \in DOMAIN ends
    BY <1>11, WindowEnds DEF SkipEpoch, WindowEnd, driverVars
  <2> QED BY <2>1, WindowBehind DEF Busy, Fetching, Skips, Tests
<1>12. CASE TestVariant
  <2> DEFINE w == [variant |-> chosen.name, train |-> chosen.train, test |-> Span("test")]
  <2>1. /\ UNCHANGED <<mode, ends, skipped>> /\ windows' = Append(windows, w)
        /\ idx' = idx + 1 /\ stage' = "next" /\ idx \in DOMAIN ends /\ stage = "test" /\ part = "test"
    BY <1>12, WindowEnds DEF TestVariant, driverVars
  <2>2. w.test[2] = ends[idx] /\ w.test[1] = ends[idx] - TestLength
    BY DEF Span, PlanEnd, PlanCycles, WindowEnd, TestLength
  <2>3. mode = "walk" => w.train[2] = w.test[1]
    BY <2>1, <2>2 DEF WindowInv, TrainEnd, WindowEnd, TestLength, Busy
  <2> HIDE DEF w
  <2>4. CASE mode = "walk"
    BY <2>1, <2>2, <2>3, <2>4, WindowBehind DEF Busy, Fetching, Skips, Tests
  <2>5. CASE mode # "walk"
    BY <2>1, <2>5 DEF WindowInv
  <2> QED BY <2>4, <2>5
<1>13. CASE RunBacktest \/ CompareFilters \/ Prefetched \/ ExportVariantRun
  <2>1. mode # "walk" /\ mode' = mode
    <3>1. CASE ExportVariantRun
      <4>1. stage = "variants" /\ part = "grid" /\ mode' = mode
        BY <1>13, <3>1 DEF ExportVariantRun, StageInv, driverVars
      <4> QED BY <4>1 DEF StageInv, PartFits, Busy
    <3>2. CASE RunBacktest \/ CompareFilters \/ Prefetched
      BY <3>2 DEF RunBacktest, CompareFilters, Prefetched, Ready, StageInv, PartFits, Busy, Fetching, driverVars
    <3> QED BY <1>13, <3>1, <3>2
  <2> QED BY <2>1 DEF WindowInv
<1> QED BY <1>2, <1>3, <1>4, <1>5, <1>6, <1>7, <1>8, <1>9, <1>10, <1>11, <1>12, <1>13,
           OnwardSteps, RefusalsAbandon DEF Next

LEMMA WindowsFollow == StageInv /\ WindowInv => WindowsApart
<1> SUFFICES ASSUME StageInv, WindowInv, mode = "walk" PROVE WindowsApart
  BY DEF WindowsApart
<1>1. idx - 1 \in Nat /\ 1..(idx - 1) \subseteq DOMAIN ends /\ \A k \in DOMAIN ends : ends[k] \in Int
  BY DEF StageInv
<1>2. Range(SubSeq(ends, 1, idx - 1)) = Behind
  <2> DEFINE q == SubSeq(ends, 1, idx - 1)
  <2>1. DOMAIN q = 1..(idx - 1) /\ \A k \in 1..(idx - 1) : q[k] = ends[k]
    BY <1>1 DEF StageInv
  <2> HIDE DEF q
  <2>2. \A x : x \in Range(q) <=> \E k \in 1..(idx - 1) : x = ends[k]
    BY <2>1 DEF Range
  <2>3. \A x : x \in Behind <=> \E k \in 1..(idx - 1) : x = ends[k]
    BY DEF Behind
  <2> QED BY <2>2, <2>3 DEF q
<1>3. \A i \in DOMAIN windows : windows[i].train[2] <= windows[i].test[1]
  <2> SUFFICES ASSUME NEW i \in DOMAIN windows PROVE windows[i].train[2] <= windows[i].test[1]
    OBVIOUS
  <2>1. TestedAmong(windows[i], ends, idx - 1)
    BY DEF WindowInv
  <2>2. windows[i].test[2] \in Int /\ TestLength \in Int
    BY <1>1, <2>1, ParameterTypes DEF TestedAmong, TestLength
  <2> QED BY <2>1, <2>2 DEF TestedAmong
<1> QED BY <1>2, <1>3 DEF WindowInv, WindowsApart, TestedEnds

\* Whatever fails, and whenever, a walk-forward trains up to where it tests, tests no
\* minute twice, and has each window behind it once, as tested or as skipped.
THEOREM WindowsStayApart == Spec => []WindowsApart
<1> QED BY CacheStart, CacheStep, StageStart, StageStep, WindowStart, WindowStep, WindowsFollow, PTL DEF Spec

-----------------------------------------------------------------------------
\* Replay plans.

Multiple(x) == \E k \in Int : x = k * BarMinutes

LEMMA Multiples ==
  /\ \A k \in Int : k * BarMinutes \in Int /\ Multiple(k * BarMinutes)
  /\ \A x, y \in Int : Multiple(x) /\ Multiple(y) => Multiple(x + y) /\ Multiple(x - y)
  /\ \A x \in Int : Multiple(x) <=> x % BarMinutes = 0
<1>1. \A k \in Int : k * BarMinutes \in Int /\ Multiple(k * BarMinutes)
  BY ParameterTypes DEF Multiple
<1>2. ASSUME NEW x \in Int, NEW y \in Int, Multiple(x), Multiple(y)
      PROVE  Multiple(x + y) /\ Multiple(x - y)
  <2>1. PICK k \in Int, l \in Int : x = k * BarMinutes /\ y = l * BarMinutes
    BY <1>2 DEF Multiple
  <2>2. x + y = (k + l) * BarMinutes /\ x - y = (k - l) * BarMinutes
    BY <2>1, ParameterTypes
  <2> QED BY <2>2 DEF Multiple
<1>3. ASSUME NEW x \in Int PROVE Multiple(x) <=> x % BarMinutes = 0
  <2>1. \A k \in Int, b \in Nat \ {0} : (k * b) % b = 0
    OBVIOUS
  <2>2. \A b \in Nat \ {0} : x % b = 0 => x = (x \div b) * b /\ x \div b \in Int
    OBVIOUS
  <2> QED BY <2>1, <2>2, ParameterTypes DEF Multiple
<1> QED BY <1>1, <1>2, <1>3

LEMMA Shifted ==
  ASSUME NEW x \in Int, Multiple(x), NEW k \in Int
  PROVE  x - k * BarMinutes \in Int /\ Multiple(x - k * BarMinutes)
<1> DEFINE y == k * BarMinutes
<1>1. y \in Int /\ Multiple(y)
  BY Multiples
<1> HIDE DEF y
<1>2. x - y \in Int /\ Multiple(x - y)
  BY <1>1, Multiples
<1> QED BY <1>2 DEF y

\* Within a bar that starts at a multiple of its length, times align down to its start.
LEMMA AlignsTo ==
  ASSUME NEW a \in Int, Multiple(a), NEW t \in Int, a <= t
  PROVE  a <= AlignDown(t) /\ Multiple(AlignDown(t)) /\ (AlignDown(t) - a) % BarMinutes = 0
<1>1. PICK k \in Int : a = k * BarMinutes
  BY DEF Multiple
<1>2. AlignDown(t) \in Int /\ AlignDown(t) <= t /\ t < AlignDown(t) + BarMinutes /\ Multiple(AlignDown(t))
  BY AlignedDown, Multiples
<1>3. PICK l \in Int : AlignDown(t) = l * BarMinutes
  BY <1>2 DEF Multiple
<1>4. k * BarMinutes < (l + 1) * BarMinutes
  BY <1>1, <1>2, <1>3, ParameterTypes
<1>5. k < l + 1
  BY <1>4, ParameterTypes
<1>6. k * BarMinutes <= l * BarMinutes
  BY <1>5, ParameterTypes
<1> QED BY <1>1, <1>2, <1>3, <1>6, Multiples

\* A range of which every bar has as many minutes as it should is whole.
LEMMA FullRange ==
  ASSUME NEW a \in Int, NEW b \in Int, Multiple(a), NEW R \in SUBSET (a..(b - 1)),
         \A bar \in Starts(a, b, BarMinutes) : Cardinality({t \in R : AlignDown(t) = bar}) = BarMinutes
  PROVE  R = Starts(a, b, 1)
<1>1. Starts(a, b, 1) = a..(b - 1)
  BY DEF Starts
<1>2. ASSUME NEW t \in a..(b - 1) PROVE t \in R
  <2> DEFINE bar == AlignDown(t)
             minutes == {u \in R : AlignDown(u) = bar}
  <2>1. /\ bar \in Int /\ bar <= t /\ t < bar + BarMinutes /\ a <= bar /\ (bar - a) % BarMinutes = 0
    BY AlignedDown, AlignsTo
  <2>2. Cardinality(minutes) = BarMinutes
    <3>1. bar \in Starts(a, b, BarMinutes)
      BY <2>1 DEF Starts
    <3> QED BY <3>1
  <2>3. minutes \subseteq bar..(bar + BarMinutes - 1)
    <3> SUFFICES ASSUME NEW u \in R, AlignDown(u) = bar PROVE u \in bar..(bar + BarMinutes - 1)
      OBVIOUS
    <3>1. u \in Int
      OBVIOUS
    <3>2. bar <= u /\ u < bar + BarMinutes
      BY <3>1, AlignedDown
    <3> QED BY <2>1, <3>1, <3>2, ParameterTypes
  <2> HIDE DEF bar, minutes
  <2>4. /\ IsFiniteSet(bar..(bar + BarMinutes - 1))
        /\ Cardinality(bar..(bar + BarMinutes - 1)) = BarMinutes
    <3>1. bar + BarMinutes - 1 \in Int /\ ~(bar > bar + BarMinutes - 1)
          /\ (bar + BarMinutes - 1) - bar + 1 = BarMinutes
      BY <2>1, ParameterTypes
    <3> QED BY <2>1, <3>1, FS_Interval
  <2>5. minutes = bar..(bar + BarMinutes - 1)
    BY <2>2, <2>3, <2>4, FS_Subset
  <2>6. t \in minutes
    BY <2>1, <2>5, ParameterTypes
  <2> QED BY <2>6 DEF minutes
<1> QED BY <1>1, <1>2

LEMMA RequestsAreNoCalls == CacheInv => waiting \cap calls = {}
<1> SUFFICES ASSUME CacheInv, NEW r \in waiting, r \in calls PROVE FALSE
  OBVIOUS
<1>1. DOMAIN r = {"series", "from", "to", "live"} /\ DOMAIN r = {"series", "from", "to", "noted", "live"}
  BY DEF CacheInv, IsCall, IsRequest
<1>2. "noted" \in DOMAIN r
  BY <1>1
<1> QED BY <1>1, <1>2

\* Who the present gather still waits for.
Open == Live(waiting \cup calls)

\* A gather that begins waits for all that it asks, and has no answer yet.
LEMMA Asked ==
  ASSUME NEW requests, Ask(requests), Requests(requests), Answered
  PROVE  /\ Open' = requests /\ DOMAIN replies' = {} /\ replies' = <<>>
         /\ Live(waiting') = requests /\ Live(calls') = {}
<1>1. waiting' = waiting \cup requests /\ calls' = calls /\ replies' = <<>>
  BY DEF Ask
<1> QED BY <1>1 DEF Open, Live, Answered, Requests

\* A coroutine that begins has its answer, or a call that is judged by the present clock.
LEMMA Called ==
  ASSUME NEW r, r.live, StartCall(r)
  PROVE  /\ Call(r).series = r.series /\ Call(r).from = r.from /\ Call(r).to = r.to
         /\ Call(r).noted = now /\ Call(r).live
         /\ r \in waiting /\ waiting' = waiting \ {r} /\ UNCHANGED <<now, absent, cache>>
         /\ \/ /\ Hit(r) /\ UNCHANGED calls
               /\ replies' = Replaced(replies, [s \in {r.series} |-> ExpectedStarts(r)])
            \/ /\ calls' = calls \cup {Call(r)} /\ UNCHANGED replies
BY DEF StartCall, Call, Awaited

\* An orphan that begins concerns nobody.
LEMMA OrphanCalled ==
  ASSUME NEW r, ~r.live, StartCall(r)
  PROVE  /\ UNCHANGED <<now, absent, cache, replies>> /\ waiting' \subseteq waiting
         /\ Live(waiting') = Live(waiting) /\ Live(calls') = Live(calls)
         /\ calls' \subseteq calls \cup {Call(r)} /\ Call(r).noted = now
<1>1. /\ UNCHANGED <<now, absent, cache, replies>> /\ waiting' = waiting \ {r}
      /\ calls' = calls \/ calls' = calls \cup {Call(r)}
  BY DEF StartCall, Awaited
<1>2. ~Call(r).live /\ Call(r).noted = now
  BY DEF Call
<1> QED BY <1>1, <1>2 DEF Live

Wanted == {<<s, "minute">> : s \in plan.active \cup {Btc}}

\* While minutes are fetched, every series of the plan has an answer within the
\* range, or a coroutine is at it.
MinutesInv ==
  stage = "minutes" =>
    /\ \A q \in Open : q.from = ReplayStart(part) /\ q.to = PlanEnd(part)
    /\ \A s \in DOMAIN replies : replies[s] \subseteq ReplayStart(part)..(PlanEnd(part) - 1)
    /\ \A s \in Wanted : s \in DOMAIN replies \/ \E q \in Open : q.series = s

Planned == {"daily", "minutes", "again", "btcdom", "variants", "test", "on", "off"}

BarsWhole(s) == plan.bars[<<s, "bar">>] = Starts(HistoryStart(part), PlanEnd(part), BarMinutes)
MinutesWhole(s) == plan.minutes[<<s, "minute">>] = Starts(ReplayStart(part), PlanEnd(part), 1)

PlanInv ==
  /\ \A k \in DOMAIN ends : Multiple(ends[k])
  /\ stage \in Planned => \A s \in plan.active : BarsWhole(s)
  /\ stage \in Planned \ {"daily"} => BarsWhole(Btc)
  /\ stage \in Planned \ {"daily", "minutes"} => \A s \in plan.active \cup {Btc} : MinutesWhole(s)
  /\ MinutesInv

LEMMA EndsAligned ==
  ASSUME NEW m \in Mode, now \in Nat
  PROVE  \A k \in DOMAIN WindowEndTimes(m) : Multiple(WindowEndTimes(m)[k])
<1>1. ResolveEnd \in Int /\ Multiple(ResolveEnd)
  <2>1. Multiple(PinnedEnd)
    BY Multiples, ParameterTypes, ResearchAssumption
  <2>2. Multiple(AlignDown(now)) /\ AlignDown(now) \in Int
    BY AlignedDown, Multiples
  <2> QED BY <2>1, <2>2, ParameterTypes DEF ResolveEnd
<1>2. CASE m \notin Windowed
  BY <1>1, <1>2 DEF WindowEndTimes
<1>3. CASE m \in Windowed
  <2> DEFINE step == IF m = "walk" THEN TestCycles * BarMinutes ELSE StepMinutes
             count == (LookbackMinutes + step - 1) \div step
  <2>1. step \in Int /\ Multiple(step)
    BY Multiples, ParameterTypes, ResearchAssumption
  <2>2. WindowEndTimes(m) = [k \in 1..count |-> ResolveEnd - (k - 1) * step]
    BY <1>3 DEF WindowEndTimes
  <2> HIDE DEF step, count
  <2>3. ASSUME NEW k \in 1..count PROVE Multiple(ResolveEnd - (k - 1) * step)
    <3>1. PICK l \in Int : step = l * BarMinutes
      BY <2>1 DEF Multiple
    <3>2. (k - 1) * step = ((k - 1) * l) * BarMinutes /\ (k - 1) * l \in Int /\ (k - 1) * step \in Int
      BY <2>1, <3>1, ParameterTypes
    <3>3. Multiple((k - 1) * step)
      BY <3>2 DEF Multiple
    <3> QED BY <1>1, <3>2, <3>3, Multiples
  <2> QED BY <2>2, <2>3
<1> QED BY <1>2, <1>3

LEMMA RangeTypes ==
  ASSUME StageInv, PlanInv, idx \in DOMAIN ends, NEW p
  PROVE  /\ PlanEnd(p) \in Int /\ ReplayStart(p) \in Int /\ HistoryStart(p) \in Int
         /\ Multiple(PlanEnd(p)) /\ Multiple(ReplayStart(p)) /\ Multiple(HistoryStart(p))
<1>1. WindowEnd \in Int /\ Multiple(WindowEnd)
  BY DEF StageInv, PlanInv, WindowEnd
<1>2. PlanEnd(p) \in Int /\ Multiple(PlanEnd(p))
  BY <1>1, Shifted, ParameterTypes DEF PlanEnd, TrainEnd
<1>3. PlanCycles(p) \in Int
  BY ParameterTypes DEF PlanCycles
<1>4. ReplayStart(p) \in Int /\ Multiple(ReplayStart(p))
  BY <1>2, <1>3, Shifted DEF ReplayStart
<1>5. HistoryStart(p) \in Int /\ Multiple(HistoryStart(p))
  BY <1>4, Shifted, ParameterTypes DEF HistoryStart
<1> QED BY <1>2, <1>4, <1>5

LEMMA MinutesAsked ==
  ASSUME StageInv, BuildReplayPlan
  PROVE  MinutesInv'
<1> DEFINE from == ReplayStart(part)
           to == PlanEnd(part)
           requests == Minutes(plan.active \cup {Btc}, from, to)
<1>1. Answered /\ Ask(requests) /\ UNCHANGED <<driverVars, idx, part, plan>>
  BY DEF BuildReplayPlan, Ready
<1>2. ReplayStart(part)' = from /\ PlanEnd(part)' = to /\ Wanted' = Wanted
  BY <1>1 DEF driverVars, ReplayStart, PlanEnd, PlanCycles, TrainEnd, WindowEnd, Wanted
<1> HIDE DEF from, to
<1>3. Open' = requests /\ DOMAIN replies' = {}
  BY <1>1, Asked, AreRequests
<1>4. \A s : Request(s, from, to).series = s /\ Request(s, from, to).from = from
              /\ Request(s, from, to).to = to
  BY DEF Request
<1>5. \A q \in requests : q.from = from /\ q.to = to
  BY <1>4 DEF Minutes
<1>6. \A s \in Wanted : Request(s, from, to) \in requests
  BY DEF Minutes, Wanted
<1> HIDE DEF requests
<1> QED BY <1>2, <1>3, <1>4, <1>5, <1>6 DEF MinutesInv

\* An answer to q that is within the range takes the place of q.
LEMMA MinutesReplied ==
  ASSUME MinutesInv, stage = "minutes", UNCHANGED <<driverVars, idx, part, plan>>,
         NEW q \in Open, Open \ {q} \subseteq Open', Open' \subseteq Open,
         NEW answer, answer \subseteq ReplayStart(part)..(PlanEnd(part) - 1),
         replies' = Replaced(replies, [s \in {q.series} |-> answer])
  PROVE  MinutesInv'
<1>1. ReplayStart(part)' = ReplayStart(part) /\ PlanEnd(part)' = PlanEnd(part) /\ Wanted' = Wanted
  BY DEF driverVars, ReplayStart, PlanEnd, PlanCycles, TrainEnd, WindowEnd, Wanted
<1>2. /\ DOMAIN replies' = DOMAIN replies \cup {q.series}
      /\ replies'[q.series] = answer
      /\ \A s \in DOMAIN replies : s # q.series => replies'[s] = replies[s]
  BY DEF Replaced
<1> QED BY <1>1, <1>2 DEF MinutesInv

\* Nobody is answered.
LEMMA MinutesSame ==
  ASSUME MinutesInv, stage' = "minutes" => stage = "minutes", UNCHANGED <<driverVars, idx, part, plan>>,
         stage = "minutes" => UNCHANGED replies, Open' = Open
  PROVE  MinutesInv'
<1>1. ReplayStart(part)' = ReplayStart(part) /\ PlanEnd(part)' = PlanEnd(part) /\ Wanted' = Wanted
  BY DEF driverVars, ReplayStart, PlanEnd, PlanCycles, TrainEnd, WindowEnd, Wanted
<1> QED BY <1>1 DEF MinutesInv

LEMMA MinutesAnswered ==
  ASSUME CacheInv, StageInv, MinutesInv, NEW c, Answer(c)
  PROVE  MinutesInv'
<1>1. /\ Reply(c) /\ UNCHANGED <<driverVars, idx, part, plan, stage>>
      /\ waiting' = waiting /\ calls' = calls \ {c} /\ c \in calls
  BY DEF Answer, Reply
<1>2. CASE c.live /\ stage = "minutes"
  <2>1. c \in Open /\ Open \ {c} \subseteq Open' /\ Open' \subseteq Open
    BY <1>1, <1>2 DEF Open, Live
  <2>2. Returned(c) \subseteq ReplayStart(part)..(PlanEnd(part) - 1)
    BY <1>2, <2>1 DEF MinutesInv, Returned, VenueStarts
  <2>3. replies' = Replaced(replies, [s \in {c.series} |-> Returned(c)])
    BY <1>1, <1>2 DEF Reply, Awaited
  <2> QED BY <1>1, <1>2, <2>1, <2>2, <2>3, MinutesReplied
<1>3. CASE ~c.live
  <2>1. c \notin waiting
    BY <1>1, RequestsAreNoCalls
  <2>2. Open' = Open /\ replies' = replies
    BY <1>1, <1>3, <2>1 DEF Open, Live, Reply, Awaited
  <2> QED BY <1>1, <2>2, MinutesSame
<1>4. CASE stage # "minutes"
  BY <1>1, <1>4 DEF MinutesInv
<1> QED BY <1>2, <1>3, <1>4

LEMMA MinutesBegun ==
  ASSUME CacheInv, MinutesInv, NEW r \in waiting, Begins(r)
  PROVE  MinutesInv'
<1>1. StartCall(r) /\ UNCHANGED <<driverVars, idx, part, plan, stage>>
  BY DEF Begins
<1> SUFFICES ASSUME stage = "minutes" PROVE MinutesInv'
  BY <1>1 DEF MinutesInv
<1>2. CASE ~r.live
  <2>1. Open' = Open /\ replies' = replies
    BY <1>1, <1>2, OrphanCalled DEF Open, Live
  <2> QED BY <1>1, <2>1, MinutesSame
<1>3. CASE r.live
  <2>5. r \notin calls
    BY RequestsAreNoCalls
  <2>1. r \in Open /\ r \notin calls /\ waiting' = waiting \ {r}
    BY <1>1, <1>3, <2>5, Called DEF Open, Live
  <2>2. r.from = ReplayStart(part) /\ r.to = PlanEnd(part)
    BY <2>1 DEF MinutesInv
  <2>3. CASE calls' = calls /\ replies' = Replaced(replies, [s \in {r.series} |-> ExpectedStarts(r)])
    <3>1. ExpectedStarts(r) \subseteq ReplayStart(part)..(PlanEnd(part) - 1)
      BY <2>2 DEF ExpectedStarts, Starts
    <3>2. Open \ {r} \subseteq Open' /\ Open' \subseteq Open
      BY <2>1, <2>3 DEF Open, Live
    <3> QED BY <1>1, <2>1, <2>3, <3>1, <3>2, MinutesReplied
  <2>4. CASE calls' = calls \cup {Call(r)} /\ replies' = replies
    <3>1. Call(r).series = r.series /\ Call(r).from = r.from /\ Call(r).to = r.to /\ Call(r).live
      BY <1>1, <1>3, Called
    <3>2. Open' = (Open \ {r}) \cup {Call(r)}
      BY <2>1, <2>4, <3>1 DEF Open, Live
    <3>3. ReplayStart(part)' = ReplayStart(part) /\ PlanEnd(part)' = PlanEnd(part) /\ Wanted' = Wanted
      BY <1>1 DEF driverVars, ReplayStart, PlanEnd, PlanCycles, TrainEnd, WindowEnd, Wanted
    <3> HIDE DEF Open
    <3> QED BY <1>1, <2>2, <2>4, <3>1, <3>2, <3>3 DEF MinutesInv
  <2> QED BY <1>1, <1>3, <2>3, <2>4, Called
<1> QED BY <1>2, <1>3

\* Every series of the plan has been answered, and no answer was refused.
LEMMA MinutesTaken ==
  ASSUME StageInv, PlanInv, TakeMinutes
  PROVE  \A s \in plan.active \cup {Btc} :
           replies[<<s, "minute">>] = Starts(ReplayStart(part), PlanEnd(part), 1)
<1>1. /\ stage = "minutes" /\ Answered /\ \A series \in DOMAIN replies : FullBuckets(series)
  BY DEF TakeMinutes, Ready
<1>2. ReplayStart(part) \in Int /\ PlanEnd(part) \in Int /\ Multiple(ReplayStart(part))
  BY <1>1, RangeTypes DEF StageInv, Busy, Fetching
<1> SUFFICES ASSUME NEW s \in plan.active \cup {Btc}
             PROVE  replies[<<s, "minute">>] = Starts(ReplayStart(part), PlanEnd(part), 1)
  OBVIOUS
<1> DEFINE R == replies[<<s, "minute">>]
<1>3. <<s, "minute">> \in DOMAIN replies
  BY <1>1 DEF PlanInv, MinutesInv, Wanted, Answered, Open
<1>4. R \in SUBSET (ReplayStart(part)..(PlanEnd(part) - 1))
  BY <1>1, <1>3 DEF PlanInv, MinutesInv
<1>5. \A bar \in Starts(ReplayStart(part), PlanEnd(part), BarMinutes) :
        Cardinality({t \in R : AlignDown(t) = bar}) = BarMinutes
  BY <1>1, <1>3 DEF FullBuckets, Bucket
<1> QED BY <1>2, <1>4, <1>5, FullRange

LEMMA PlanStart == Init => PlanInv
BY DEF Init, PlanInv, Planned, MinutesInv

LEMMA PlanSame ==
  ASSUME PlanInv, UNCHANGED <<ends, idx, part, plan>>, MinutesInv',
         stage' \in Planned => stage \in Planned,
         stage' \in Planned \ {"daily"} => stage \in Planned \ {"daily"},
         stage' \in Planned \ {"daily", "minutes"} => stage \in Planned \ {"daily", "minutes"}
  PROVE  PlanInv'
<1>1. \A s : BarsWhole(s)' = BarsWhole(s) /\ MinutesWhole(s)' = MinutesWhole(s)
  BY DEF BarsWhole, MinutesWhole, ReplayStart, HistoryStart, PlanEnd, PlanCycles, TrainEnd, WindowEnd
<1> QED BY <1>1 DEF PlanInv

LEMMA PlanOnward ==
  ASSUME StageInv, PlanInv,
         TakeBars \/ BuildReplayPlan \/ TakeMinutes \/ TakeDaily \/ TakeDominance
           \/ PrefetchRegime \/ RunFilterOn
  PROVE  PlanInv'
<1>1. UNCHANGED <<ends, idx, part>>
  BY OnwardSteps DEF Onward, driverVars
<1>2. /\ HistoryStart(part)' = HistoryStart(part) /\ ReplayStart(part)' = ReplayStart(part)
      /\ PlanEnd(part)' = PlanEnd(part)
  BY <1>1 DEF ReplayStart, HistoryStart, PlanEnd, PlanCycles, TrainEnd, WindowEnd
<1>3. CASE TakeBars
  <2>1. /\ stage' = "daily" /\ plan'.active = ActiveUniverse /\ plan'.bars = replies
    BY <1>3 DEF TakeBars
  <2>2. \A s \in plan'.active : BarsWhole(s)'
    BY <1>2, <2>1 DEF BarsWhole, ActiveUniverse, CompleteHistory
  <2> QED BY <1>1, <2>1, <2>2 DEF PlanInv, MinutesInv
<1>4. CASE BuildReplayPlan
  <2>1. stage = "daily" /\ stage' = "minutes" /\ plan' = plan /\ Aligned
    BY <1>4 DEF BuildReplayPlan, Ready
  <2>2. BarsWhole(Btc)' /\ \A s \in plan.active : BarsWhole(s)'
    BY <1>2, <2>1 DEF BarsWhole, Aligned, PlanInv, Planned
  <2> QED BY <1>1, <1>4, <2>1, <2>2, MinutesAsked DEF PlanInv
<1>5. CASE TakeMinutes
  <2>1. /\ stage = "minutes" /\ stage' = "again" /\ plan'.minutes = replies
        /\ plan'.active = plan.active /\ plan'.bars = plan.bars
    BY <1>5 DEF TakeMinutes, Ready
  <2>2. \A s \in plan'.active \cup {Btc} : BarsWhole(s)' /\ MinutesWhole(s)'
    BY <1>2, <1>5, <2>1, MinutesTaken DEF PlanInv, Planned, BarsWhole, MinutesWhole
  <2> QED BY <1>1, <2>1, <2>2 DEF PlanInv, MinutesInv
<1>6. CASE TakeDaily \/ TakeDominance \/ PrefetchRegime \/ RunFilterOn
  <2>1. /\ plan' = plan /\ stage' # "minutes"
        /\ stage \in Planned \ {"daily", "minutes"} \/ stage' \notin Planned
    BY <1>6 DEF TakeDaily, TakeDominance, PrefetchRegime, RunFilterOn, Ready, Planned
  <2> QED BY <1>1, <2>1, PlanSame DEF MinutesInv
<1> QED BY <1>3, <1>4, <1>5, <1>6

LEMMA PlanStep == CacheInv /\ StageInv /\ PlanInv /\ [Next]_vars => PlanInv'
<1> SUFFICES ASSUME CacheInv, StageInv, PlanInv, [Next]_vars PROVE PlanInv'
  OBVIOUS
<1> USE DEF Planned
<1>1. ASSUME stage' \notin Planned, UNCHANGED ends
      PROVE  PlanInv'
  BY <1>1 DEF PlanInv, MinutesInv
<1>11. ASSUME Quiet, MinutesInv'
       PROVE  PlanInv'
  BY <1>11, PlanSame DEF Quiet, driverVars
<1>2. ASSUME Quiet, Open' = Open, replies' = replies \/ stage # "minutes"
      PROVE  PlanInv'
  BY <1>2, <1>11, MinutesSame DEF Quiet, PlanInv
<1>3. CASE Abandon
  <2>1. stage' \in {"failed", "next"} /\ UNCHANGED ends
    BY <1>3 DEF Abandon, GiveUp, driverVars
  <2> QED BY <1>1, <2>1
<1>4. CASE UNCHANGED vars \/ ClockTicks
  <2>1. Quiet /\ Open' = Open /\ replies' = replies
    BY <1>4 DEF vars, cacheVars, ClockTicks, Tick, Quiet, Open, Live
  <2> QED BY <1>2, <2>1
<1>5. ASSUME NEW c \in calls, Answer(c) \/ FindsGap(c) \/ RequestFails(c)
      PROVE  PlanInv'
  <2>1. CASE Answer(c)
    <3>1. Quiet
      BY <2>1 DEF Answer, Quiet
    <3>2. MinutesInv'
      BY <2>1, MinutesAnswered DEF PlanInv
    <3> QED BY <1>11, <3>1, <3>2
  <2>2. CASE Raises(c)
    <3>1. ~c.live => Quiet /\ replies' = replies /\ calls' = calls \ {c} /\ waiting' = waiting
      BY <2>2 DEF Raises, Quiet
    <3>2. c \notin waiting
      BY RequestsAreNoCalls
    <3>3. ~c.live => Open' = Open
      BY <3>1, <3>2 DEF Open, Live
    <3> QED BY <1>2, <1>3, <2>2, <3>1, <3>3, RaisesAbandons
  <2> QED BY <1>5, <2>1, <2>2 DEF FindsGap, RequestFails
<1>6. CASE RunVariants \/ RunStep \/ RunFails
  <2>1. Quiet /\ Open' = Open /\ stage # "minutes"
    BY <1>6, RunKeeps DEF cacheVars, Open, Live
  <2> QED BY <1>2, <2>1
<1>7. CASE \E m \in Mode : Start(m)
  <2>1. PICK m \in Mode : Start(m)
    BY <1>7
  <2>2. stage' = "next" /\ ends' = WindowEndTimes(m)
    BY <2>1 DEF Start
  <2>3. \A k \in DOMAIN ends' : Multiple(ends'[k])
    BY <2>2, EndsAligned DEF CacheInv
  <2> QED BY <2>2, <2>3 DEF PlanInv, MinutesInv
<1>8. CASE Finish \/ Kill \/ SkipEpoch
  <2>1. stage' \in {"done", "killed", "next"} /\ UNCHANGED ends
    BY <1>8 DEF Finish, Kill, SkipEpoch, driverVars
  <2> QED BY <1>1, <2>1
<1>9. CASE BeginWindow \/ Prefetch \/ SelectVariant
  <2>1. stage' \in {"bars", "prices"} /\ UNCHANGED ends
    BY <1>9 DEF BeginWindow, Prefetch, SelectVariant, FetchBars, driverVars
  <2> QED BY <1>1, <2>1
<1>10. CASE TestVariant \/ RunBacktest \/ CompareFilters \/ Prefetched \/ ExportVariantRun
  <2>1. stage' = "next" /\ UNCHANGED ends
    BY <1>10, WindowEnds DEF driverVars
  <2> QED BY <1>1, <2>1
<1>12. ASSUME NEW r \in waiting, Begins(r)
       PROVE  PlanInv'
  BY <1>11, <1>12, BeginsQuietly, MinutesBegun DEF PlanInv
<1> QED BY <1>3, <1>4, <1>5, <1>12, <1>6, <1>7, <1>8, <1>9, <1>10, PlanOnward, RefusalsAbandon DEF Next

\* A backtest runs only on a plan without a hole, whatever the cache held, the venue
\* lacked, and failed or was killed while the plan was put together.
THEOREM PlansWhole == Spec => []PlanWhole
<1>1. PlanInv => PlanWhole
  BY DEF PlanInv, PlanWhole, Planned, BarsWhole, MinutesWhole
<1> QED BY <1>1, CacheStart, CacheStep, StageStart, StageStep, PlanStart, PlanStep, PTL DEF Spec

-----------------------------------------------------------------------------
\* Where the windows of a command end, and its plans.

\* No window ends later than the clock can stand or the date given; but for walks
\* and sweeps, it ends at that date.
EndInv ==
  /\ \A k \in DOMAIN ends : ends[k] <= LatestEnd
  /\ mode \notin Windowed => \A k \in DOMAIN ends : ends[k] >= 0 /\ (pinned => ends[k] = PinnedEnd)
  /\ stage \in Planned \cup {"bars"} => plan.end = PlanEnd(part) /\ (part = "train" => plan.end > 0)

LEMMA EndsBounded ==
  ASSUME NEW m \in Mode, now \in 0..MaxNow
  PROVE  \A k \in DOMAIN WindowEndTimes(m) :
           /\ WindowEndTimes(m)[k] <= LatestEnd
           /\ m \notin Windowed =>
                WindowEndTimes(m)[k] >= 0 /\ (pinned => WindowEndTimes(m)[k] = PinnedEnd)
<1>2. LatestEnd \in Nat /\ PinnedEnd \in Nat /\ PinnedEnd <= LatestEnd /\ MaxNow <= LatestEnd
  BY ParameterTypes, CacheAssumption DEF LatestEnd
<1>1. ResolveEnd \in Nat /\ ResolveEnd <= LatestEnd /\ (pinned => ResolveEnd = PinnedEnd)
  <2>1. AlignDown(now) \in Nat /\ AlignDown(now) <= now /\ now \in Nat /\ now <= MaxNow /\ MaxNow \in Nat
    BY AlignedDown, CacheAssumption
  <2> QED BY <1>2, <2>1 DEF ResolveEnd
<1>3. CASE m \notin Windowed
  BY <1>1, <1>3 DEF WindowEndTimes
<1>4. CASE m \in Windowed
  <2> DEFINE step == IF m = "walk" THEN TestCycles * BarMinutes ELSE StepMinutes
             count == (LookbackMinutes + step - 1) \div step
  <2>1. step \in Nat
    BY ParameterTypes
  <2>2. WindowEndTimes(m) = [k \in 1..count |-> ResolveEnd - (k - 1) * step]
    BY <1>4 DEF WindowEndTimes
  <2> HIDE DEF step, count
  <2>3. ASSUME NEW k \in 1..count PROVE ResolveEnd - (k - 1) * step <= LatestEnd
    <3>1. (k - 1) * step \in Nat
      BY <2>1
    <3> QED BY <1>1, <1>2, <3>1
  <2> QED BY <1>4, <2>2, <2>3
<1> QED BY <1>3, <1>4

LEMMA EndSame ==
  ASSUME EndInv, UNCHANGED <<mode, ends, pinned>>,
         stage' \in Planned \cup {"bars"} =>
           /\ plan'.end = PlanEnd(part)' /\ (part' = "train" => plan'.end > 0)
  PROVE  EndInv'
BY DEF EndInv

LEMMA EndStart == Init => EndInv
BY DEF Init, EndInv, Planned

LEMMA EndStep == CacheInv /\ StageInv /\ EndInv /\ [Next]_vars => EndInv'
<1> SUFFICES ASSUME CacheInv, StageInv, EndInv, [Next]_vars PROVE EndInv'
  OBVIOUS
<1>1. ASSUME stage' \notin Planned \cup {"bars"}, UNCHANGED driverVars
      PROVE  EndInv'
  BY <1>1, EndSame DEF driverVars
<1>2. ASSUME stage \in Planned \cup {"bars"}, UNCHANGED <<driverVars, idx, part>>, plan'.end = plan.end
      PROVE  EndInv'
  <2>1. PlanEnd(part)' = PlanEnd(part)
    BY <1>2 DEF driverVars, PlanEnd, TrainEnd, WindowEnd
  <2> QED BY <1>2, <2>1, EndSame DEF EndInv, driverVars
<1>3. CASE Quiet
  BY <1>1, <1>2, <1>3 DEF Quiet
<1>4. CASE Abandon
  <2>1. stage' \in {"failed", "next"} /\ UNCHANGED driverVars
    BY <1>4 DEF Abandon, GiveUp
  <2> QED BY <1>1, <2>1 DEF Planned
<1>5. CASE UNCHANGED vars \/ ClockTicks
  BY <1>3, <1>5 DEF vars, ClockTicks, Quiet
<1>6. ASSUME NEW c \in calls, Answer(c) \/ FindsGap(c) \/ RequestFails(c)
      PROVE  EndInv'
  BY <1>3, <1>4, <1>6, RaisesAbandons DEF Answer, FindsGap, RequestFails, Quiet
<1>7. CASE RunVariants \/ RunStep \/ RunFails \/ \E r \in waiting : Begins(r)
  BY <1>3, <1>7, RunKeeps, BeginsQuietly
<1>8. CASE \E m \in Mode : Start(m)
  <2>1. PICK m \in Mode : Start(m)
    BY <1>8
  <2>2. mode' = m /\ stage' = "next" /\ ends' = WindowEndTimes(m) /\ UNCHANGED pinned
    BY <2>1 DEF Start
  <2> QED BY <2>2, EndsBounded DEF EndInv, CacheInv, Planned
<1>9. CASE Finish \/ Kill \/ SkipEpoch \/ Prefetch \/ PrefetchRegime
  <2>1. stage' \in {"done", "killed", "next", "prices", "regime"} /\ UNCHANGED driverVars
    BY <1>9 DEF Finish, Kill, SkipEpoch, Prefetch, PrefetchRegime, StageInv
  <2> QED BY <1>1, <2>1 DEF Planned
<1>10. CASE BeginWindow
  <2>1. /\ UNCHANGED <<driverVars, idx>> /\ plan'.end = PlanEnd(part')
        /\ part' = IF mode = "walk" THEN "train" ELSE mode
        /\ mode = "walk" => TrainEnd > 0
    BY <1>10 DEF BeginWindow, FetchBars, NoPlan
  <2>2. part' = "train" => TrainEnd > 0
    BY <2>1 DEF StageInv, Mode
  <2>3. PlanEnd(part)' = PlanEnd(part')
    BY <2>1 DEF driverVars, PlanEnd, TrainEnd, WindowEnd
  <2> QED BY <2>1, <2>2, <2>3, EndSame DEF PlanEnd, driverVars
<1>11. CASE SelectVariant
  <2>1. UNCHANGED <<driverVars, idx>> /\ plan'.end = PlanEnd(part') /\ part' = "test"
    BY <1>11 DEF SelectVariant, FetchBars, NoPlan
  <2>2. PlanEnd(part)' = PlanEnd(part')
    BY <2>1 DEF driverVars, PlanEnd, TrainEnd, WindowEnd
  <2> QED BY <2>1, <2>2, EndSame DEF driverVars
<1>12. CASE TakeBars \/ BuildReplayPlan \/ TakeMinutes \/ TakeDaily \/ TakeDominance \/ RunFilterOn
  <2>1. stage \in Planned \cup {"bars"}
    BY <1>12 DEF TakeBars, BuildReplayPlan, TakeMinutes, TakeDaily, TakeDominance, RunFilterOn,
       Ready, Planned
  <2>2. UNCHANGED <<driverVars, idx, part>>
    BY <1>12, OnwardSteps DEF Onward
  <2>3. plan'.end = plan.end
    <3>1. CASE TakeBars
      BY <3>1 DEF TakeBars
    <3>2. CASE TakeMinutes
      BY <3>2 DEF TakeMinutes
    <3>3. CASE BuildReplayPlan \/ TakeDaily \/ TakeDominance \/ RunFilterOn
      BY <3>3 DEF BuildReplayPlan, TakeDaily, TakeDominance, RunFilterOn
    <3> QED BY <1>12, <3>1, <3>2, <3>3
  <2> QED BY <1>2, <2>1, <2>2, <2>3
<1>13. CASE TestVariant \/ RunBacktest \/ CompareFilters \/ Prefetched \/ ExportVariantRun
  BY <1>1, <1>13, WindowEnds DEF Planned
<1> QED BY <1>3, <1>4, <1>5, <1>6, <1>7, <1>8, <1>9, <1>10, <1>11, <1>12, <1>13, RefusalsAbandon DEF Next

-----------------------------------------------------------------------------
\* Rows and exports.

\* What a variant is run on has a result.
LEMMA BasisScored ==
  ASSUME StageInv, EndInv, stage = "variants"
  PROVE  \A i \in Index : Score[i][Basis.end] \in Int
<1>1. plan.end = PlanEnd(part) /\ (part = "train" => plan.end > 0) /\ part \in {"grid", "train"}
  BY DEF EndInv, StageInv, PartFits, Planned
<1>2. idx \in DOMAIN ends /\ ends[idx] \in Int /\ ends[idx] <= LatestEnd /\ LatestEnd \in Int
  BY ParameterTypes, CacheAssumption DEF StageInv, EndInv, Busy, LatestEnd
<1>3. part = "grid" => ends[idx] >= 0
  BY <1>2 DEF StageInv, PartFits, EndInv, Windowed, Busy, Mode
<1>4. plan.end \in 0..LatestEnd
  BY <1>1, <1>2, <1>3, ParameterTypes DEF PlanEnd, TrainEnd, WindowEnd
<1> QED BY <1>4, ScoreAssumption DEF Basis

LEMMA RunSame ==
  ASSUME RunInv, UNCHANGED runVars
  PROVE  RunInv'
<1>1. \A r : OwnRow(r)' <=> OwnRow(r)
  BY DEF OwnRow, Holds, runVars
<1>2. FileInv' /\ RowsInv'
  BY <1>1 DEF RunInv, FileInv, RowsInv, runVars
<1>3. JobInv' /\ ExportInv' /\ CheckpointInv'
  BY DEF RunInv, JobInv, ExportInv, CheckpointInv, Holds, Trades, runVars
<1>4. SeenInv'
  BY DEF RunInv, SeenInv, HasRow, Active, Unfinished, Working, With, runVars
<1> QED BY <1>2, <1>3, <1>4 DEF RunInv

LEMMA RunBegins ==
  ASSUME StageInv, EndInv, RunInv, RunVariants
  PROVE  RunInv'
<1> DEFINE keep == part = "grid"
<1>1. stage = "variants" /\ keep \in BOOLEAN
  BY DEF RunVariants
<1>2. \A i \in Index : Score[i][Basis.end] \in Int
  BY <1>1, BasisScored
<1>3. CASE BeginUnreadable(keep)
  <2>1. keep = TRUE \/ keep = FALSE
    OBVIOUS
  <2> QED BY <1>3, <2>1, PhaseKeeps
<1>4. CASE ~BeginUnreadable(keep)
  <2>1. BeginSequential(keep, Basis) \/ BeginPool(keep, Basis)
    BY <1>4 DEF RunVariants
  <2> HIDE DEF keep
  <2>2. \A next, pooled, workers :
          next \in {"sequential", "pool"} /\ Begin(keep, Basis, next, pooled, workers) => RunInv'
    BY <1>1, <1>2, BeginRun
  <2>3. CASE BeginSequential(keep, Basis)
    <3>1. Begin(keep, Basis, "sequential", FALSE, 1)
      BY <2>3 DEF BeginSequential
    <3> QED BY <2>2, <3>1
  <2>4. CASE BeginPool(keep, Basis)
    <3>1. PICK n : Begin(keep, Basis, "pool", TRUE, n)
      BY <2>4 DEF BeginPool
    <3> QED BY <2>2, <3>1
  <2> QED BY <2>1, <2>3, <2>4
<1> QED BY <1>3, <1>4

LEMMA RowsStep == StageInv /\ EndInv /\ RunInv /\ [Next]_vars => RunInv'
<1> SUFFICES ASSUME StageInv, EndInv, RunInv, [Next]_vars PROVE RunInv'
  OBVIOUS
<1>1. ASSUME UNCHANGED runVars PROVE RunInv'
  BY <1>1, RunSame
<1>2. ASSUME Leave, UNCHANGED <<file, exports>>
      PROVE  RunInv'
  BY <1>2, FileKept, RunLeft DEF RunInv
<1>3. CASE Abandon
  BY <1>1, <1>2, <1>3 DEF Abandon
<1>4. CASE UNCHANGED vars \/ ClockTicks
  BY <1>1, <1>4 DEF vars, ClockTicks
<1>5. ASSUME NEW c \in calls, Answer(c) \/ FindsGap(c) \/ RequestFails(c)
      PROVE  RunInv'
  BY <1>1, <1>3, <1>5, RaisesAbandons DEF Answer, FindsGap, RequestFails
<1>6. CASE RunVariants
  BY <1>6, RunBegins
<1>7. CASE RunStep \/ RunFails
  BY <1>7, PhaseKeeps, CollectRowKeeps, CollectFailureKeeps, TakeKeeps, ExportKeeps, CompleteKeeps,
     FailKeeps
     DEF RunStep, RunFails
<1>8. CASE \E m \in Mode : Start(m)
  BY <1>2, <1>8 DEF Start
<1>9. CASE Kill
  BY <1>9, KilledKeeps DEF Kill
<1>10. CASE ExportVariantRun
  <2>1. phase = "exporting" /\ Leave /\ UNCHANGED exports /\ file'.rows = RankVariants(rows)
    BY <1>10 DEF ExportVariantRun
  <2>2. task.keep /\ 0 \in 0..Len(rows)
    BY <2>1 DEF RunInv, CheckpointInv, RowsInv
  <2>3. FileInv'
    BY <2>1, <2>2, RowsWritten
  <2> QED BY <2>1, <2>3, RunLeft
<1>11. CASE SelectVariant
  BY <1>2, <1>11 DEF SelectVariant
<1>12. CASE BeginWindow \/ Prefetch \/ Finish \/ SkipEpoch \/ TestVariant \/ RunBacktest \/ CompareFilters
            \/ Prefetched
  BY <1>1, <1>12 DEF BeginWindow, Prefetch, Finish, SkipEpoch, TestVariant, RunBacktest, CompareFilters,
     Prefetched
<1>13. CASE Onward \/ \E r \in waiting : Begins(r)
  BY <1>1, <1>13, BeginsQuietly DEF Onward
<1> QED BY <1>3, <1>4, <1>5, <1>6, <1>7, <1>8, <1>9, <1>10, <1>11, <1>12, <1>13,
           OnwardSteps, RefusalsAbandon DEF Next

\* The directory a ranked row names holds the trades and the curve of that very row,
\* whatever variants a grid is resumed with, whichever of them fail, and wherever a
\* kill cuts it off between two files of a directory.
THEOREM RowsKeepExports == Spec => []RowsOwnExports
<1>1. Init => RunInv
  BY RunStart DEF Init
<1>2. RunInv => RowsOwnExports
  BY DEF RunInv, RowsInv, FileInv, OwnRow, Holds, RowsOwnExports
<1> QED BY <1>1, <1>2, CacheStart, CacheStep, StageStart, StageStep, EndStart, EndStep, RowsStep, PTL DEF Spec

-----------------------------------------------------------------------------
\* What a walk-forward selects.

\* Among what was trained for the window that ends at w, v is a variant that no other
\* beats, and every variant was trained.
BestIn(w, v) ==
  LET rivals == {c \in Range(candidates) : c.window = w}
      mine == {c \in rivals : c.variant = v}
  IN /\ {c.variant : c \in rivals} = Range(Variants)
     /\ \A c \in mine, r \in rivals : c.score >= r.score

Testing == stage \in Busy /\ part = "test"

\* Candidates are of windows behind, and of the present one once it is tested.
SelectInv ==
  mode = "walk" =>
    /\ \E S : candidates \in Seq(S)
    /\ \A c \in Range(candidates) : c.window \in Behind \/ ((Testing \/ stage \in Terminal) /\ c.window = WindowEnd)
    /\ Testing => BestIn(WindowEnd, chosen.name)
    /\ \A i \in DOMAIN windows : BestIn(windows[i].test[2], windows[i].variant)

LEMMA Concatenated ==
  ASSUME NEW S, NEW T, NEW p \in Seq(S), NEW q \in Seq(T)
  PROVE  (\E U : p \o q \in Seq(U)) /\ Range(p \o q) = Range(p) \cup Range(q)
<1> DEFINE U == S \cup T
           n == Len(p)
           m == Len(q)
           r == p \o q
<1>1. p \in Seq(U) /\ q \in Seq(U)
  OBVIOUS
<1> HIDE DEF U
<1>2. /\ r \in Seq(U) /\ n \in Nat /\ m \in Nat /\ DOMAIN p = 1..n /\ DOMAIN q = 1..m
      /\ DOMAIN r = 1..(n + m)
      /\ \A i \in 1..(n + m) : r[i] = IF i <= n THEN p[i] ELSE q[i - n]
  BY <1>1, ConcatProperties
<1> HIDE DEF r, n, m
<1>3. \A i \in 1..n : i \in 1..(n + m) /\ r[i] = p[i]
  BY <1>2
<1>4. \A i \in 1..m : i + n \in 1..(n + m) /\ r[i + n] = q[i]
  BY <1>2
<1>5. \A i \in 1..(n + m) : i \in 1..n \/ (i - n \in 1..m /\ r[i] = q[i - n])
  BY <1>2
<1>6. \A x : x \in Range(r) <=> x \in Range(p) \/ x \in Range(q)
  <2>1. /\ \A x : x \in Range(r) <=> \E i \in 1..(n + m) : x = r[i]
        /\ \A x : x \in Range(p) <=> \E i \in 1..n : x = p[i]
        /\ \A x : x \in Range(q) <=> \E i \in 1..m : x = q[i]
    BY <1>2 DEF Range
  <2>2. \A i \in 1..(n + m) : r[i] \in Range(p) \/ r[i] \in Range(q)
    BY <1>2, <1>5, <2>1
  <2>3. (\A i \in 1..n : p[i] \in Range(r)) /\ (\A i \in 1..m : q[i] \in Range(r))
    BY <1>3, <1>4, <2>1
  <2> QED BY <2>1, <2>2, <2>3
<1> QED BY <1>2, <1>6 DEF r

\* The present window ends before those behind.
LEMMA WindowAhead ==
  ASSUME StageInv, WindowInv, mode = "walk", idx \in DOMAIN ends
  PROVE  WindowEnd \notin Behind
<1> SUFFICES ASSUME NEW k \in 1..(idx - 1), ends[k] = ends[idx] PROVE FALSE
  BY DEF Behind, WindowEnd
<1>1. k \in DOMAIN ends /\ k < idx /\ ends[k] \in Int
  BY DEF StageInv
<1>2. ends[idx] + TestLength <= ends[k]
  BY <1>1 DEF WindowInv, Fallen
<1> QED BY <1>1, <1>2, ParameterTypes DEF TestLength

\* The window at idx is behind, tested or not.
LEMMA SelectBehind ==
  ASSUME StageInv, SelectInv, mode = "walk", idx \in DOMAIN ends,
         UNCHANGED <<mode, ends, candidates>>, idx' = idx + 1, stage' = "next",
         \A i \in DOMAIN windows' : BestIn(windows'[i].test[2], windows'[i].variant)
  PROVE  SelectInv'
<1>1. 1..(idx' - 1) = (1..(idx - 1)) \cup {idx} /\ idx \in Nat
  BY DEF StageInv
<1>2. Behind' = Behind \cup {WindowEnd}
  BY <1>1 DEF Behind, WindowEnd
<1>3. ~Testing'
  BY DEF Testing, Busy, Fetching
<1>4. \A w, v : BestIn(w, v)' <=> BestIn(w, v)
  BY DEF BestIn
<1>5. \A c \in Range(candidates) : c.window \in Behind'
  BY <1>2 DEF SelectInv
<1> QED BY <1>3, <1>4, <1>5 DEF SelectInv

LEMMA SelectSame ==
  ASSUME SelectInv, UNCHANGED <<mode, ends, idx, candidates, windows>>,
         Testing \/ stage \in Terminal => Testing' \/ stage' \in Terminal,
         Testing' => Testing /\ UNCHANGED chosen
  PROVE  SelectInv'
<1>1. Behind' = Behind /\ WindowEnd' = WindowEnd
  BY DEF Behind, WindowEnd
<1>2. \A w, v : BestIn(w, v)' <=> BestIn(w, v)
  BY DEF BestIn
<1> QED BY <1>1, <1>2 DEF SelectInv

\* The training half of a window is over: its variants become candidates.
LEMMA SelectKeeps ==
  ASSUME StageInv, WindowInv, RunInv, SelectInv, SelectVariant
  PROVE  SelectInv'
<1> SUFFICES ASSUME mode = "walk" PROVE SelectInv'
  BY DEF SelectVariant, SelectInv, driverVars
<1> DEFINE ranked == RankVariants(rows)
           row(k) == [window |-> WindowEnd, variant |-> ranked[k].name, rank |-> k, score |-> ranked[k].score]
           fresh == [k \in DOMAIN ranked |-> row(k)]
<1>1. /\ phase = "over" /\ part = "train" /\ stage = "variants" /\ stage' = "bars" /\ part' = "test"
      /\ UNCHANGED <<driverVars, idx, windows>> /\ chosen'.name = ranked[1].name
      /\ candidates' = candidates \o fresh
  BY DEF SelectVariant, FetchBars, StageInv
<1>2. ~task.keep
  BY <1>1 DEF StageInv
<1>3. /\ \E S : ranked \in Seq(S)
      /\ 1 \in DOMAIN ranked
      /\ {ranked[k].name : k \in DOMAIN ranked} = Range(Variants)
      /\ \A k, l \in DOMAIN ranked :
           ranked[k].name = ranked[1].name => ranked[k].score >= ranked[l].score
  BY <1>1, <1>2, FirstIsBest
<1> HIDE DEF ranked
<1>4. idx \in DOMAIN ends
  BY <1>1 DEF StageInv, Busy
<1>5. WindowEnd \notin Behind
  BY <1>4, WindowAhead
<1>6. Behind' = Behind /\ WindowEnd' = WindowEnd
  BY <1>1 DEF driverVars, Behind, WindowEnd
<1>7. \A c \in Range(candidates) : c.window \in Behind
  BY <1>1 DEF SelectInv, Testing, Terminal
<1>8. (\E S : candidates' \in Seq(S)) /\ Range(candidates') = Range(candidates) \cup Range(fresh)
  <2>1. PICK S : candidates \in Seq(S)
    BY DEF SelectInv
  <2>2. PICK T : fresh \in Seq(T)
    <3>1. PICK S0 : ranked \in Seq(S0)
      BY <1>3
    <3>2. Len(ranked) \in Nat /\ DOMAIN ranked = 1..Len(ranked)
      BY <3>1
    <3>3. fresh \in [1..Len(ranked) -> Range(fresh)]
      BY <3>2 DEF Range
    <3>4. \A n \in Nat : \A f, U : f \in [1..n -> U] => f \in Seq(U)
      OBVIOUS
    <3> HIDE DEF fresh
    <3> QED BY <3>2, <3>3, <3>4
  <2> HIDE DEF fresh
  <2> QED BY <1>1, <2>1, <2>2, Concatenated
<1>9. \A c : c \in Range(fresh) <=> \E k \in DOMAIN ranked : c = row(k)
  BY DEF Range
<1> HIDE DEF fresh
<1>10. ASSUME NEW w, NEW v, w \in Behind, BestIn(w, v) PROVE BestIn(w, v)'
  <2>1. \A c \in Range(fresh) : c.window # w
    BY <1>5, <1>9, <1>10
  <2>2. {c \in Range(candidates') : c.window = w} = {c \in Range(candidates) : c.window = w}
    BY <1>8, <2>1
  <2> QED BY <1>10, <2>2 DEF BestIn
<1>11. \A i \in DOMAIN windows' : BestIn(windows[i].test[2], windows[i].variant)'
  <2>1. \A i \in DOMAIN windows : windows[i].test[2] \in Behind
    BY DEF WindowInv, TestedAmong, Behind
  <2> QED BY <1>1, <1>10, <2>1 DEF SelectInv
<1>12. BestIn(WindowEnd, chosen.name)'
  <2> DEFINE rivals == {c \in Range(candidates') : c.window = WindowEnd}
             best == ranked[1].name
  <2>1. \A c : c \in rivals <=> \E k \in DOMAIN ranked : c = row(k)
    BY <1>5, <1>7, <1>8, <1>9
  <2> HIDE DEF rivals
  <2>2. \A x : x \in {c.variant : c \in rivals} <=> x \in {ranked[k].name : k \in DOMAIN ranked}
    <3>1. ASSUME NEW c \in rivals PROVE \E k \in DOMAIN ranked : c.variant = ranked[k].name
      BY <2>1
    <3>2. ASSUME NEW k \in DOMAIN ranked PROVE row(k) \in rivals /\ row(k).variant = ranked[k].name
      BY <2>1
    <3> HIDE DEF row
    <3> QED BY <3>1, <3>2
  <2>3. \A c, r \in rivals : c.variant = best => c.score >= r.score
    BY <1>3, <2>1
  <2>4. {c.variant : c \in rivals} = Range(Variants)
    BY <1>3, <2>2
  <2>5. rivals = {c \in Range(candidates') : c.window = WindowEnd'} /\ best = chosen'.name
    BY <1>1, <1>6 DEF rivals
  <2> HIDE DEF best
  <2> QED BY <2>3, <2>4, <2>5 DEF BestIn
<1>13. Testing' /\ mode' = "walk"
  BY <1>1 DEF Testing, Busy, Fetching, driverVars
<1>14. \A c \in Range(candidates') : c.window \in Behind' \/ c.window = WindowEnd'
  BY <1>6, <1>7, <1>8, <1>9
<1> QED BY <1>8, <1>11, <1>12, <1>13, <1>14 DEF SelectInv

LEMMA SelectStart == Init => SelectInv
BY DEF Init, SelectInv

LEMMA SelectStep ==
  CacheInv /\ StageInv /\ WindowInv /\ RunInv /\ SelectInv /\ [Next]_vars => SelectInv'
<1> SUFFICES ASSUME CacheInv, StageInv, WindowInv, RunInv, SelectInv, [Next]_vars PROVE SelectInv'
  OBVIOUS
<1>1. CASE Quiet
  BY <1>1, SelectSame DEF Quiet, driverVars, resultVars, Testing
<1>2. CASE Onward
  BY <1>2, SelectSame DEF Onward, driverVars, resultVars, Testing, Busy, Fetching, Terminal
<1>3. ASSUME mode # "walk", mode' = mode PROVE SelectInv'
  BY <1>3 DEF SelectInv
<1>4. CASE Abandon
  <2>1. PICK left \in SUBSET calls : GiveUp(left)
    BY <1>4 DEF Abandon
  <2>2. CASE mode = "walk"
    <3>1. /\ UNCHANGED <<mode, ends, candidates, windows>>
          /\ idx' = idx + 1 /\ stage' = "next" /\ idx \in DOMAIN ends
      BY <1>4, <2>1, <2>2 DEF GiveUp, Abandon, Windowed, driverVars, StageInv
    <3> QED BY <2>2, <3>1, SelectBehind DEF SelectInv
  <2> QED BY <1>3, <1>4, <2>2 DEF Abandon, driverVars
<1>5. CASE UNCHANGED vars \/ ClockTicks
  BY <1>1, <1>5 DEF vars, ClockTicks, Quiet
<1>6. ASSUME NEW c \in calls, Answer(c) \/ FindsGap(c) \/ RequestFails(c)
      PROVE  SelectInv'
  BY <1>1, <1>4, <1>6, RaisesAbandons DEF Answer, FindsGap, RequestFails, Quiet
<1>7. CASE RunVariants \/ RunStep \/ RunFails \/ \E r \in waiting : Begins(r)
  BY <1>1, <1>7, RunKeeps, BeginsQuietly
<1>8. CASE \E m \in Mode : Start(m)
  <2>1. /\ stage' = "next" /\ candidates' = <<>> /\ windows' = <<>>
    BY <1>8 DEF Start
  <2> QED BY <2>1, EmptyRows DEF SelectInv, Testing, Busy, Fetching
<1>9. CASE Finish \/ Kill
  <2>1. UNCHANGED <<mode, ends, idx, candidates, windows>> /\ stage' \in Terminal
    BY <1>9 DEF Finish, Kill, driverVars, resultVars, Terminal
  <2> QED BY <2>1, SelectSame DEF Testing, Busy, Fetching, Terminal
<1>10. CASE BeginWindow \/ Prefetch
  <2>1. /\ UNCHANGED <<mode, ends, idx, candidates, windows, chosen>> /\ stage = "next"
        /\ mode = "walk" => part' = "train"
    BY <1>10 DEF BeginWindow, Prefetch, FetchBars, driverVars, resultVars
  <2>2. CASE mode = "walk"
    BY <2>1, <2>2, SelectSame DEF Testing, Busy, Fetching, Terminal
  <2> QED BY <1>3, <2>1, <2>2
<1>11. CASE SelectVariant
  BY <1>11, SelectKeeps
<1>12. CASE SkipEpoch
  <2>1. /\ UNCHANGED <<mode, ends, candidates, windows>> /\ mode = "walk"
        /\ idx' = idx + 1 /\ stage' = "next" /\ idx \in DOMAIN ends
    BY <1>12, WindowEnds DEF SkipEpoch, driverVars
  <2> QED BY <2>1, SelectBehind DEF SelectInv
<1>13. CASE TestVariant
  <2> DEFINE w == [variant |-> chosen.name, train |-> chosen.train, test |-> Span("test")]
  <2>1. /\ UNCHANGED <<mode, ends, candidates>> /\ windows' = Append(windows, w)
        /\ idx' = idx + 1 /\ stage' = "next" /\ idx \in DOMAIN ends /\ stage = "test" /\ part = "test"
    BY <1>13, WindowEnds DEF TestVariant, driverVars
  <2>2. w.test[2] = WindowEnd /\ w.variant = chosen.name
    BY DEF Span, PlanEnd
  <2> HIDE DEF w
  <2>3. CASE mode = "walk"
    <3>1. PICK S : windows \in Seq(S)
      BY <2>3 DEF WindowInv
    <3>2. \A i \in DOMAIN windows' :
            (i \in DOMAIN windows /\ windows'[i] = windows[i]) \/ windows'[i] = w
      BY <2>1, <3>1, Grown
    <3>3. BestIn(WindowEnd, chosen.name)
      BY <2>1, <2>3 DEF SelectInv, Testing, Busy
    <3>4. \A i \in DOMAIN windows' : BestIn(windows'[i].test[2], windows'[i].variant)
      BY <2>2, <2>3, <3>2, <3>3 DEF SelectInv
    <3> QED BY <2>1, <2>3, <3>4, SelectBehind
  <2> QED BY <1>3, <2>1, <2>3
<1>14. CASE RunBacktest \/ CompareFilters \/ Prefetched \/ ExportVariantRun
  <2>1. mode # "walk" /\ mode' = mode
    <3>1. CASE ExportVariantRun
      <4>1. stage = "variants" /\ part = "grid" /\ mode' = mode
        BY <3>1 DEF ExportVariantRun, StageInv, driverVars
      <4> QED BY <4>1 DEF StageInv, PartFits, Busy
    <3>2. CASE RunBacktest \/ CompareFilters \/ Prefetched
      BY <3>2 DEF RunBacktest, CompareFilters, Prefetched, Ready, StageInv, PartFits, Busy, Fetching, driverVars
    <3> QED BY <1>14, <3>1, <3>2
  <2> QED BY <1>3, <2>1
<1> QED BY <1>2, <1>4, <1>5, <1>6, <1>7, <1>8, <1>9, <1>10, <1>11, <1>12, <1>13, <1>14,
           OnwardSteps, RefusalsAbandon DEF Next

\* The variant a window is tested with was beaten by none in training, and none was left
\* out, in whatever order a pool of any size brings their rows and whatever is skipped.
THEOREM BestIsSelected == Spec => []SelectedIsBest
<1>1. Init => RunInv
  BY RunStart DEF Init
<1>2. SelectInv => SelectedIsBest
  BY DEF SelectInv, SelectedIsBest, BestIn
<1> QED BY <1>1, <1>2, CacheStart, CacheStep, StageStart, StageStep, EndStart, EndStep, RowsStep,
           WindowStart, WindowStep, SelectStart, SelectStep, PTL DEF Spec

-----------------------------------------------------------------------------
\* Bars, and the universe a pinned grid runs on.

\* The bars of s that the venue has in a range.
Genuine(s, from, to) ==
  {t \in Starts(from, to, BarMinutes) : t >= 0 /\ t \notin absent[<<s, "bar">>]}

\* The cache holds nothing but what the venue has.
GenuineInv ==
  \A s \in Series : \A t \in DOMAIN cache[s] : t \in Nat /\ t % Width[s] = 0 /\ t \notin absent[s]

\* If the last bar had closed when the bars were asked for, they are judged by clocks
\* from then on, and each answer is all that the venue has.
BarsInv ==
  stage = "bars" /\ plan.settled =>
    /\ PlanEnd(part) <= now
    /\ \A q \in Open : q.from = HistoryStart(part) /\ q.to = PlanEnd(part)
                        /\ \E s \in Tracked : q.series = <<s, "bar">>
    /\ \A c \in Live(calls) : PlanEnd(part) <= c.noted
    /\ \A s \in Tracked :
         IF <<s, "bar">> \in DOMAIN replies
           THEN replies[<<s, "bar">>] = Genuine(s, HistoryStart(part), PlanEnd(part))
           ELSE \E q \in Open : q.series = <<s, "bar">>

LEMMA Steps ==
  ASSUME NEW a \in Int, Multiple(a), NEW t \in Int
  PROVE  (t - a) % BarMinutes = 0 <=> t % BarMinutes = 0
<1>1. Multiple(t - a) <=> Multiple(t)
  <2>1. Multiple(t) => Multiple(t - a)
    BY Multiples
  <2>2. Multiple(t - a) => Multiple((t - a) + a)
    BY Multiples
  <2>3. (t - a) + a = t
    OBVIOUS
  <2> QED BY <2>1, <2>2, <2>3
<1> DEFINE d == t - a
<1>2. d \in Int /\ (Multiple(d) <=> Multiple(t))
  BY <1>1
<1> HIDE DEF d
<1>3. d % BarMinutes = 0 <=> t % BarMinutes = 0
  BY <1>2, Multiples
<1> QED BY <1>3 DEF d

\* Every bar of a range has closed when the range is over.
LEMMA BarsClose ==
  ASSUME NEW from \in Int, Multiple(from), NEW to \in Int, Multiple(to),
         NEW t \in Starts(from, to, BarMinutes)
  PROVE  t \in Int /\ t + BarMinutes <= to
<1>1. t \in Int /\ t < to /\ (t - from) % BarMinutes = 0
  BY DEF Starts
<1>2. Multiple(t)
  BY <1>1, Steps, Multiples
<1>3. PICK k \in Int : t = k * BarMinutes
  BY <1>2 DEF Multiple
<1>4. PICK l \in Int : to = l * BarMinutes
  BY DEF Multiple
<1>5. k < l
  BY <1>1, <1>3, <1>4, ParameterTypes
<1>6. (k + 1) * BarMinutes <= l * BarMinutes /\ (k + 1) * BarMinutes = k * BarMinutes + BarMinutes
  BY <1>5, ParameterTypes
<1> QED BY <1>1, <1>3, <1>4, <1>6

LEMMA HitGenuine ==
  ASSUME CacheInv, GenuineInv, NEW s \in Tracked, NEW r, r.series = <<s, "bar">>, Hit(r),
         r.from \in Int, Multiple(r.from), r.to \in Int, Multiple(r.to), r.to <= now
  PROVE  ExpectedStarts(r) = Genuine(s, r.from, r.to)
<1>1. Width[r.series] = BarMinutes /\ r.series \in Series
  BY SeriesAssumption
<1>2. \A t \in Starts(r.from, r.to, BarMinutes) : t + BarMinutes <= now
  <2> SUFFICES ASSUME NEW t \in Starts(r.from, r.to, BarMinutes) PROVE t + BarMinutes <= now
    OBVIOUS
  <2>1. t \in Int /\ t + BarMinutes <= r.to
    BY BarsClose
  <2> QED BY <2>1, ParameterTypes DEF CacheInv
<1>3. ExpectedStarts(r) = Starts(r.from, r.to, BarMinutes)
  BY <1>1, <1>2 DEF ExpectedStarts
<1>4. \A t \in CachedStarts(r) : t >= 0 /\ t \notin absent[<<s, "bar">>]
  BY <1>1 DEF CachedStarts, GenuineInv
<1>5. ExpectedStarts(r) = {} \/ ExpectedStarts(r) = CachedStarts(r)
  BY DEF Hit
<1> QED BY <1>3, <1>4, <1>5 DEF Genuine

LEMMA ReturnedGenuine ==
  ASSUME CacheInv, NEW c \in calls, NEW s \in Tracked, c.series = <<s, "bar">>,
         c.from \in Int, Multiple(c.from), c.to \in Int, Multiple(c.to), c.to <= c.noted
  PROVE  Returned(c) = Genuine(s, c.from, c.to)
<1>1. Width[c.series] = BarMinutes /\ c.noted \in Int /\ c.noted <= now /\ now \in Nat
  BY SeriesAssumption DEF CacheInv, IsCall
<1>2. \A t : t \in Returned(c) <=>
         t \in (c.from)..(c.to - 1) /\ t \in 0..now /\ t % BarMinutes = 0 /\ t \notin absent[<<s, "bar">>]
           /\ t + BarMinutes <= c.noted
  BY <1>1 DEF Returned, VenueStarts
<1>3. \A t : t \in Genuine(s, c.from, c.to) <=>
         t \in (c.from)..(c.to - 1) /\ (t - c.from) % BarMinutes = 0 /\ t >= 0 /\ t \notin absent[<<s, "bar">>]
  BY DEF Genuine, Starts
<1>4. \A t \in (c.from)..(c.to - 1) : (t - c.from) % BarMinutes = 0 <=> t % BarMinutes = 0
  BY Steps
<1>5. ASSUME NEW t \in Genuine(s, c.from, c.to) PROVE t \in 0..now /\ t + BarMinutes <= c.noted
  <2>1. t \in Int /\ t + BarMinutes <= c.to /\ t >= 0
    BY BarsClose DEF Genuine
  <2>2. t <= t + BarMinutes
    BY <2>1, ParameterTypes
  <2> QED BY <1>1, <2>1, <2>2, ParameterTypes
<1>6. \A t : t \in Returned(c) <=> t \in Genuine(s, c.from, c.to)
  BY <1>2, <1>3, <1>4, <1>5
<1> QED BY <1>6

\* The cache changes by answers of the venue only, and what the venue lacks does not.
LEMMA CacheChanges ==
  ASSUME [Next]_vars
  PROVE  absent' = absent /\ (cache' = cache \/ \E c \in calls : Reply(c))
<1>1. CASE UNCHANGED cacheVars
  BY <1>1 DEF cacheVars
<1>2. ASSUME NEW requests, Ask(requests)
      PROVE  UNCHANGED <<absent, cache>>
  BY <1>2 DEF Ask
<1>3. ASSUME NEW left, GiveUp(left)
      PROVE  UNCHANGED <<absent, cache>>
  BY <1>3 DEF GiveUp
<1>4. ASSUME NEW c \in calls, Answer(c) \/ FindsGap(c) \/ RequestFails(c)
      PROVE  absent' = absent /\ (cache' = cache \/ \E d \in calls : Reply(d))
  BY <1>3, <1>4 DEF Answer, Reply, FindsGap, RequestFails, Raises
<1>5. CASE RefuseUniverse \/ RefuseAlignment \/ RefuseMinutes \/ VariantsRaised \/ BacktestFails
  BY <1>3, <1>5 DEF RefuseUniverse, RefuseAlignment, RefuseMinutes, VariantsRaised, BacktestFails
<1>6. CASE BeginWindow \/ TakeBars \/ BuildReplayPlan \/ TakeMinutes \/ TakeDaily
           \/ Prefetch \/ PrefetchRegime \/ SelectVariant
  BY <1>2, <1>6 DEF BeginWindow, FetchBars, TakeBars, BuildReplayPlan, TakeMinutes, TakeDaily,
                    Prefetch, PrefetchRegime, SelectVariant
<1>7. CASE Finish \/ Kill \/ ClockTicks
  BY <1>7 DEF Finish, Kill, ClockTicks, Tick
<1>8. CASE (\E m \in Mode : Start(m)) \/ SkipEpoch \/ TakeDominance \/ Prefetched \/ RunVariants
           \/ RunStep \/ RunFails \/ ExportVariantRun \/ TestVariant \/ RunBacktest
           \/ RunFilterOn \/ CompareFilters \/ UNCHANGED vars
  BY <1>1, <1>8 DEF Start, SkipEpoch, TakeDominance, Prefetched, RunVariants, RunStep, RunFails,
     ExportVariantRun, TestVariant, RunBacktest, RunFilterOn, CompareFilters, vars
<1>9. ASSUME NEW r \in waiting, Begins(r)
      PROVE  UNCHANGED <<absent, cache>>
  BY <1>9 DEF Begins, StartCall
<1> QED BY <1>4, <1>5, <1>6, <1>7, <1>8, <1>9 DEF Next

LEMMA GenuineStart == Init => GenuineInv
BY DEF Init, CacheInit, GenuineInv

LEMMA GenuineStep == CacheInv /\ GenuineInv /\ [Next]_vars => GenuineInv'
<1> SUFFICES ASSUME CacheInv, GenuineInv, [Next]_vars PROVE GenuineInv'
  OBVIOUS
<1>1. absent' = absent /\ (cache' = cache \/ \E c \in calls : Reply(c))
  BY CacheChanges
<1>2. ASSUME NEW c, Reply(c) PROVE GenuineInv'
  <2> DEFINE fresh == [t \in Returned(c) |-> t + Width[c.series] <= now]
  <2>1. cache' = [cache EXCEPT ![c.series] = Replaced(cache[c.series], fresh)]
    BY <1>2 DEF Reply
  <2>2. ASSUME NEW s \in Series, NEW t \in DOMAIN cache'[s]
        PROVE  t \in DOMAIN cache[s] \/ (s = c.series /\ t \in Returned(c))
    BY <2>1 DEF Replaced, CacheInv
  <2>3. \A t \in Returned(c) : t \in Nat /\ t % Width[c.series] = 0 /\ t \notin absent[c.series]
    BY DEF Returned, VenueStarts, CacheInv
  <2> QED BY <1>1, <2>2, <2>3 DEF GenuineInv
<1> QED BY <1>1, <1>2 DEF GenuineInv

LEMMA BarsAsked ==
  ASSUME StageInv, PlanInv, idx \in DOMAIN ends, stage \notin Fetching, now \in Int,
         NEW p, FetchBars(p), UNCHANGED <<ends, idx>>
  PROVE  BarsInv'
<1> DEFINE from == HistoryStart(p)
           to == PlanEnd(p)
           requests == Bars(Tracked, from, to)
<1>1. /\ Ask(requests) /\ part' = p /\ now' = now /\ Answered
      /\ plan'.settled <=> to <= now
  BY DEF FetchBars, Ask, StageInv, NoPlan
<1>2. HistoryStart(part)' = from /\ PlanEnd(part)' = to
  BY <1>1 DEF HistoryStart, ReplayStart, PlanEnd, PlanCycles, TrainEnd, WindowEnd
<1> HIDE DEF from, to
<1>3. Open' = requests /\ DOMAIN replies' = {} /\ Live(calls') = {}
  BY <1>1, Asked, AreRequests
<1>4. \A s : LET q == Request(<<s, "bar">>, from, to) IN
             q.series = <<s, "bar">> /\ q.from = from /\ q.to = to
  BY DEF Request
<1>5. /\ \A q \in requests : q.from = from /\ q.to = to /\ \E s \in Tracked : q.series = <<s, "bar">>
      /\ \A s \in Tracked : \E q \in requests : q.series = <<s, "bar">>
  BY <1>4 DEF Bars
<1> HIDE DEF requests
<1>6. plan'.settled => to <= now'
  BY <1>1
<1> QED BY <1>2, <1>3, <1>5, <1>6 DEF BarsInv

\* Nothing a call is judged by changes while bars are fetched.
LEMMA RangeSame ==
  ASSUME UNCHANGED <<driverVars, idx, part, absent>>
  PROVE  /\ HistoryStart(part)' = HistoryStart(part) /\ PlanEnd(part)' = PlanEnd(part)
         /\ \A s : Genuine(s, HistoryStart(part), PlanEnd(part))'
                     = Genuine(s, HistoryStart(part), PlanEnd(part))
<1>1. HistoryStart(part)' = HistoryStart(part) /\ PlanEnd(part)' = PlanEnd(part)
  BY DEF driverVars, HistoryStart, ReplayStart, PlanEnd, PlanCycles, TrainEnd, WindowEnd
<1> QED BY <1>1 DEF Genuine

\* All that the venue has takes the place of q.
LEMMA BarsReplied ==
  ASSUME BarsInv, stage = "bars", plan.settled, UNCHANGED <<driverVars, idx, part, plan, absent, now>>,
         NEW q \in Open, NEW s \in Tracked, q.series = <<s, "bar">>,
         Open \ {q} \subseteq Open', Open' \subseteq Open, Live(calls') \subseteq Live(calls),
         replies' = Replaced(replies, [u \in {q.series} |->
                                         Genuine(s, HistoryStart(part), PlanEnd(part))])
  PROVE  BarsInv'
<1> DEFINE whole(u) == Genuine(u, HistoryStart(part), PlanEnd(part))
<1>1. /\ HistoryStart(part)' = HistoryStart(part) /\ PlanEnd(part)' = PlanEnd(part)
      /\ \A u : Genuine(u, HistoryStart(part), PlanEnd(part))' = whole(u)
  BY RangeSame
<1>2. /\ DOMAIN replies' = DOMAIN replies \cup {<<s, "bar">>}
      /\ replies'[<<s, "bar">>] = whole(s)
      /\ \A u \in DOMAIN replies : u # <<s, "bar">> => replies'[u] = replies[u]
  BY DEF Replaced
<1> HIDE DEF whole
<1>3. ASSUME NEW u \in Tracked
      PROVE  IF <<u, "bar">> \in DOMAIN replies' THEN replies'[<<u, "bar">>] = whole(u)
             ELSE \E d \in Open' : d.series = <<u, "bar">>
  <2>1. CASE u = s
    BY <1>2, <2>1
  <2>2. CASE u # s
    <3>1. <<u, "bar">> # <<s, "bar">>
      BY <2>2
    <3>2. <<u, "bar">> \in DOMAIN replies' <=> <<u, "bar">> \in DOMAIN replies
      BY <1>2, <3>1
    <3>3. CASE <<u, "bar">> \in DOMAIN replies
      BY <1>2, <3>1, <3>2, <3>3 DEF BarsInv, whole
    <3>4. CASE <<u, "bar">> \notin DOMAIN replies
      <4>1. PICK d \in Open : d.series = <<u, "bar">>
        BY <3>4 DEF BarsInv
      <4> QED BY <3>1, <3>2, <3>4, <4>1
    <3> QED BY <3>3, <3>4
  <2> QED BY <2>1, <2>2
<1> QED BY <1>1, <1>3 DEF BarsInv

LEMMA BarsSame ==
  ASSUME StageInv, PlanInv, BarsInv, now \in Int, UNCHANGED <<driverVars, stage, idx, part, plan>>,
         stage = "bars" => /\ UNCHANGED <<replies, absent>> /\ now' \in {now, now + 1}
                           /\ Open' = Open /\ Live(calls') \subseteq Live(calls)
  PROVE  BarsInv'
<1> SUFFICES ASSUME stage = "bars", plan.settled PROVE BarsInv'
  BY DEF BarsInv
<1>1. /\ HistoryStart(part)' = HistoryStart(part) /\ PlanEnd(part)' = PlanEnd(part)
      /\ \A s : Genuine(s, HistoryStart(part), PlanEnd(part))'
                  = Genuine(s, HistoryStart(part), PlanEnd(part))
  BY RangeSame
<1>2. PlanEnd(part) <= now' /\ replies' = replies /\ Open' = Open /\ Live(calls') \subseteq Live(calls)
  <2>1. PlanEnd(part) <= now /\ (now' = now \/ now' = now + 1)
    BY DEF BarsInv
  <2>3. PlanEnd(part) \in Int
    BY RangeTypes DEF StageInv, Busy, Fetching
  <2>2. PlanEnd(part) <= now'
    BY <2>1, <2>3
  <2> QED BY <2>2
<1> QED BY <1>1, <1>2 DEF BarsInv

LEMMA BarsAnswered ==
  ASSUME CacheInv, StageInv, PlanInv, BarsInv, NEW c, Answer(c)
  PROVE  BarsInv'
<1>1. /\ Reply(c) /\ UNCHANGED <<driverVars, stage, idx, part, plan, now, absent>>
      /\ c \in calls /\ calls' = calls \ {c} /\ waiting' = waiting
  BY DEF Answer, Reply
<1>2. Live(calls') \subseteq Live(calls) /\ c \notin waiting /\ now \in Int
  BY <1>1, RequestsAreNoCalls DEF Live, CacheInv
<1>3. CASE ~c.live
  <2>1. replies' = replies /\ Open' = Open
    BY <1>1, <1>2, <1>3 DEF Reply, Awaited, Open, Live
  <2> QED BY <1>1, <1>2, <2>1, BarsSame
<1>4. CASE ~(stage = "bars" /\ plan.settled)
  BY <1>1, <1>4 DEF BarsInv
<1>5. CASE c.live /\ stage = "bars" /\ plan.settled
  <2>1. c \in Open /\ c \in Live(calls)
    BY <1>1, <1>5 DEF Open, Live
  <2>2. PICK s \in Tracked : c.series = <<s, "bar">>
    BY <1>5, <2>1 DEF BarsInv
  <2>3. c.from = HistoryStart(part) /\ c.to = PlanEnd(part) /\ PlanEnd(part) <= c.noted
    BY <1>5, <2>1 DEF BarsInv
  <2>4. idx \in DOMAIN ends
    BY <1>5 DEF StageInv, Busy, Fetching
  <2>5. /\ HistoryStart(part) \in Int /\ Multiple(HistoryStart(part))
        /\ PlanEnd(part) \in Int /\ Multiple(PlanEnd(part))
    BY <2>4, RangeTypes
  <2>6. Returned(c) = Genuine(s, HistoryStart(part), PlanEnd(part))
    BY <1>1, <2>2, <2>3, <2>5, ReturnedGenuine
  <2>7. Open \ {c} \subseteq Open' /\ Open' \subseteq Open
    BY <1>1 DEF Open, Live
  <2>8. replies' = Replaced(replies, [u \in {c.series} |-> Returned(c)])
    BY <1>1, <1>5 DEF Reply, Awaited
  <2> QED BY <1>1, <1>2, <1>5, <2>1, <2>2, <2>6, <2>7, <2>8, BarsReplied
<1> QED BY <1>3, <1>4, <1>5

LEMMA BarsBegun ==
  ASSUME CacheInv, StageInv, PlanInv, GenuineInv, BarsInv, NEW r \in waiting, Begins(r)
  PROVE  BarsInv'
<1>1. StartCall(r) /\ UNCHANGED <<driverVars, stage, idx, part, plan>> /\ now \in Int
  BY DEF Begins, CacheInv
<1>2. CASE ~r.live
  <2>1. UNCHANGED <<now, absent, replies>> /\ Open' = Open /\ Live(calls') = Live(calls)
    BY <1>1, <1>2, OrphanCalled DEF Open, Live
  <2> QED BY <1>1, <2>1, BarsSame
<1>3. CASE ~(stage = "bars" /\ plan.settled)
  BY <1>1, <1>3 DEF BarsInv
<1>4. CASE r.live /\ stage = "bars" /\ plan.settled
  <2>1. /\ r \in Open /\ r \notin calls /\ waiting' = waiting \ {r}
        /\ UNCHANGED <<now, absent>>
    BY <1>1, <1>4, RequestsAreNoCalls, Called DEF Open, Live
  <2>2. PICK s \in Tracked : r.series = <<s, "bar">>
    BY <1>4, <2>1 DEF BarsInv
  <2>3. r.from = HistoryStart(part) /\ r.to = PlanEnd(part) /\ PlanEnd(part) <= now
    BY <1>4, <2>1 DEF BarsInv
  <2>4. idx \in DOMAIN ends
    BY <1>4 DEF StageInv, Busy, Fetching
  <2>5. /\ HistoryStart(part) \in Int /\ Multiple(HistoryStart(part))
        /\ PlanEnd(part) \in Int /\ Multiple(PlanEnd(part))
    BY <2>4, RangeTypes
  <2>6. CASE /\ Hit(r) /\ UNCHANGED calls
             /\ replies' = Replaced(replies, [u \in {r.series} |-> ExpectedStarts(r)])
    <3>1. ExpectedStarts(r) = Genuine(s, HistoryStart(part), PlanEnd(part))
      BY <2>2, <2>3, <2>5, <2>6, HitGenuine
    <3>2. Open \ {r} \subseteq Open' /\ Open' \subseteq Open /\ Live(calls') \subseteq Live(calls)
      BY <2>1, <2>6 DEF Open, Live
    <3> QED BY <1>1, <1>4, <2>1, <2>2, <2>6, <3>1, <3>2, BarsReplied
  <2>7. CASE calls' = calls \cup {Call(r)} /\ UNCHANGED replies
    <3>1. /\ Call(r).series = r.series /\ Call(r).from = r.from /\ Call(r).to = r.to
          /\ Call(r).live /\ Call(r).noted = now
      BY <1>1, <1>4, Called
    <3>2. Open' = (Open \ {r}) \cup {Call(r)} /\ Live(calls') = Live(calls) \cup {Call(r)}
      BY <2>1, <2>7, <3>1 DEF Open, Live
    <3>3. /\ HistoryStart(part)' = HistoryStart(part) /\ PlanEnd(part)' = PlanEnd(part)
          /\ \A u : Genuine(u, HistoryStart(part), PlanEnd(part))'
                      = Genuine(u, HistoryStart(part), PlanEnd(part))
      BY <1>1, <2>1, RangeSame
    <3>4. \A u : (\E q \in Open : q.series = u) => \E q \in Open' : q.series = u
      BY <3>1, <3>2
    <3>5. \A q \in Open' : q.from = HistoryStart(part) /\ q.to = PlanEnd(part)
                            /\ \E u \in Tracked : q.series = <<u, "bar">>
      BY <1>4, <2>2, <2>3, <3>1, <3>2 DEF BarsInv
    <3>6. \A c \in Live(calls') : PlanEnd(part) <= c.noted
      BY <1>4, <2>3, <3>1, <3>2 DEF BarsInv
    <3> QED BY <1>1, <1>4, <2>1, <2>7, <3>3, <3>4, <3>5, <3>6 DEF BarsInv
  <2> QED BY <1>1, <1>4, <2>6, <2>7, Called
<1> QED BY <1>2, <1>3, <1>4

LEMMA BarsStart == Init => BarsInv
BY DEF Init, BarsInv

LEMMA BarsStep ==
  CacheInv /\ StageInv /\ PlanInv /\ GenuineInv /\ BarsInv /\ [Next]_vars => BarsInv'
<1> SUFFICES ASSUME CacheInv, StageInv, PlanInv, GenuineInv, BarsInv, [Next]_vars PROVE BarsInv'
  OBVIOUS
<1>1. ASSUME stage' # "bars" PROVE BarsInv'
  BY <1>1 DEF BarsInv
<1>2. ASSUME Quiet, Open' = Open, Live(calls') \subseteq Live(calls),
             (replies' = replies /\ UNCHANGED absent /\ now' \in {now, now + 1}) \/ stage # "bars"
      PROVE  BarsInv'
  BY <1>2, BarsSame DEF Quiet, CacheInv
<1>3. CASE Abandon
  <2>1. stage' \in {"failed", "next"}
    BY <1>3 DEF Abandon, GiveUp
  <2> QED BY <1>1, <2>1
<1>4. CASE UNCHANGED vars \/ ClockTicks
  <2>1. /\ Quiet /\ Open' = Open /\ Live(calls') = Live(calls)
        /\ replies' = replies /\ absent' = absent /\ now' \in {now, now + 1}
    BY <1>4 DEF vars, cacheVars, ClockTicks, Tick, Quiet, Open, Live
  <2> QED BY <1>2, <2>1
<1>5. ASSUME NEW c \in calls, Answer(c) \/ FindsGap(c) \/ RequestFails(c)
      PROVE  BarsInv'
  <2>1. CASE Answer(c)
    BY <2>1, BarsAnswered
  <2>2. CASE Raises(c)
    <3>1. ~c.live => Quiet /\ UNCHANGED <<replies, absent, now, waiting>> /\ calls' = calls \ {c}
      BY <2>2 DEF Raises, Quiet
    <3>2. c \notin waiting
      BY RequestsAreNoCalls
    <3>3. ~c.live => Open' = Open /\ Live(calls') \subseteq Live(calls)
      BY <3>1, <3>2 DEF Open, Live
    <3> QED BY <1>2, <1>3, <2>2, <3>1, <3>3, RaisesAbandons
  <2> QED BY <1>5, <2>1, <2>2 DEF FindsGap, RequestFails
<1>6. CASE RunVariants \/ RunStep \/ RunFails
  <2>1. Quiet /\ Open' = Open /\ Live(calls') = Live(calls) /\ stage # "bars"
    BY <1>6, RunKeeps DEF cacheVars, Open, Live
  <2> QED BY <1>2, <2>1
<1>7. CASE BeginWindow
  <2>1. PICK p : FetchBars(p)
    BY <1>7 DEF BeginWindow
  <2>2. stage \notin Fetching /\ UNCHANGED <<ends, idx>> /\ idx \in DOMAIN ends
    BY <1>7, WindowStarts DEF BeginWindow, Fetching, driverVars
  <2> QED BY <2>1, <2>2, BarsAsked DEF CacheInv
<1>8. CASE SelectVariant
  <2>1. FetchBars("test") /\ stage = "variants"
    BY <1>8 DEF SelectVariant, StageInv
  <2>2. stage \notin Fetching /\ UNCHANGED <<ends, idx>> /\ idx \in DOMAIN ends
    BY <1>8, <2>1, WindowStarts DEF Fetching, driverVars
  <2> QED BY <2>1, <2>2, BarsAsked DEF CacheInv
<1>9. CASE TakeBars \/ BuildReplayPlan \/ TakeMinutes \/ TakeDaily \/ TakeDominance
           \/ PrefetchRegime \/ RunFilterOn
  <2>1. stage' # "bars"
    BY <1>9 DEF TakeBars, BuildReplayPlan, TakeMinutes, TakeDaily, TakeDominance, PrefetchRegime, RunFilterOn
  <2> QED BY <1>1, <2>1
<1>10. CASE (\E m \in Mode : Start(m)) \/ Finish \/ Kill \/ SkipEpoch \/ Prefetch
  <2>1. stage' # "bars"
    BY <1>10 DEF Start, Finish, Kill, SkipEpoch, Prefetch
  <2> QED BY <1>1, <2>1
<1>11. CASE TestVariant \/ RunBacktest \/ CompareFilters \/ Prefetched \/ ExportVariantRun
  BY <1>1, <1>11, WindowEnds
<1>12. ASSUME NEW r \in waiting, Begins(r)
       PROVE  BarsInv'
  BY <1>12, BarsBegun
<1> QED BY <1>12, <1>3, <1>4, <1>5, <1>6, <1>7, <1>8, <1>9, <1>10, <1>11, RefusalsAbandon DEF Next

\* The universe of a grid whose end is given: the symbols that lack no bar of its range.
GridStart == PinnedEnd - GridCycles * BarMinutes - StateWindow * BarMinutes

Listed ==
  {s \in Universe : \A t \in Starts(GridStart, PinnedEnd, BarMinutes) : t >= 0 /\ t \notin absent[<<s, "bar">>]}

PinnedBasis(b) == b.end = PinnedEnd /\ (b.settled => b.active = Listed)

LEMMA GridRange ==
  ASSUME StageInv, EndInv, pinned, stage \in Busy \ {"prices", "regime"}, part = "grid"
  PROVE  PlanEnd(part) = PinnedEnd /\ HistoryStart(part) = GridStart
<1>1. mode = "grid" /\ idx \in DOMAIN ends
  BY DEF StageInv, PartFits, Busy
<1>2. WindowEnd = PinnedEnd
  BY <1>1 DEF EndInv, Windowed, WindowEnd
<1> QED BY <1>2 DEF PlanEnd, HistoryStart, ReplayStart, PlanCycles, GridStart

\* A universe whose bars were asked for when the last had closed is the one listed.
LEMMA UniverseListed ==
  ASSUME StageInv, EndInv, PlanInv, BarsInv, pinned, part = "grid", TakeBars, plan.settled
  PROVE  plan'.active = Listed
<1> DEFINE whole == Starts(GridStart, PinnedEnd, BarMinutes)
<1>1. stage = "bars" /\ Answered /\ plan'.active = ActiveUniverse
  BY DEF TakeBars, Ready
<1>2. PlanEnd(part) = PinnedEnd /\ HistoryStart(part) = GridStart
  BY <1>1, GridRange DEF Busy, Fetching
<1>3. \A s \in Universe : replies[<<s, "bar">>] = Genuine(s, GridStart, PinnedEnd)
  BY <1>1, <1>2 DEF BarsInv, Answered, Open, Tracked
<1>4. \A s : s \in ActiveUniverse <=> s \in Universe /\ Genuine(s, GridStart, PinnedEnd) = whole
  BY <1>2, <1>3 DEF ActiveUniverse, CompleteHistory
<1>5. \A s : Genuine(s, GridStart, PinnedEnd) = whole <=>
               \A t \in whole : t >= 0 /\ t \notin absent[<<s, "bar">>]
  BY DEF Genuine
<1> QED BY <1>1, <1>4, <1>5 DEF Listed

\* With an end date, every grid and every row it has or resumes ends there, and those
\* whose bars were asked for once it was over have one universe.
PlanPinned ==
  pinned /\ stage \in Planned /\ part = "grid" /\ plan.settled => plan.active = Listed

RowsPinned ==
  /\ pinned /\ task.keep => PinnedBasis(task.basis) /\ \A r \in Range(rows) : PinnedBasis(r.basis)
  /\ pinned => \A r \in Range(file.rows) : PinnedBasis(r.basis)

LEMMA PinnedStays ==
  ASSUME [Next]_vars
  PROVE  UNCHANGED <<pinned, absent>> /\ Listed' = Listed
<1>1. absent' = absent
  BY CacheChanges
<1>2. pinned' = pinned
  <2>1. CASE UNCHANGED pinned
    BY <2>1
  <2>2. CASE (\E m \in Mode : Start(m)) \/ Finish \/ SkipEpoch \/ BeginWindow \/ RefuseUniverse \/ TakeBars
             \/ RefuseAlignment \/ BuildReplayPlan \/ RefuseMinutes \/ TakeMinutes \/ TakeDaily \/ TakeDominance
    BY <2>2 DEF Start, Finish, SkipEpoch, BeginWindow, RefuseUniverse, TakeBars, RefuseAlignment,
       BuildReplayPlan, RefuseMinutes, TakeMinutes, TakeDaily, TakeDominance, driverVars
  <2>3. CASE Prefetch \/ PrefetchRegime \/ Prefetched \/ RunVariants \/ RunStep \/ RunFails \/ VariantsRaised
             \/ ExportVariantRun \/ SelectVariant \/ TestVariant \/ RunBacktest \/ RunFilterOn
    BY <2>3 DEF Prefetch, PrefetchRegime, Prefetched, RunVariants, RunStep, RunFails, VariantsRaised,
       ExportVariantRun, SelectVariant, TestVariant, RunBacktest, RunFilterOn, driverVars
  <2>4. CASE CompareFilters \/ BacktestFails \/ Kill \/ ClockTicks \/ UNCHANGED vars
             \/ \E c \in calls : Answer(c) \/ FindsGap(c) \/ RequestFails(c)
    BY <2>4 DEF CompareFilters, BacktestFails, Kill, ClockTicks, Answer, FindsGap, RequestFails, Raises,
       driverVars, vars
  <2>5. CASE \E r \in waiting : Begins(r)
    BY <2>5 DEF Begins, driverVars
  <2> QED BY <2>2, <2>3, <2>4, <2>5 DEF Next
<1> QED BY <1>1, <1>2 DEF Listed

LEMMA PlanPinnedStep ==
  CacheInv /\ StageInv /\ EndInv /\ PlanInv /\ BarsInv /\ PlanPinned /\ [Next]_vars => PlanPinned'
<1> SUFFICES ASSUME CacheInv, StageInv, EndInv, PlanInv, BarsInv, PlanPinned, [Next]_vars
             PROVE  PlanPinned'
  OBVIOUS
<1>1. UNCHANGED pinned /\ Listed' = Listed
  BY PinnedStays
<1>2. ASSUME stage' \notin Planned PROVE PlanPinned'
  BY <1>2 DEF PlanPinned
<1>3. ASSUME stage \in Planned, UNCHANGED <<part, plan>> PROVE PlanPinned'
  BY <1>1, <1>3 DEF PlanPinned
<1>4. CASE Quiet
  BY <1>2, <1>3, <1>4 DEF Quiet
<1>5. CASE Abandon
  <2>1. stage' \in {"failed", "next"}
    BY <1>5 DEF Abandon, GiveUp
  <2> QED BY <1>2, <2>1 DEF Planned
<1>6. CASE UNCHANGED vars \/ ClockTicks
  BY <1>4, <1>6 DEF vars, ClockTicks, Quiet
<1>7. ASSUME NEW c \in calls, Answer(c) \/ FindsGap(c) \/ RequestFails(c)
      PROVE  PlanPinned'
  BY <1>4, <1>5, <1>7, RaisesAbandons DEF Answer, FindsGap, RequestFails, Quiet
<1>8. CASE RunVariants \/ RunStep \/ RunFails \/ \E r \in waiting : Begins(r)
  BY <1>4, <1>8, RunKeeps, BeginsQuietly
<1>9. CASE TakeBars
  <2>1. UNCHANGED part /\ plan'.settled = plan.settled
    BY <1>9 DEF TakeBars
  <2> QED BY <1>1, <1>9, <2>1, UniverseListed DEF PlanPinned
<1>10. CASE TakeMinutes
  <2>1. plan'.active = plan.active /\ plan'.settled = plan.settled /\ stage = "minutes" /\ UNCHANGED part
    BY <1>10 DEF TakeMinutes, Ready
  <2> QED BY <1>1, <2>1 DEF PlanPinned, Planned
<1>11. CASE BuildReplayPlan \/ TakeDaily \/ TakeDominance \/ RunFilterOn
  <2>1. stage \in Planned /\ UNCHANGED <<part, plan>>
    BY <1>11 DEF BuildReplayPlan, TakeDaily, TakeDominance, RunFilterOn, Ready, Planned
  <2> QED BY <1>3, <2>1
<1>12. CASE (\E m \in Mode : Start(m)) \/ Finish \/ Kill \/ SkipEpoch \/ Prefetch \/ PrefetchRegime
            \/ BeginWindow \/ SelectVariant
  <2>1. stage' \in {"next", "done", "killed", "prices", "regime", "bars"}
    BY <1>12 DEF Start, Finish, Kill, SkipEpoch, Prefetch, PrefetchRegime, BeginWindow, SelectVariant,
       FetchBars
  <2> QED BY <1>2, <2>1 DEF Planned
<1>13. CASE TestVariant \/ RunBacktest \/ CompareFilters \/ Prefetched \/ ExportVariantRun
  BY <1>2, <1>13, WindowEnds DEF Planned
<1> QED BY <1>5, <1>6, <1>7, <1>8, <1>9, <1>10, <1>11, <1>12, <1>13, RefusalsAbandon DEF Next

\* What is in hand, and in the checkpoint, when a run is over.
LEMMA RowsPinnedLeft ==
  ASSUME RowsPinned, UNCHANGED pinned, Listed' = Listed, Leave,
         UNCHANGED file \/ (task.keep /\ Range(file'.rows) \subseteq Range(rows))
  PROVE  RowsPinned'
<1>1. ~task'.keep /\ rows' = <<>>
  BY DEF Leave, Idle
<1>2. pinned => \A r \in Range(file'.rows) : PinnedBasis(r.basis)
  BY DEF RowsPinned
<1> QED BY <1>1, <1>2 DEF RowsPinned, PinnedBasis

LEMMA RowsPinnedSame ==
  ASSUME RowsPinned, UNCHANGED pinned, Listed' = Listed, UNCHANGED <<task, rows>>,
         UNCHANGED file \/ (task.keep /\ Range(file'.rows) \subseteq Range(rows))
  PROVE  RowsPinned'
<1>1. pinned => \A r \in Range(file'.rows) : PinnedBasis(r.basis)
  BY DEF RowsPinned
<1> QED BY <1>1 DEF RowsPinned, PinnedBasis

LEMMA RowsPinnedBegin ==
  ASSUME StageInv, EndInv, PlanPinned, RowsPinned, UNCHANGED pinned, Listed' = Listed, RunVariants
  PROVE  RowsPinned'
<1> DEFINE keep == part = "grid"
<1>1. stage = "variants" /\ keep \in BOOLEAN
  BY DEF RunVariants
<1>2. pinned /\ keep => PinnedBasis(Basis)
  BY <1>1, GridRange DEF EndInv, PlanPinned, Planned, Busy, Basis, PinnedBasis
<1>3. CASE BeginUnreadable(keep)
  BY <1>3, RowsPinnedSame DEF BeginUnreadable
<1>4. CASE ~BeginUnreadable(keep)
  <2>1. BeginSequential(keep, Basis) \/ BeginPool(keep, Basis)
    BY <1>4 DEF RunVariants
  <2> HIDE DEF keep
  <2>2. task'.keep = keep /\ task'.basis = Basis /\ rows' = Loaded(keep) /\ UNCHANGED file
    <3>1. \A next, pooled, workers : Begin(keep, Basis, next, pooled, workers) => <2>2
      BY DEF Begin
    <3>2. CASE BeginSequential(keep, Basis)
      <4>1. Begin(keep, Basis, "sequential", FALSE, 1)
        BY <3>2 DEF BeginSequential
      <4> QED BY <3>1, <4>1
    <3>3. CASE BeginPool(keep, Basis)
      <4>1. PICK n : Begin(keep, Basis, "pool", TRUE, n)
        BY <3>3 DEF BeginPool
      <4> QED BY <3>1, <4>1
    <3> QED BY <2>1, <3>2, <3>3
  <2>3. keep => rows' = file.rows
    BY <2>2 DEF Loaded
  <2>4. pinned /\ task'.keep =>
          PinnedBasis(task'.basis) /\ \A r \in Range(rows') : PinnedBasis(r.basis)
    BY <1>2, <2>2, <2>3 DEF RowsPinned
  <2>5. pinned => \A r \in Range(file'.rows) : PinnedBasis(r.basis)
    BY <2>2 DEF RowsPinned
  <2> QED BY <2>4, <2>5 DEF RowsPinned, PinnedBasis
<1> QED BY <1>3, <1>4

\* A row that comes in is of the basis of its run.
LEMMA RowsPinnedRun ==
  ASSUME RunInv, RowsPinned, UNCHANGED pinned, Listed' = Listed, RunStep \/ RunFails
  PROVE  RowsPinned'
<1> USE EmptyRows
<1>1. ASSUME NEW i \in Index, Take(i) \/ ExportTrades(i) \/ Complete(i) \/ Fail(i)
      PROVE  RowsPinned'
  BY <1>1, RowsPinnedSame DEF Take, ExportTrades, Complete, Fail
<1>2. CASE CollectFailure \/ AllCollected \/ Drain
  BY <1>2, RowsPinnedSame DEF CollectFailure, AllCollected, Drain
<1>3. CASE OpenSummary
  BY <1>3, RowsPinnedSame DEF OpenSummary
<1>4. CASE WriteCheckpoint
  <2>1. /\ UNCHANGED <<task, rows, exports>> /\ file'.rows = RankVariants(rows) /\ task.keep
    BY <1>4 DEF WriteCheckpoint, RunInv, CheckpointInv
  <2>2. 0 \in 0..Len(rows)
    BY DEF RunInv, RowsInv
  <2> QED BY <2>1, <2>2, RowsWritten, RowsPinnedSame
<1>5. CASE CollectRow
  <2> DEFINE i == Head(finished)
             row == SummaryRow(i)
  <2>1. /\ finished # <<>> /\ job[i] = "done" /\ rows' = Append(rows, row) /\ task' = task
        /\ IF task.keep THEN file' = [rows |-> <<>>, torn |-> FALSE] ELSE UNCHANGED file
    BY <1>5 DEF CollectRow
  <2>2. row.basis = task.basis
    BY DEF SummaryRow
  <2> HIDE DEF row, i
  <2>4. \A r \in Range(rows') : r \in Range(rows) \/ r = row
    <3>1. PICK S : rows \in Seq(S)
      BY DEF RunInv, RowsInv
    <3>2. /\ DOMAIN Append(rows, row) = DOMAIN rows \cup {Len(rows) + 1}
          /\ Append(rows, row)[Len(rows) + 1] = row
      BY <3>1, Grown
    <3>3. \A k \in DOMAIN rows : Append(rows, row)[k] = rows[k]
      BY <3>1, Grown
    <3> QED BY <2>1, <3>2, <3>3 DEF Range
  <2>6. pinned => \A r \in Range(file'.rows) : PinnedBasis(r.basis)
    BY <2>1, EmptyRows DEF RowsPinned
  <2>5. pinned /\ task.keep => \A r \in Range(rows') : PinnedBasis(r.basis)
    BY <2>2, <2>4 DEF RowsPinned
  <2> QED BY <2>1, <2>5, <2>6 DEF RowsPinned, PinnedBasis
<1> QED BY <1>1, <1>2, <1>3, <1>4, <1>5 DEF RunStep, RunFails

LEMMA RowsPinnedStep ==
  CacheInv /\ StageInv /\ EndInv /\ RunInv /\ PlanPinned /\ RowsPinned /\ [Next]_vars => RowsPinned'
<1> SUFFICES ASSUME CacheInv, StageInv, EndInv, RunInv, PlanPinned, RowsPinned, [Next]_vars
             PROVE  RowsPinned'
  OBVIOUS
<1>1. UNCHANGED pinned /\ Listed' = Listed
  BY PinnedStays
<1>2. ASSUME UNCHANGED runVars PROVE RowsPinned'
  BY <1>1, <1>2, RowsPinnedSame DEF runVars
<1>3. CASE Abandon
  BY <1>1, <1>2, <1>3, RowsPinnedLeft DEF Abandon
<1>4. CASE UNCHANGED vars \/ ClockTicks
  BY <1>2, <1>4 DEF vars, ClockTicks
<1>5. ASSUME NEW c \in calls, Answer(c) \/ FindsGap(c) \/ RequestFails(c)
      PROVE  RowsPinned'
  BY <1>2, <1>3, <1>5, RaisesAbandons DEF Answer, FindsGap, RequestFails
<1>6. CASE RunVariants
  BY <1>1, <1>6, RowsPinnedBegin
<1>7. CASE RunStep \/ RunFails
  BY <1>1, <1>7, RowsPinnedRun
<1>8. CASE (\E m \in Mode : Start(m)) \/ SelectVariant
  <2>1. Leave /\ UNCHANGED file
    BY <1>8 DEF Start, SelectVariant
  <2> QED BY <1>1, <2>1, RowsPinnedLeft
<1>9. CASE Kill
  <2>1. Killed /\ Leave /\ UNCHANGED exports
    BY <1>9 DEF Kill, Killed
  <2>2. CASE UNCHANGED file
    BY <1>1, <2>1, <2>2, RowsPinnedLeft
  <2>3. CASE ~UNCHANGED file
    <3>1. phase \in {"rewriting", "exporting"} /\ \E n \in 0..Len(rows) : file'.rows = SubSeq(RankVariants(rows), 1, n)
      BY <2>1, <2>3 DEF Killed
    <3>2. task.keep
      BY <3>1 DEF RunInv, CheckpointInv
    <3>3. Range(file'.rows) \subseteq Range(rows)
      BY <2>1, <3>1, <3>2, RowsWritten
    <3> QED BY <1>1, <2>1, <3>2, <3>3, RowsPinnedLeft
  <2> QED BY <2>2, <2>3
<1>10. CASE ExportVariantRun
  <2>1. phase = "exporting" /\ Leave /\ UNCHANGED exports /\ file'.rows = RankVariants(rows)
    BY <1>10 DEF ExportVariantRun
  <2>2. task.keep /\ 0 \in 0..Len(rows)
    BY <2>1 DEF RunInv, CheckpointInv, RowsInv
  <2> QED BY <1>1, <2>1, <2>2, RowsWritten, RowsPinnedLeft
<1>11. CASE BeginWindow \/ Prefetch \/ Finish \/ SkipEpoch \/ TestVariant \/ RunBacktest \/ CompareFilters
            \/ Prefetched
  BY <1>2, <1>11 DEF BeginWindow, Prefetch, Finish, SkipEpoch, TestVariant, RunBacktest, CompareFilters,
     Prefetched
<1>12. CASE Onward \/ \E r \in waiting : Begins(r)
  BY <1>2, <1>12, BeginsQuietly DEF Onward
<1> QED BY <1>3, <1>4, <1>5, <1>6, <1>7, <1>8, <1>9, <1>10, <1>11, <1>12,
           OnwardSteps, RefusalsAbandon DEF Next

LEMMA PinnedFollows == RunInv /\ RowsPinned => PinnedRowsComparable
<1> SUFFICES ASSUME RunInv, RowsPinned, pinned, NEW rs \in {rows, file.rows},
                    NEW r \in Range(rs), NEW s \in Range(rs)
             PROVE  /\ r.basis.end = s.basis.end
                    /\ r.basis.settled /\ s.basis.settled => r.basis.active = s.basis.active
  BY DEF PinnedRowsComparable
<1>1. CASE rs = file.rows \/ task.keep
  BY <1>1 DEF RowsPinned, PinnedBasis
<1>2. CASE rs = rows /\ ~task.keep
  BY <1>2 DEF RunInv, RowsInv
<1> QED BY <1>1, <1>2

\* With an end date, rows that are ranked together end there, and those whose plans
\* were fetched once it was over ran on one universe, however often the grid was
\* resumed, and whatever the cache held.
THEOREM PinnedRowsCompare == Spec => []PinnedRowsComparable
<1>1. Init => RunInv /\ PlanPinned /\ RowsPinned
  <2>1. Init => PlanPinned
    BY DEF Init, PlanPinned, Planned
  <2>2. Init => RowsPinned
    BY EmptyRows DEF Init, RunInit, Idle, RowsPinned
  <2> QED BY <2>1, <2>2, RunStart DEF Init
<1> QED BY <1>1, CacheStart, CacheStep, StageStart, StageStep, EndStart, EndStep, RowsStep,
           PlanStart, PlanStep, GenuineStart, GenuineStep, BarsStart, BarsStep,
           PlanPinnedStep, RowsPinnedStep, PinnedFollows, PTL DEF Spec

-----------------------------------------------------------------------------
\* Types.

\* What is stored, is asked for or has come is of a known series.
FetchTypes ==
  /\ now \in FirstNow..MaxNow
  /\ absent \in Absences
  /\ \A s \in Series : DOMAIN cache[s] \subseteq 0..MaxNow
  /\ \A q \in waiting \cup calls : q.series \in Series /\ q.live \in BOOLEAN
  /\ DOMAIN replies \subseteq Series
  /\ plan.active \subseteq Universe /\ DOMAIN plan.bars \subseteq Series

Known(requests) == \A r \in requests : r.series \in Series /\ r.live \in BOOLEAN

LEMMA KnownRequests ==
  ASSUME NEW from, NEW to
  PROVE  /\ \A symbols \in SUBSET (Tracked \cup {Btcdom}) : Known(Bars(symbols, from, to))
         /\ \A symbols \in SUBSET Tracked : Known(Minutes(symbols, from, to))
         /\ Known(Daily(from, to)) /\ Known(Dominance(from, to))
<1>1. \A s : Request(s, from, to).series = s /\ Request(s, from, to).live \in BOOLEAN
  BY DEF Request
<1> QED BY <1>1, SeriesAssumption DEF Known, Bars, Minutes, Daily, Dominance

LEMMA FetchAsks ==
  ASSUME FetchTypes, NEW requests, Known(requests), Ask(requests),
         plan'.active \subseteq Universe, DOMAIN plan'.bars \subseteq Series
  PROVE  FetchTypes'
<1>1. waiting' = waiting \cup requests /\ DOMAIN replies' = {} /\ UNCHANGED <<now, absent, cache, calls>>
  BY DEF Ask
<1> QED BY <1>1 DEF FetchTypes, Known

LEMMA FetchBegins ==
  ASSUME FetchTypes, NEW r \in waiting, StartCall(r), UNCHANGED plan
  PROVE  FetchTypes'
<1>1. /\ waiting' = waiting \ {r} /\ calls' \subseteq calls \cup {Call(r)}
      /\ UNCHANGED <<now, absent, cache>>
      /\ UNCHANGED replies \/ Awaited(r, ExpectedStarts(r))
  BY DEF StartCall
<1>2. r.series \in Series /\ Call(r).series = r.series /\ Call(r).live = r.live /\ r.live \in BOOLEAN
  BY DEF FetchTypes, Call
<1>3. \A answer : Awaited(r, answer) => DOMAIN replies' \subseteq DOMAIN replies \cup {r.series}
  BY DEF Awaited, Replaced
<1>4. DOMAIN replies' \subseteq Series
  BY <1>1, <1>2, <1>3 DEF FetchTypes
<1> QED BY <1>1, <1>2, <1>4 DEF FetchTypes

LEMMA FetchReplies ==
  ASSUME CacheInv, FetchTypes, NEW c, Reply(c), UNCHANGED plan
  PROVE  FetchTypes'
<1> DEFINE s == c.series
           fresh == [t \in Returned(c) |-> t + Width[s] <= now]
<1>1. /\ c \in calls /\ calls' = calls \ {c} /\ UNCHANGED <<now, absent, waiting>>
      /\ cache' = [cache EXCEPT ![s] = Replaced(cache[s], fresh)]
      /\ replies' = IF c.live THEN Replaced(replies, [u \in {s} |-> Returned(c)]) ELSE replies
  BY DEF Reply, Awaited
<1>2. s \in Series
  BY <1>1 DEF FetchTypes
<1>3. Returned(c) \subseteq 0..MaxNow
  <2>1. 0..now \subseteq 0..MaxNow
    BY CacheAssumption DEF CacheInv
  <2> QED BY <2>1 DEF Returned, VenueStarts
<1>4. \A f, g : DOMAIN Replaced(f, g) = DOMAIN f \cup DOMAIN g
  BY DEF Replaced
<1>5. \A u \in Series : DOMAIN cache'[u] \subseteq 0..MaxNow
  <2>1. cache'[s] = Replaced(cache[s], fresh) /\ \A u \in Series \ {s} : cache'[u] = cache[u]
    BY <1>1, <1>2 DEF CacheInv
  <2>2. DOMAIN fresh = Returned(c)
    OBVIOUS
  <2>3. DOMAIN cache'[s] = DOMAIN cache[s] \cup Returned(c)
    BY <1>4, <2>1, <2>2
  <2> HIDE DEF fresh, s
  <2> QED BY <1>2, <1>3, <2>1, <2>3 DEF FetchTypes
<1>6. DOMAIN replies' \subseteq Series
  <2> DEFINE answer == [u \in {s} |-> Returned(c)]
  <2>1. DOMAIN answer = {s}
    OBVIOUS
  <2>2. replies' = IF c.live THEN Replaced(replies, answer) ELSE replies
    BY <1>1
  <2> HIDE DEF answer
  <2>3. DOMAIN replies' \subseteq DOMAIN replies \cup {s}
    BY <1>4, <2>1, <2>2
  <2> QED BY <1>2, <2>3 DEF FetchTypes
<1> QED BY <1>1, <1>5, <1>6 DEF FetchTypes

\* An orphan asks for what it asked for.
LEMMA OrphansSeries ==
  \A d : d.series \in Series => [d EXCEPT !.live = FALSE].series \in Series
OBVIOUS

\* No call is made and no plan is touched but by steps of these two kinds.
LEMMA FetchSame ==
  ASSUME FetchTypes, UNCHANGED <<absent, cache, plan>>,
         now' = now \/ now' \in FirstNow..MaxNow,
         replies' \in {replies, <<>>},
         calls' \subseteq calls \/ (\E left \in SUBSET calls : calls' = Orphaned(left)),
         waiting' \in {{}, waiting, Orphaned(waiting)}
  PROVE  FetchTypes'
<1>1. \A left \in SUBSET (waiting \cup calls) : \A q \in Orphaned(left) :
        q.series \in Series /\ q.live \in BOOLEAN
  <2> SUFFICES ASSUME NEW left \in SUBSET (waiting \cup calls), NEW q \in Orphaned(left)
               PROVE  q.series \in Series /\ q.live \in BOOLEAN
    OBVIOUS
  <2>1. PICK d \in left : q = [d EXCEPT !.live = FALSE]
    BY DEF Orphaned
  <2>2. d.series \in Series /\ d.live \in BOOLEAN
    BY DEF FetchTypes
  <2> QED BY <2>1, <2>2, OrphansSeries
<1>3. \A q \in waiting' \cup calls' : q.series \in Series /\ q.live \in BOOLEAN
  <2>1. \A q \in calls' : q.series \in Series /\ q.live \in BOOLEAN
    BY <1>1 DEF FetchTypes
  <2>2. \A q \in waiting' : q.series \in Series /\ q.live \in BOOLEAN
    BY <1>1 DEF FetchTypes
  <2> QED BY <2>1, <2>2
<1>2. DOMAIN replies' \subseteq Series
  BY DEF FetchTypes
<1> QED BY <1>2, <1>3 DEF FetchTypes

LEMMA FetchStart == Init => FetchTypes
BY CacheAssumption DEF Init, CacheInit, NoPlan, FetchTypes

LEMMA FetchStep == CacheInv /\ StageInv /\ FetchTypes /\ [Next]_vars => FetchTypes'
<1> SUFFICES ASSUME CacheInv, StageInv, FetchTypes, [Next]_vars PROVE FetchTypes'
  OBVIOUS
<1>1. CASE UNCHANGED <<cacheVars, plan>>
  BY <1>1, FetchSame DEF cacheVars
<1>2. CASE UNCHANGED vars \/ RunVariants \/ RunStep \/ RunFails
  BY <1>1, <1>2, RunKeeps DEF vars, Quiet
<1>3. CASE ClockTicks
  <2>1. now' \in FirstNow..MaxNow
    BY <1>3, CacheAssumption DEF ClockTicks, Tick, FetchTypes
  <2> QED BY <1>3, <2>1, FetchSame DEF ClockTicks, Tick
<1>4. CASE Abandon
  <2>1. PICK left \in SUBSET calls : GiveUp(left)
    BY <1>4 DEF Abandon
  <2>2. calls' = Orphaned(left) \/ calls' = {}
    BY <2>1 DEF GiveUp
  <2> QED BY <1>4, <2>1, <2>2, FetchSame DEF Abandon, GiveUp
<1>5. ASSUME NEW c \in calls, Answer(c) \/ FindsGap(c) \/ RequestFails(c)
      PROVE  FetchTypes'
  <2>1. CASE Answer(c)
    BY <2>1, FetchReplies DEF Answer
  <2>2. CASE Raises(c)
    <3>1. CASE c.live
      BY <1>4, <2>2, <3>1, RaisesAbandons
    <3>2. CASE ~c.live
      BY <2>2, <3>2, FetchSame DEF Raises
    <3> QED BY <3>1, <3>2
  <2> QED BY <1>5, <2>1, <2>2 DEF FindsGap, RequestFails
<1>15. ASSUME NEW r \in waiting, Begins(r)
       PROVE  FetchTypes'
  BY <1>15, FetchBegins DEF Begins
<1>6. CASE \E m \in Mode : Start(m)
  BY <1>6 DEF Start, NoPlan, FetchTypes, cacheVars
<1>7. CASE Finish \/ Kill
  BY <1>7, FetchSame DEF Finish, Kill
<1>8. CASE SkipEpoch \/ TakeDominance \/ Prefetched \/ ExportVariantRun \/ TestVariant \/ RunBacktest
           \/ RunFilterOn \/ CompareFilters
  BY <1>1, <1>8 DEF SkipEpoch, TakeDominance, Prefetched, ExportVariantRun, TestVariant, RunBacktest,
     RunFilterOn, CompareFilters
<1>9. ASSUME NEW p, FetchBars(p)
      PROVE  FetchTypes'
  <2>1. Known(Bars(Tracked, HistoryStart(p), PlanEnd(p)))
    BY KnownRequests
  <2>2. plan'.active = {} /\ DOMAIN plan'.bars = {}
    BY <1>9 DEF FetchBars, NoPlan
  <2> QED BY <1>9, <2>1, <2>2, FetchAsks DEF FetchBars
<1>10. CASE BeginWindow \/ SelectVariant
  BY <1>9, <1>10 DEF BeginWindow, SelectVariant
<1>11. CASE TakeBars
  <2>1. Ask(DailyRange) /\ Known(DailyRange)
    BY <1>11, KnownRequests DEF TakeBars, DailyRange
  <2>2. plan'.active = ActiveUniverse /\ plan'.bars = replies
    BY <1>11 DEF TakeBars
  <2> QED BY <2>1, <2>2, FetchAsks DEF ActiveUniverse, FetchTypes
<1>12. CASE BuildReplayPlan
  <2>1. plan.active \cup {Btc} \in SUBSET Tracked
    BY DEF FetchTypes, Tracked
  <2>2. UNCHANGED plan /\ Ask(Minutes(plan.active \cup {Btc}, ReplayStart(part), PlanEnd(part)))
    BY <1>12 DEF BuildReplayPlan
  <2>3. Known(Minutes(plan.active \cup {Btc}, ReplayStart(part), PlanEnd(part)))
    BY <2>1, KnownRequests
  <2> QED BY <2>2, <2>3, FetchAsks DEF FetchTypes
<1>13. CASE TakeMinutes
  <2>1. Ask(DailyRange) /\ Known(DailyRange)
    BY <1>13, KnownRequests DEF TakeMinutes, DailyRange
  <2>2. plan'.active = plan.active /\ plan'.bars = plan.bars
    BY <1>13 DEF TakeMinutes
  <2> QED BY <2>1, <2>2, FetchAsks DEF FetchTypes
<1>14. CASE TakeDaily \/ Prefetch \/ PrefetchRegime
  <2>1. \E requests : Ask(requests) /\ Known(requests)
    <3>1. \A r, q : Known(r) /\ Known(q) => Known(r \cup q)
      BY DEF Known
    <3> QED BY <1>14, <3>1, KnownRequests DEF TakeDaily, Prefetch, PrefetchRegime
  <2>2. UNCHANGED plan
    BY <1>14 DEF TakeDaily, Prefetch, PrefetchRegime
  <2> QED BY <2>1, <2>2, FetchAsks DEF FetchTypes
<1> QED BY <1>2, <1>3, <1>4, <1>5, <1>6, <1>7, <1>8, <1>10, <1>15, <1>11, <1>12, <1>13, <1>14,
           RefusalsAbandon DEF Next

\* The pool, the checkpoint and the temporary file.
PoolTypes ==
  /\ phase \in {"idle", "sequential", "pool", "rewriting", "draining", "over", "exporting", "raised"}
  /\ task.workers \in 1..Workers
  /\ snapshot \in BOOLEAN /\ file.torn \in BOOLEAN

LEMMA IdleWorkers == Idle.workers \in 1..Workers
<1>1. Idle.workers = 1
  BY DEF Idle
<1> QED BY <1>1, WorkersAssumption

LEMMA PoolTypesStart == Init => PoolTypes
<1> SUFFICES ASSUME Init PROVE PoolTypes
  OBVIOUS
<1>1. phase = "idle" /\ task = Idle /\ snapshot = FALSE /\ file = [rows |-> <<>>, torn |-> FALSE]
  BY DEF Init, RunInit
<1>2. file.torn \in BOOLEAN
  BY <1>1
<1> QED BY <1>1, <1>2, IdleWorkers DEF PoolTypes

LEMMA WorkersWithin ==
  ASSUME NEW keep
  PROVE  SafeVariantWorkerCounts(keep) \subseteq 1..Workers
<1> DEFINE pending == Cardinality(Pending(keep))
           two == {Workers, pending}
<1>1. pending \in Nat
  <2>1. Pending(keep) \subseteq Index /\ Index = 1..Len(Variants) /\ Len(Variants) \in Nat
    BY VariantsAssumption DEF Pending, Index
  <2>2. IsFiniteSet(Index)
    BY <2>1, FirstNumbers
  <2>3. IsFiniteSet(Pending(keep))
    BY <2>1, <2>2, FS_Subset
  <2> QED BY <2>3, FS_CardinalityType
<1> HIDE DEF pending
<1>2. \E m \in two : \A n \in two : m <= n
  BY <1>1, WorkersAssumption
<1>3. Min(two) \in two /\ \A n \in two : Min(two) <= n
  BY <1>2 DEF Min
<1>4. 1..Min(two) \subseteq 1..Workers
  BY <1>1, <1>3, WorkersAssumption
<1>5. SafeVariantWorkerCounts(keep) = 1..Min(two)
  BY DEF SafeVariantWorkerCounts, pending
<1> QED BY <1>4, <1>5

LEMMA PoolTypesLeft ==
  ASSUME PoolTypes, Leave, file'.torn \in BOOLEAN
  PROVE  PoolTypes'
BY IdleWorkers DEF Leave, PoolTypes

LEMMA PoolTypesRun ==
  ASSUME PoolTypes, RunVariants \/ RunStep \/ RunFails
  PROVE  PoolTypes'
<1>1. ASSUME NEW keep, NEW basis, NEW next \in {"sequential", "pool"}, NEW pooled \in BOOLEAN,
             NEW workers \in 1..Workers, Begin(keep, basis, next, pooled, workers)
      PROVE  PoolTypes'
  BY <1>1 DEF Begin, PoolTypes
<1>2. ASSUME NEW keep, BeginUnreadable(keep)
      PROVE  PoolTypes'
  BY <1>2 DEF BeginUnreadable, PoolTypes
<1>3. CASE RunVariants
  <2>1. 1 \in 1..Workers
    BY WorkersAssumption
  <2>2. ASSUME NEW keep, NEW basis,
               BeginSequential(keep, basis) \/ BeginPool(keep, basis)
        PROVE  PoolTypes'
    <3>1. CASE BeginSequential(keep, basis)
      BY <1>1, <2>1, <3>1 DEF BeginSequential
    <3>2. CASE BeginPool(keep, basis)
      <4>1. PICK workers \in SafeVariantWorkerCounts(keep) : Begin(keep, basis, "pool", TRUE, workers)
        BY <3>2 DEF BeginPool
      <4>2. workers \in 1..Workers
        BY WorkersWithin
      <4> QED BY <1>1, <4>1, <4>2
    <3> QED BY <2>2, <3>1, <3>2
  <2> QED BY <1>2, <1>3, <2>2 DEF RunVariants
<1>4. ASSUME NEW i \in Index, Take(i) \/ ExportTrades(i) \/ Complete(i) \/ Fail(i)
      PROVE  PoolTypes'
  BY <1>4 DEF Take, ExportTrades, Complete, Fail, PoolTypes
<1>5. CASE CollectRow \/ CollectFailure \/ WriteCheckpoint \/ AllCollected \/ Drain \/ OpenSummary
  <2>1. UNCHANGED task
    BY <1>5 DEF CollectRow, CollectFailure, WriteCheckpoint, AllCollected, Drain, OpenSummary
  <2>2. phase' \in {phase, "sequential", "pool", "rewriting", "draining", "over", "exporting", "raised"}
    BY <1>5 DEF CollectRow, CollectFailure, WriteCheckpoint, AllCollected, Drain, OpenSummary
  <2>3. UNCHANGED snapshot \/ snapshot' = FALSE
    BY <1>5 DEF CollectRow, CollectFailure, WriteCheckpoint, AllCollected, Drain, OpenSummary
  <2>4. UNCHANGED file \/ \E whole : file' = [rows |-> whole, torn |-> FALSE]
    BY <1>5 DEF CollectRow, CollectFailure, WriteCheckpoint, AllCollected, Drain, OpenSummary
  <2>5. file'.torn \in BOOLEAN
    <3>1. CASE UNCHANGED file
      BY <3>1 DEF PoolTypes
    <3>2. ASSUME NEW whole, file' = [rows |-> whole, torn |-> FALSE]
          PROVE  file'.torn = FALSE
      BY <3>2
    <3> QED BY <2>4, <3>1, <3>2
  <2> QED BY <2>1, <2>2, <2>3, <2>5 DEF PoolTypes
<1> QED BY <1>3, <1>4, <1>5 DEF RunStep, RunFails

LEMMA PoolTypesStep == StageInv /\ PoolTypes /\ [Next]_vars => PoolTypes'
<1> SUFFICES ASSUME StageInv, PoolTypes, [Next]_vars PROVE PoolTypes'
  OBVIOUS
<1>1. CASE UNCHANGED runVars
  BY <1>1 DEF runVars, PoolTypes
<1>2. CASE Leave /\ UNCHANGED file
  BY <1>2, PoolTypesLeft DEF PoolTypes
<1>3. CASE Abandon
  BY <1>1, <1>2, <1>3 DEF Abandon
<1>4. CASE UNCHANGED vars \/ ClockTicks
  BY <1>1, <1>4 DEF vars, ClockTicks
<1>5. ASSUME NEW c \in calls, Answer(c) \/ FindsGap(c) \/ RequestFails(c)
      PROVE  PoolTypes'
  BY <1>1, <1>3, <1>5, RaisesAbandons DEF Answer, FindsGap, RequestFails
<1>6. CASE (\E m \in Mode : Start(m)) \/ SelectVariant
  BY <1>2, <1>6 DEF Start, SelectVariant
<1>7. CASE Kill \/ ExportVariantRun
  <2>1. Leave /\ file'.torn \in BOOLEAN
    <3>1. CASE ExportVariantRun
      BY <3>1 DEF ExportVariantRun
    <3>2. CASE UNCHANGED file
      BY <1>7, <3>2 DEF Kill, Killed, ExportVariantRun, PoolTypes
    <3>3. CASE Kill /\ ~UNCHANGED file
      <4>1. Leave /\ \E n \in 0..Len(rows), torn \in BOOLEAN :
              file' = [rows |-> SubSeq(RankVariants(rows), 1, n), torn |-> torn]
        BY <3>3 DEF Kill, Killed
      <4> QED BY <4>1
    <3> QED BY <1>7, <3>1, <3>2, <3>3
  <2> QED BY <2>1, PoolTypesLeft
<1>8. CASE BeginWindow \/ Prefetch \/ Finish \/ SkipEpoch \/ TestVariant \/ RunBacktest \/ CompareFilters
           \/ Prefetched
  BY <1>1, <1>8 DEF BeginWindow, Prefetch, Finish, SkipEpoch, TestVariant, RunBacktest, CompareFilters,
     Prefetched
<1>9. CASE Onward \/ \E r \in waiting : Begins(r)
  BY <1>1, <1>9, BeginsQuietly DEF Onward
<1> QED BY <1>3, <1>4, <1>5, <1>6, <1>7, <1>8, <1>9, PoolTypesRun, OnwardSteps, RefusalsAbandon DEF Next

\* What has been counted: commands, faults, windows behind.
CountTypes ==
  /\ pinned \in BOOLEAN
  /\ part \in (Mode \ {"prefetch", "walk"}) \cup {"train", "test"}
  /\ commands \in 0..MaxCommands /\ faults \in 0..MaxFaults
  /\ (\E S : windows \in Seq(S)) /\ skipped \in Seq(Int)
  /\ Len(windows) + Len(skipped) <= idx - 1

\* What a step does to the results of a command: nothing, or a window is behind it
\* that was skipped, or has its result, or has none, or all begins anew.
ResultsMove ==
  \/ UNCHANGED <<idx, windows, skipped>>
  \/ /\ idx \in DOMAIN ends /\ idx' = idx + 1
     /\ \/ UNCHANGED <<windows, skipped>>
        \/ skipped' = Append(skipped, ends[idx]) /\ UNCHANGED windows
        \/ (\E w : windows' = Append(windows, w)) /\ UNCHANGED skipped
  \/ idx' = 1 /\ windows' = <<>> /\ skipped' = <<>>

LEMMA ResultSteps == StageInv /\ [Next]_vars => ResultsMove
<1> SUFFICES ASSUME StageInv, [Next]_vars PROVE ResultsMove
  OBVIOUS
<1> USE DEF ResultsMove
<1>1. CASE Quiet \/ Onward
  BY <1>1 DEF Quiet, Onward, resultVars
<1>2. CASE Abandon
  <2>1. PICK left \in SUBSET calls : GiveUp(left)
    BY <1>2 DEF Abandon
  <2> QED BY <1>2, <2>1 DEF GiveUp, Abandon, StageInv, WindowEnd
<1>3. CASE UNCHANGED vars \/ ClockTicks
  BY <1>3 DEF vars, ClockTicks, resultVars
<1>4. ASSUME NEW c \in calls, Answer(c) \/ FindsGap(c) \/ RequestFails(c)
      PROVE  ResultsMove
  BY <1>1, <1>2, <1>4, RaisesAbandons DEF Answer, FindsGap, RequestFails, resultVars
<1>5. CASE RunVariants \/ RunStep \/ RunFails \/ \E r \in waiting : Begins(r)
  BY <1>1, <1>5, RunKeeps, BeginsQuietly
<1>6. CASE \E m \in Mode : Start(m)
  BY <1>6 DEF Start
<1>7. CASE Finish \/ Kill \/ BeginWindow \/ Prefetch \/ SelectVariant
  BY <1>7 DEF Finish, Kill, BeginWindow, Prefetch, SelectVariant, resultVars
<1>8. CASE SkipEpoch \/ TestVariant \/ CompareFilters
  <2>1. idx \in DOMAIN ends /\ idx' = idx + 1
    BY <1>8, WindowEnds
  <2>2. CASE SkipEpoch
    BY <2>1, <2>2 DEF SkipEpoch, WindowEnd
  <2>3. CASE TestVariant \/ CompareFilters
    <3>1. UNCHANGED skipped /\ \E w : windows' = Append(windows, w)
      BY <2>3 DEF TestVariant, CompareFilters
    <3> QED BY <2>1, <3>1
  <2> QED BY <1>8, <2>2, <2>3
<1>9. CASE RunBacktest \/ Prefetched \/ ExportVariantRun
  <2>1. idx \in DOMAIN ends /\ idx' = idx + 1
    BY <1>9, WindowEnds
  <2>2. UNCHANGED <<windows, skipped>>
    BY <1>9 DEF RunBacktest, Prefetched, ExportVariantRun, resultVars
  <2> QED BY <2>1, <2>2
<1> QED BY <1>1, <1>2, <1>3, <1>4, <1>5, <1>6, <1>7, <1>8, <1>9, OnwardSteps, RefusalsAbandon DEF Next

LEMMA ResultsCounted ==
  ASSUME StageInv, CountTypes, ResultsMove
  PROVE  /\ (\E S : windows' \in Seq(S)) /\ skipped' \in Seq(Int)
         /\ Len(windows') + Len(skipped') <= idx' - 1
<1>1. PICK S : windows \in Seq(S)
  BY DEF CountTypes
<1>2. /\ idx \in Nat \ {0} /\ \A k \in DOMAIN ends : ends[k] \in Int
      /\ Len(windows) \in Nat /\ Len(skipped) \in Nat /\ skipped \in Seq(Int)
      /\ Len(windows) + Len(skipped) <= idx - 1
  BY <1>1 DEF StageInv, CountTypes
<1>3. CASE UNCHANGED <<idx, windows, skipped>>
  BY <1>1, <1>2, <1>3
<1>4. CASE idx \in DOMAIN ends /\ idx' = idx + 1 /\ UNCHANGED <<windows, skipped>>
  BY <1>1, <1>2, <1>4
<1>5. CASE /\ idx \in DOMAIN ends /\ idx' = idx + 1
           /\ skipped' = Append(skipped, ends[idx]) /\ UNCHANGED windows
  <2>1. skipped' \in Seq(Int) /\ Len(skipped') = Len(skipped) + 1
    BY <1>2, <1>5
  <2> QED BY <1>1, <1>2, <1>5, <2>1
<1>6. CASE idx' = idx + 1 /\ UNCHANGED skipped /\ \E w : windows' = Append(windows, w)
  <2>1. PICK w : windows' = Append(windows, w)
    BY <1>6
  <2>2. windows \in Seq(S \cup {w})
    BY <1>1
  <2>3. windows' \in Seq(S \cup {w}) /\ Len(windows') = Len(windows) + 1
    BY <2>1, <2>2
  <2> QED BY <1>2, <1>6, <2>3
<1>7. CASE idx' = 1 /\ windows' = <<>> /\ skipped' = <<>>
  BY <1>7, EmptyRows
<1> QED BY <1>3, <1>4, <1>5, <1>6, <1>7 DEF ResultsMove

LEMMA CountStart == Init => CountTypes
<1> SUFFICES ASSUME Init PROVE CountTypes
  OBVIOUS
<1>1. /\ pinned \in BOOLEAN /\ part = "grid" /\ commands = 0 /\ faults = 0 /\ idx = 1
      /\ windows = <<>> /\ skipped = <<>>
  BY DEF Init
<1>2. MaxCommands \in Nat /\ MaxFaults \in Nat
  BY ResearchAssumption
<1>3. (\E S : windows \in Seq(S)) /\ skipped \in Seq(Int) /\ Len(windows) + Len(skipped) <= idx - 1
  BY <1>1, EmptyRows
<1> QED BY <1>1, <1>2, <1>3 DEF CountTypes, Mode

LEMMA Bounded ==
  [Next]_vars =>
    /\ UNCHANGED pinned
    /\ UNCHANGED commands \/ (commands < MaxCommands /\ commands' = commands + 1)
    /\ UNCHANGED faults \/ Fault
<1> SUFFICES ASSUME [Next]_vars
             PROVE  /\ UNCHANGED pinned
                    /\ UNCHANGED commands \/ (commands < MaxCommands /\ commands' = commands + 1)
                    /\ UNCHANGED faults \/ Fault
  OBVIOUS
<1> USE DEF driverVars
<1>1. CASE UNCHANGED vars \/ ClockTicks
  BY <1>1 DEF vars, ClockTicks
<1>2. CASE \E m \in Mode : Start(m)
  BY <1>2 DEF Start
<1>3. ASSUME NEW c \in calls, Answer(c) \/ FindsGap(c) \/ RequestFails(c)
      PROVE  UNCHANGED <<pinned, commands>> /\ (UNCHANGED faults \/ Fault)
  BY <1>3 DEF Answer, FindsGap, RequestFails, Raises
<1>4. CASE Finish \/ SkipEpoch \/ BeginWindow \/ RefuseUniverse \/ TakeBars \/ RefuseAlignment
           \/ BuildReplayPlan \/ RefuseMinutes \/ TakeMinutes \/ TakeDaily \/ TakeDominance
  BY <1>4 DEF Finish, SkipEpoch, BeginWindow, RefuseUniverse, TakeBars, RefuseAlignment,
     BuildReplayPlan, RefuseMinutes, TakeMinutes, TakeDaily, TakeDominance
<1>5. CASE Prefetch \/ PrefetchRegime \/ Prefetched \/ RunVariants \/ RunStep \/ VariantsRaised
           \/ ExportVariantRun \/ SelectVariant \/ TestVariant \/ RunBacktest \/ RunFilterOn \/ CompareFilters
  BY <1>5 DEF Prefetch, PrefetchRegime, Prefetched, RunVariants, RunStep, VariantsRaised,
     ExportVariantRun, SelectVariant, TestVariant, RunBacktest, RunFilterOn, CompareFilters
<1>6. CASE RunFails \/ BacktestFails \/ Kill
  BY <1>6 DEF RunFails, BacktestFails, Kill
<1>7. CASE \E r \in waiting : Begins(r)
  BY <1>7 DEF Begins
<1> QED BY <1>1, <1>2, <1>3, <1>4, <1>5, <1>6, <1>7 DEF Next

LEMMA PartStep ==
  ASSUME StageInv, [Next]_vars
  PROVE  part' = part \/ part' \in (Mode \ {"prefetch", "walk"}) \cup {"train", "test"}
<1>1. CASE UNCHANGED vars \/ ClockTicks \/ \E m \in Mode : Start(m)
  BY <1>1 DEF vars, ClockTicks, Start
<1>2. ASSUME NEW c \in calls, Answer(c) \/ FindsGap(c) \/ RequestFails(c)
      PROVE  UNCHANGED part
  BY <1>2 DEF Answer, FindsGap, RequestFails, Raises
<1>3. CASE BeginWindow \/ SelectVariant
  <2>1. part' = "train" \/ part' = "test" \/ (part' = mode /\ mode \notin {"prefetch", "walk"})
    BY <1>3 DEF BeginWindow, SelectVariant, FetchBars
  <2> QED BY <2>1 DEF StageInv
<1>4. CASE Finish \/ SkipEpoch \/ RefuseUniverse \/ TakeBars \/ RefuseAlignment
           \/ BuildReplayPlan \/ RefuseMinutes \/ TakeMinutes \/ TakeDaily \/ TakeDominance
  BY <1>4 DEF Finish, SkipEpoch, RefuseUniverse, TakeBars, RefuseAlignment,
     BuildReplayPlan, RefuseMinutes, TakeMinutes, TakeDaily, TakeDominance
<1>5. CASE Prefetch \/ PrefetchRegime \/ Prefetched \/ RunVariants \/ RunStep \/ RunFails \/ VariantsRaised
           \/ ExportVariantRun \/ TestVariant \/ RunBacktest \/ RunFilterOn \/ CompareFilters
           \/ BacktestFails \/ Kill
  BY <1>5 DEF Prefetch, PrefetchRegime, Prefetched, RunVariants, RunStep, RunFails, VariantsRaised,
     ExportVariantRun, TestVariant, RunBacktest, RunFilterOn, CompareFilters, BacktestFails, Kill
<1>6. CASE \E r \in waiting : Begins(r)
  BY <1>6, BeginsQuietly DEF Quiet
<1> QED BY <1>1, <1>2, <1>3, <1>4, <1>5, <1>6 DEF Next

LEMMA CountStep == StageInv /\ CountTypes /\ [Next]_vars => CountTypes'
<1> SUFFICES ASSUME StageInv, CountTypes, [Next]_vars PROVE CountTypes'
  OBVIOUS
<1>1. pinned' \in BOOLEAN /\ commands' \in 0..MaxCommands /\ faults' \in 0..MaxFaults
  <2>1. MaxCommands \in Nat /\ MaxFaults \in Nat
    BY ResearchAssumption
  <2>2. commands \in 0..MaxCommands /\ faults \in 0..MaxFaults /\ pinned \in BOOLEAN
    BY DEF CountTypes
  <2>3. UNCHANGED pinned
    BY Bounded
  <2>4. commands' \in 0..MaxCommands
    BY <2>1, <2>2, Bounded
  <2>5. faults' \in 0..MaxFaults
    BY <2>1, <2>2, Bounded DEF Fault
  <2> QED BY <2>2, <2>3, <2>4, <2>5
<1>2. part' \in (Mode \ {"prefetch", "walk"}) \cup {"train", "test"}
  BY PartStep DEF CountTypes
<1> QED BY <1>1, <1>2, ResultSteps, ResultsCounted DEF CountTypes

LEMMA TypesFollow ==
  ASSUME CacheInv, StageInv, RunInv, FetchTypes, PoolTypes, CountTypes
  PROVE  TypeOK
<1>1. CacheTypeOK
  BY DEF CacheTypeOK, CacheInv, IsCall, FetchTypes
<1>2. RunTypeOK
  BY RowsBounded DEF RunTypeOK, RunInv, JobInv, PoolTypes, Status
<1>3. stage \in Terminal \cup Fetching \cup {"next", "variants", "test", "on", "off"}
  BY DEF StageInv, Busy
<1>4. Len(windows) + Len(skipped) <= Len(ends)
  <2>1. idx <= Len(ends) + 1 /\ idx \in Nat /\ Len(ends) \in Nat
    BY DEF StageInv
  <2>2. (\E S : windows \in Seq(S)) /\ Len(skipped) \in Nat
    BY DEF CountTypes
  <2>3. Len(windows) \in Nat
    BY <2>2
  <2> QED BY <2>1, <2>2, <2>3 DEF CountTypes
<1> QED BY <1>1, <1>2, <1>3, <1>4 DEF TypeOK, StageInv, FetchTypes, CountTypes

\* Every state of the research commands is well typed: no more rows than variants, no
\* more windows accounted for than there are, no candle from after the clock's end.
THEOREM ResearchTypeCorrect == Spec => []TypeOK
<1>1. Init => RunInv
  BY RunStart DEF Init
<1> QED BY <1>1, CacheStart, CacheStep, StageStart, StageStep, EndStart, EndStep, RowsStep,
           FetchStart, FetchStep, PoolTypesStart, PoolTypesStep, CountStart, CountStep,
           TypesFollow, PTL DEF Spec
=============================================================================
