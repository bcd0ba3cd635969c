---------------------------- MODULE CandleCache ----------------------------
(***************************************************************************)
(* Closed candles through the SQLite cache of the market-data client       *)
(* (exchange.py): a range is answered from the cache if the cache holds    *)
(* exactly the candles that should have closed by now, and else fetched    *)
(* and stored.                                                             *)
(*                                                                         *)
(* Times count minutes.  A series is a symbol and an interval; a candle is *)
(* its start time.  The coroutines of one asyncio.gather wait for their    *)
(* turn, each reads the clock for itself, and those that miss the cache    *)
(* are answered one by one; when one of them raises, the others run on as  *)
(* orphans and still store what they fetch.  Pages are one answer: all     *)
(* pages of a call are judged by the clock read before the first.          *)
(***************************************************************************)
EXTENDS Integers, FiniteSets

CONSTANTS
  Series,    \* symbols with intervals
  Width,     \* interval_to_milliseconds per series, in minutes
  Order,     \* where a series stands in the lists that gathers are made from
  Absences,  \* what the venue may lack: sets of functions to start times
  FirstNow,  \* the clock of the host, and of the venue, starts here
  MaxNow     \* bound: and stops here

ASSUME CacheAssumption ==
  /\ Width \in [Series -> Nat \ {0}]
  /\ FirstNow \in Nat /\ MaxNow \in Nat /\ FirstNow <= MaxNow

VARIABLES
  now,      \* the clock
  absent,   \* external: candles the venue does not have, per series
  cache,    \* historical_candles: per series, start |-> was it closed when stored
  waiting,  \* requests whose coroutine has not begun
  calls,    \* requests the venue has not answered
  replies   \* what the calls of the present gather have returned

cacheVars == <<now, absent, cache, waiting, calls, replies>>

Request(s, from, to) == [series |-> s, from |-> from, to |-> to, live |-> TRUE]

\* A request that went to the venue, with the clock it is to be judged by.
Call(r) == [series |-> r.series, from |-> r.from, to |-> r.to, noted |-> now, live |-> r.live]

CacheTypeOK ==
  /\ now \in FirstNow..MaxNow
  /\ absent \in Absences
  /\ \A s \in Series : DOMAIN cache[s] \subseteq 0..MaxNow
  /\ \A r \in waiting : r.series \in Series /\ r.live \in BOOLEAN
  /\ \A c \in calls : c.series \in Series /\ c.noted <= now /\ c.live \in BOOLEAN
  /\ DOMAIN replies \subseteq Series

-----------------------------------------------------------------------------

\* A whole range of candles, for comparison with what came.
Starts(from, to, width) == {t \in from..(to - 1) : (t - from) % width = 0}

ExpectedStarts(r) ==
  {t \in Starts(r.from, r.to, Width[r.series]) : t + Width[r.series] <= now}

CachedStarts(r) == {t \in DOMAIN cache[r.series] : r.from <= t /\ t < r.to}

Hit(r) == ExpectedStarts(r) \in {{}, CachedStarts(r)}

\* asyncio.gather makes a task of every coroutine.
Ask(requests) ==
  /\ waiting' = waiting \cup requests
  /\ replies' = <<>>
  /\ UNCHANGED <<now, absent, cache, calls>>

\* f with new values where fresh has one: INSERT OR REPLACE.
Replaced(f, fresh) ==
  [k \in DOMAIN f \cup DOMAIN fresh |-> IF k \in DOMAIN fresh THEN fresh[k] ELSE f[k]]

Awaited(r, answer) ==
  replies' = IF r.live THEN Replaced(replies, [s \in {r.series} |-> answer]) ELSE replies

\* A coroutine runs up to its first await: a hit is its result.
StartCall(r) ==
  /\ r \in waiting
  /\ waiting' = waiting \ {r}
  /\ IF Hit(r) THEN Awaited(r, ExpectedStarts(r)) /\ UNCHANGED calls
     ELSE calls' = calls \cup {Call(r)} /\ UNCHANGED replies
  /\ UNCHANGED <<now, absent, cache>>

Live(requests) == {r \in requests : r.live}

\* Tasks begin in the order they were made.
Earliest(r) == r.live => \A q \in Live(waiting) : Order[r.series] <= Order[q.series]

\* What the venue answers, the candle that is still forming included.
VenueStarts(c) ==
  {t \in (c.from..(c.to - 1)) \cap (0..now) :
     t % Width[c.series] = 0 /\ t \notin absent[c.series]}

\* Mutant: the forming candle is kept.
ReturnedForming(c) == VenueStarts(c)

Returned(c) == {t \in VenueStarts(c) : t + Width[c.series] <= c.noted}

Contiguous(c) ==
  LET starts == Returned(c) IN
  \A t \in starts : t + Width[c.series] \in starts \/ \A u \in starts : u <= t

\* It is stored and committed, whether anybody still waits for it or not.
Reply(c) ==
  /\ c \in calls /\ Contiguous(c)
  /\ calls' = calls \ {c}
  /\ cache' = [cache EXCEPT ![c.series] =
                 Replaced(@, [t \in Returned(c) |-> t + Width[c.series] <= now])]
  /\ Awaited(c, Returned(c))
  /\ UNCHANGED <<now, absent, waiting>>

\* gather has raised: nobody waits for what is left of it.
Orphaned(cs) == {[c EXCEPT !.live = FALSE] : c \in cs}

Answered == Live(waiting \cup calls) = {}

Tick ==
  /\ now < MaxNow
  /\ now' = now + 1
  /\ UNCHANGED <<absent, cache, waiting, calls, replies>>

CacheInit ==
  /\ now = FirstNow
  /\ absent \in Absences
  /\ cache = [s \in Series |-> <<>>]
  /\ waiting = {} /\ calls = {}
  /\ replies = <<>>

\* Whatever was cut off, orphaned or overtaken by the clock, the cache holds no
\* candle that was still forming when it was stored: a hit never answers a
\* backtest with half a candle (exchange.py:669, 819).
CacheHoldsClosedCandles == \A s \in Series : \A t \in DOMAIN cache[s] : cache[s][t]
=============================================================================
