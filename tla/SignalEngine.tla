--------------------------- MODULE SignalEngine ---------------------------
(***************************************************************************)
(* An emerging cycle of signal_engine.py over the per-ticker memory kept   *)
(* in state.py: observations of this bar, the rung a ticker stands on      *)
(* (watchlist, emerging, entry_ready) and when each rung was last alerted. *)
(*                                                                         *)
(* Metrics are computed at once when the cycle begins; then the tickers    *)
(* are walked in order of rank with an await for each alert.  Meanwhile    *)
(* the websocket task closes bars and clears the memory of a ticker under  *)
(* the walk.  What the indicators say of a ticker is any rank and score    *)
(* that keep the order of the ranking; it is chosen when the walk gets     *)
(* there, but it is of the bars that were current when the cycle began.    *)
(* Ticker is a part of a larger universe, so ranks may be skipped and a    *)
(* bar may close before any of them, in the await for another's alert.     *)
(***************************************************************************)
EXTENDS Integers, Sequences, FiniteSets, SequencesExt

CONSTANTS
  Ticker,                \* tickers of the universe that are looked at
  NoAlert,               \* no alert
  MaxRank, MaxScore,     \* bounds: size of the universe, composite scores 0..MaxScore
  WatchlistTopN, EmergingTopN, EntryReadyTopN,
  EmergingMinObservations, EntryReadyMinObservations,
  EmergingMinRankImprovement, EntryReadyMinRankImprovement,
  EntryReadyMinCompositeGain,
  RegimeFilterEnabled, RegimeMinPassCount,
  MinWindow,             \* the 6 in max(emerging_min_observations + 2, 6)
  EmergingCooldown, EntryReadyCooldown,    \* in cycles
  MaxCycles, MaxBars     \* bounds: cycles, bars each ticker closes

ASSUME SignalAssumption ==
  /\ {MaxRank, MaxScore, WatchlistTopN, EmergingTopN, EntryReadyTopN, MinWindow,
      EmergingCooldown, EntryReadyCooldown, MaxCycles, MaxBars} \subseteq Nat
  /\ Cardinality(Ticker) <= MaxRank
  /\ {EmergingMinObservations, EntryReadyMinObservations} \subseteq Nat \ {0}
  /\ {EmergingMinRankImprovement, EntryReadyMinRankImprovement,
      EntryReadyMinCompositeGain, RegimeMinPassCount} \subseteq Int
  /\ RegimeFilterEnabled \in BOOLEAN
  /\ NoAlert \notin Ticker \X {"emerging", "entry_ready"}

VARIABLES
  kind,        \* intrabar_state
  obs,         \* intrabar_observations, each with the bar it was made of
  lastAlerted, \* last_intrabar_alerted, or 0
  bar,         \* bars each ticker has closed
  cycle,       \* cycles begun: the clock of the engine
  pc, todo,
  sending,     \* ticker and rung of the alert being sent, or NoAlert
  seen,        \* bar of each ticker when the metrics of this cycle were computed
  tradeable,   \* the intraday regime of this cycle
  last,        \* rank and score of the ticker walked last
  heard        \* ghost: cycle of the last delivered alert of each rung, or 0

walkVars == <<pc, todo, sending, seen, tradeable, last>>
vars == <<kind, obs, lastAlerted, bar, cycle, walkVars, heard>>

AlertKind == {"emerging", "entry_ready"}
Kind == AlertKind \cup {"neutral", "watchlist"}
Observation == [rank : 1..MaxRank, score : 0..MaxScore, bar : 0..MaxBars]
ObservationWindow == Max({EmergingMinObservations + 2, MinWindow})
Cooldown == [emerging |-> EmergingCooldown, entry_ready |-> EntryReadyCooldown]
NoBars == [t \in Ticker |-> 0]
Top == [rank |-> 0, score |-> MaxScore]

TypeOK ==
  /\ kind \in [Ticker -> Kind]
  /\ obs \in [Ticker -> Seq(Observation)]
  /\ \A t \in Ticker : Len(obs[t]) <= ObservationWindow
  /\ lastAlerted \in [Ticker -> [AlertKind -> 0..MaxCycles]]
  /\ heard \in [Ticker -> [AlertKind -> 0..MaxCycles]]
  /\ bar \in [Ticker -> 0..MaxBars] /\ seen \in [Ticker -> 0..MaxBars]
  /\ cycle \in 0..MaxCycles
  /\ pc \in {"idle", "walk", "send"}
  /\ todo \subseteq Ticker
  /\ sending \in (Ticker \X AlertKind) \cup {NoAlert}
  /\ pc = "send" <=> sending # NoAlert
  /\ tradeable \in BOOLEAN
  /\ last \in [rank : 0..MaxRank, score : 0..MaxScore]

Init ==
  /\ kind = [t \in Ticker |-> "neutral"]
  /\ obs = [t \in Ticker |-> <<>>]
  /\ lastAlerted = [t \in Ticker |-> [k \in AlertKind |-> 0]]
  /\ bar = [t \in Ticker |-> 0] /\ seen = NoBars
  /\ cycle = 0
  /\ pc = "idle" /\ todo = {} /\ sending = NoAlert /\ tradeable = FALSE /\ last = Top
  /\ heard = lastAlerted

-----------------------------------------------------------------------------
(* Observations and what they are worth. *)

\* Mutant: the window has no end.
RecordedUnbounded(seq, o) == Append(seq, o)

Recorded(seq, o) ==
  LET longer == Append(seq, o)
  IN IF Len(longer) > ObservationWindow THEN Tail(longer) ELSE longer

\* The last n: rank improved and never fell back, the score rose every time.
Strengthening(seq, n, rankGain, scoreGain) ==
  /\ Len(seq) >= n
  /\ LET recent == SubSeq(seq, Len(seq) - n + 1, Len(seq)) IN
       /\ Head(recent).rank - Last(recent).rank >= rankGain
       /\ \A i \in 2..n : /\ recent[i].rank <= recent[i - 1].rank
                          /\ recent[i].score > recent[i - 1].score
       /\ Last(recent).score - Head(recent).score >= scoreGain

EarnsEntryReady(seq, rank) ==
  /\ rank <= EntryReadyTopN
  /\ Strengthening(seq, EntryReadyMinObservations, EntryReadyMinRankImprovement,
                   EntryReadyMinCompositeGain)

EarnsEmerging(seq, rank) ==
  /\ rank <= EmergingTopN
  /\ Strengthening(seq, EmergingMinObservations, EmergingMinRankImprovement, 0)

\* Mutant: the rank of the moment is enough for emerging.
ClassifiedByLast(seq, rank) ==
  IF EarnsEntryReady(seq, rank) /\ tradeable THEN "entry_ready"
  ELSE IF rank <= EmergingTopN THEN "emerging" ELSE "watchlist"

Classified(seq, rank) ==
  IF EarnsEntryReady(seq, rank) /\ tradeable THEN "entry_ready"
  ELSE IF EarnsEmerging(seq, rank) THEN "emerging"
  ELSE "watchlist"

\* Mutant: only the rung is reset, the observations stay.
ResetKindOnly(t) == kind' = [kind EXCEPT ![t] = "neutral"] /\ UNCHANGED obs

\* reset_intrabar
Reset(t) ==
  /\ kind' = [kind EXCEPT ![t] = "neutral"]
  /\ obs' = [obs EXCEPT ![t] = <<>>]

\* Of the four checks of the intraday regime: breadth, efficiency, return, and the
\* leaders' observations that were within ENTRY_READY_TOP_N.
Tradeable(passed) == RegimeFilterEnabled => passed >= Max({RegimeMinPassCount, 1})

-----------------------------------------------------------------------------
(* process, stage emerging. *)

\* Too few metrics and the cycle returns at once, leaving every ticker as it is;
\* a ticker without metrics is left as it is by any cycle.
Begin ==
  /\ pc = "idle" /\ cycle < MaxCycles
  /\ cycle' = cycle + 1
  /\ \E ranked \in SUBSET Ticker : todo' = ranked
  /\ \E passed \in 0..4 : tradeable' = Tradeable(passed)
  /\ seen' = bar
  /\ last' = Top
  /\ pc' = "walk"
  /\ UNCHANGED <<kind, obs, lastAlerted, bar, sending, heard>>

\* Ticker t is next in the ranking, with room for those after it.
Ranked(t, rank, score) ==
  /\ pc = "walk" /\ t \in todo
  /\ rank > last.rank /\ rank + Cardinality(todo) <= MaxRank + 1
  /\ score <= last.score
  /\ todo' = todo \ {t}
  /\ last' = [rank |-> rank, score |-> score]

\* It fails the core filter or the watchlist.
Drop(t, rank, score) ==
  /\ Ranked(t, rank, score)
  /\ Reset(t)
  /\ UNCHANGED <<lastAlerted, bar, cycle, pc, sending, seen, tradeable, heard>>

\* A new rung, not one of the watchlist, whose cooldown is over.
Eligible(t, k) ==
  /\ k \in AlertKind
  /\ k # kind[t]
  /\ lastAlerted[t][k] = 0 \/ cycle - lastAlerted[t][k] >= Cooldown[k]

\* One observation more; the rung is stored before the alert is tried.
Climb(t, rank, score) ==
  LET seq == Recorded(obs[t], [rank |-> rank, score |-> score, bar |-> seen[t]])
      k == Classified(seq, rank)
  IN
  /\ Ranked(t, rank, score)
  /\ rank <= WatchlistTopN
  /\ obs' = [obs EXCEPT ![t] = seq]
  /\ kind' = [kind EXCEPT ![t] = k]
  /\ IF Eligible(t, k)
     THEN pc' = "send" /\ sending' = <<t, k>>
     ELSE UNCHANGED <<pc, sending>>
  /\ UNCHANGED <<lastAlerted, bar, cycle, seen, tradeable, heard>>

\* Mutant: the cooldown starts whether the alert was delivered or not.
RememberedAnyway(delivered, t, k) == [lastAlerted EXCEPT ![t][k] = cycle]

\* The cooldown counts from the start of the cycle that delivered.
Remembered(delivered, t, k) ==
  IF delivered THEN [lastAlerted EXCEPT ![t][k] = cycle] ELSE lastAlerted

\* Telegram answers, or the call raises; an alert that failed is not tried again.
\* The ticker's memory may have been cleared since.
FinishAlert(delivered) ==
  /\ pc = "send"
  /\ LET t == sending[1] k == sending[2] IN
       /\ lastAlerted' = Remembered(delivered, t, k)
       /\ heard' = IF delivered THEN [heard EXCEPT ![t][k] = cycle] ELSE heard
  /\ pc' = "walk" /\ sending' = NoAlert
  /\ UNCHANGED <<kind, obs, bar, cycle, todo, seen, tradeable, last>>

\* log_signals, and the signals go to the execution engine; if it raises, they
\* do not, and what the walk stored stays.
End ==
  /\ pc = "walk" /\ todo = {}
  /\ pc' = "idle" /\ seen' = NoBars /\ tradeable' = FALSE /\ last' = Top
  /\ UNCHANGED <<kind, obs, lastAlerted, bar, cycle, todo, sending, heard>>

\* append_close, or one symbol of apply_bootstrap, on the websocket task.
AppendClose(t) ==
  /\ bar[t] < MaxBars
  /\ bar' = [bar EXCEPT ![t] = @ + 1]
  /\ Reset(t)
  /\ UNCHANGED <<lastAlerted, cycle, walkVars, heard>>

\* The bound is reached.
Done == pc = "idle" /\ cycle = MaxCycles /\ UNCHANGED vars

Next ==
  \/ Begin
  \/ \E t \in Ticker, rank \in 1..MaxRank, score \in 0..MaxScore :
       Drop(t, rank, score) \/ Climb(t, rank, score)
  \/ \E delivered \in BOOLEAN : FinishAlert(delivered)
  \/ End
  \/ \E t \in Ticker : AppendClose(t)
  \/ Done

Spec == Init /\ [][Next]_vars

-----------------------------------------------------------------------------
\* A ticker stands on emerging or entry_ready only while the observations kept
\* for it, of ranks on the watchlist, still say so: a reset in the middle of a
\* cycle, a cycle that skips the ticker and the bounded window never part them.
KindEarned ==
  \A t \in Ticker :
    LET seq == obs[t] IN
    /\ kind[t] = "neutral" <=> seq = <<>>
    /\ kind[t] = "entry_ready" => EarnsEntryReady(seq, Last(seq).rank)
    /\ kind[t] = "emerging" => EarnsEmerging(seq, Last(seq).rank)
    /\ kind[t] \in AlertKind =>
         Last(seq).score > seq[Len(seq) - 1].score /\ Last(seq).rank <= seq[Len(seq) - 1].rank

\* The observations of a ticker are of the bar it is in, but for the oldest: a
\* cycle that was walking while the bar closed files the ranking of the old bar
\* in the memory of the new one, once.
OneBarBehindAtMost ==
  \A t \in Ticker : \A i \in 2..Len(obs[t]) : obs[t][i].bar = bar[t]

\* A ticker that moves to emerging or entry_ready is alerted exactly if no alert of
\* that rung was delivered within its cooldown: a failed alert starts no cooldown
\* and a cleared memory does not end one (SPEC.md, emerging cooldowns and success
\* semantics).
AlertsAsSpecified ==
  [][\A t \in Ticker, k \in AlertKind :
       kind[t] # k /\ kind'[t] = k =>
         (sending' = <<t, k>> <=> heard[t][k] = 0 \/ cycle - heard[t][k] >= Cooldown[k])]_vars
=============================================================================
