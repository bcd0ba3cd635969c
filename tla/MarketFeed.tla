---------------------------- MODULE MarketFeed ----------------------------
(***************************************************************************)
(* The candles the service works on: MarketState's confirmed closes and    *)
(* provisional candle (state.py), the websocket that feeds them and the    *)
(* REST bootstrap that replaces them (exchange.py, main.py).               *)
(*                                                                         *)
(* Time is counted in bars, and a candle is its bar: of prices it only     *)
(* matters whether a provisional one moved.  The exchange closes bars,     *)
(* sends the messages of one symbol in order and finishes a bar for every  *)
(* symbol before it goes on to the next; a message may be lost, and the    *)
(* connection, a request or the process may fail at any moment.  The local *)
(* clock is taken to agree with the exchange's.                            *)
(***************************************************************************)
EXTENDS Integers, Sequences, FiniteSets, SequencesExt

CONSTANTS
  Symbol,       \* Settings.tracked_symbols
  Window,       \* STATE_WINDOW
  FirstBars,    \* bars closed when the service is first started
  MaxBar,       \* bound: the last bar that closes
  MaxFaults     \* bound: lost messages, failed calls and restarts

ASSUME FeedAssumption ==
  /\ Symbol # {} /\ IsFiniteSet(Symbol)
  /\ Window \in Nat \ {0}
  /\ FirstBars \in Nat /\ FirstBars >= Window
  /\ MaxBar \in Nat /\ MaxBar >= FirstBars
  /\ MaxFaults \in Nat

VARIABLES
  closed,    \* the last bar closed at the exchange
  times,     \* close_times_ms: the bars of each symbol's confirmed history
  prov,      \* provisional_state: a bar, 0 for None
  link,      \* where the supervisor (or, at first, run) stands
  stream,    \* the bar whose messages the connection sends next, 0 without one
  fetched,   \* the last closed bar of each history fetched so far, or 0
  faults

feedVars == <<closed, times, prov, link, stream, fetched, faults>>

Link == {"boot", "connect", "up", "failed", "fetch", "dead"}
NoCandle == [s \in Symbol |-> 0]
NothingFetched == [s \in Symbol |-> 0]
NoStream == [s \in Symbol |-> 0]

FeedTypeOK ==
  /\ closed \in FirstBars..MaxBar
  /\ \A s \in Symbol : times[s] \in Seq(1..MaxBar) /\ Len(times[s]) <= Window
  /\ prov \in [Symbol -> 0..(MaxBar + 1)]
  /\ link \in Link
  /\ stream \in [Symbol -> 0..(MaxBar + 2)]
  /\ fetched \in [Symbol -> 0..MaxBar]
  /\ faults \in 0..MaxFaults

FeedInit ==
  /\ closed = FirstBars
  /\ times = [s \in Symbol |-> <<>>]
  /\ prov = NoCandle
  /\ link = "boot"
  /\ stream = NoStream
  /\ fetched = NothingFetched
  /\ faults = 0

Fault == faults < MaxFaults /\ faults' = faults + 1

\* History is never empty once a bootstrap has succeeded.
LastBar(s) == Last(times[s])

-----------------------------------------------------------------------------
(* What a candle does to the state of its symbol. *)

\* Mutant: no gap check on a confirmed close.
ConfirmOutcomeAnyLater(s, bar) == IF bar <= LastBar(s) THEN "ignored" ELSE "taken"

ConfirmOutcome(s, bar) ==
  IF bar <= LastBar(s) THEN "ignored"
  ELSE IF bar > LastBar(s) + 1 THEN "gap" ELSE "taken"

\* Mutant: a provisional candle that skipped a bar is ignored, not raised.
ProvisionalOutcomeLenient(s, bar, moved) ==
  IF bar # LastBar(s) + 1 \/ (bar = prov[s] /\ ~moved) THEN "ignored" ELSE "taken"

\* A candle already held is taken again only if its price moved.
ProvisionalOutcome(s, bar, moved) ==
  LET next == IF prov[s] = 0 THEN LastBar(s) + 1 ELSE prov[s] IN
  IF bar <= LastBar(s) \/ bar < next THEN "ignored"
  ELSE IF bar > next THEN "gap"
  ELSE IF bar = prov[s] /\ ~moved THEN "ignored" ELSE "taken"

\* deque(maxlen=state_window)
Appended(history, bar) ==
  LET longer == Append(history, bar)
  IN IF Len(longer) > Window THEN Tail(longer) ELSE longer

TakeClose(s, bar) ==
  /\ times' = [times EXCEPT ![s] = Appended(@, bar)]
  /\ prov' = IF prov[s] <= bar THEN [prov EXCEPT ![s] = 0] ELSE prov

TakeProvisional(s, bar) ==
  /\ prov' = [prov EXCEPT ![s] = bar]
  /\ UNCHANGED times

-----------------------------------------------------------------------------
(* The exchange. *)

\* Bars close whether the service runs or not.
CloseBar ==
  /\ closed < MaxBar
  /\ closed' = closed + 1
  /\ UNCHANGED <<times, prov, link, stream, fetched, faults>>

\* Messages of bar stream[s]: no symbol is a bar ahead of another.
InTurn(s) == link = "up" /\ \A t \in Symbol : stream[s] <= stream[t]

\* A confirmation, or every message of the bar, never arrives.
LoseConfirm(s) ==
  /\ InTurn(s) /\ stream[s] <= closed
  /\ Fault
  /\ stream' = [stream EXCEPT ![s] = @ + 1]
  /\ UNCHANGED <<closed, times, prov, link, fetched>>

-----------------------------------------------------------------------------
(* The connection and the supervisor around it. *)

\* At once after the start, after the backoff otherwise, whatever the bootstrap
\* before it did.  A subscription starts with the bar that is open.
Connect ==
  /\ link = "connect"
  /\ link' = "up"
  /\ stream' = [s \in Symbol |-> closed + 1]
  /\ UNCHANGED <<closed, times, prov, fetched, faults>>

\* A refused connection, a lost one, a malformed message.
Disconnect ==
  /\ link \in {"connect", "up"}
  /\ Fault
  /\ link' = "failed"
  /\ stream' = NoStream
  /\ UNCHANGED <<closed, times, prov, fetched>>

\* The failure is written to the database before anything is repaired.
LogFailure ==
  /\ link = "failed"
  /\ link' = "fetch"
  /\ UNCHANGED <<closed, times, prov, stream, fetched, faults>>

\* That write is outside any handler: if it raises, the task is gone.
LogFails ==
  /\ link = "failed"
  /\ link' = "dead"
  /\ UNCHANGED <<closed, times, prov, stream, fetched, faults>>

\* Each symbol's history is read at its own moment; bars close in between.
Fetch(s) ==
  /\ link \in {"boot", "fetch"}
  /\ fetched[s] = 0
  /\ fetched' = [fetched EXCEPT ![s] = closed]
  /\ UNCHANGED <<closed, times, prov, link, stream, faults>>

\* A request raises, or too few bars or a hole come back: what was fetched is
\* dropped.  At startup the process ends, and systemd starts it again.
FetchFails ==
  /\ link \in {"boot", "fetch"}
  /\ Fault
  /\ link' = IF link = "boot" THEN "boot" ELSE "connect"
  /\ fetched' = NothingFetched
  /\ UNCHANGED <<closed, times, prov, stream>>

FetchedHistory(s) == [i \in 1..Window |-> fetched[s] - Window + i]

\* replace_history for every symbol, with no await in between.
ApplyBootstrap ==
  /\ link \in {"boot", "fetch"}
  /\ \A s \in Symbol : fetched[s] > 0
  /\ times' = [s \in Symbol |-> FetchedHistory(s)]
  /\ prov' = NoCandle
  /\ link' = "connect"
  /\ fetched' = NothingFetched
  /\ UNCHANGED <<closed, stream, faults>>

\* A signal, or the death of the process: its memory is gone, and systemd starts
\* it again (Restart=always).
Restart ==
  /\ link # "boot"
  /\ Fault
  /\ link' = "boot"
  /\ times' = [s \in Symbol |-> <<>>]
  /\ prov' = NoCandle
  /\ stream' = NoStream
  /\ fetched' = NothingFetched
  /\ UNCHANGED closed

-----------------------------------------------------------------------------
\* What get_prices(s, include_provisional=True) returns are closes of
\* consecutive bars, whatever was lost, fetched or replaced.
NoHoles ==
  \A s \in Symbol :
    /\ \A i \in 2..Len(times[s]) : times[s][i] = times[s][i - 1] + 1
    /\ prov[s] # 0 => prov[s] = LastBar(s) + 1

\* Every symbol has every bar that closed.
CaughtUp == \A s \in Symbol : times[s] # <<>> /\ LastBar(s) = closed
=============================================================================
