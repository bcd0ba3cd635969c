-------------------------- MODULE LiveExecution --------------------------
(***************************************************************************)
(* ExecutionEngine.process_cycle with EXECUTION_SUBMIT_ORDERS=true: Bybit  *)
(* fills the orders and holds the stops, the engine mirrors it in SQLite.  *)
(* A cycle walks the open rows three times (positions the venue has        *)
(* closed, break-even stops, profit targets) and then the candidates; its  *)
(* steps are split at every request that changes the venue and every       *)
(* commit, because the venue moves, an answer is lost, or the cycle fails  *)
(* at each of them.                                                        *)
(*                                                                         *)
(* The venue is modelled from what exchange.py asks of it: market orders   *)
(* that fill late or never, one netted position per ticker under at most   *)
(* one stop, and a closed-PnL list that lags and of which only the newest  *)
(* record is read.  Prices are returns on the entry, as in                 *)
(* TradeManagement; sizes are in units of one entry.                       *)
(***************************************************************************)
EXTENDS PositionBook, EntryGate

CONSTANTS
  Ticker,
  Nobody,             \* no ticker in hand
  Label,              \* cluster labels
  Labelling,          \* the labellings [Ticker -> Label] correlations can give
  Price,              \* the prices a ticker can show, as returns on its entry
  MaxSize,            \* bound: units bought and not sold per ticker
  MaxFaults           \* bound: how many cycles may fail, how many acks be lost

ASSUME LiveExecutionAssumption ==
  /\ IsFiniteSet(Ticker)
  /\ Nobody \notin Ticker
  /\ Labelling # {}
  /\ Labelling \subseteq [Ticker -> Label]
  /\ Price \subseteq Int
  /\ MaxSize \in Nat
  /\ MaxFaults \in Nat

VARIABLES
  \* SQLite
  rows,           \* [Ticker -> Row], the newest position of each ticker
  \* Bybit
  venue,          \* [Ticker -> VenuePosition]
  buys,           \* units of accepted entry orders not filled yet
  sells,          \* units of accepted reduce-only orders not filled yet
  pnl,            \* the newest closed-PnL record that get_latest_closed_pnl sees
  hidden,         \* the record of a close the list does not show yet
  \* observed by the properties only
  stray,          \* tickers of an entry order whose handler opened no row
  sent,           \* exit orders sent for the newest position of each ticker,
  unmarked,       \* and those of them whose cycle failed before the row was marked
  faults,
  \* the locals of the cycle in progress
  pc, stage, ready, todo, cur,
  taken,          \* the closed-PnL record an exit is booked from
  back,           \* the walk an exit returns to
  closedTickers, booked, counted, labels

venueVars == <<venue, buys, sells, pnl, hidden>>
ghostVars == <<stray, sent, unmarked, faults>>
entryVars == <<booked, counted, labels>>
vars == <<rows, venue, buys, sells, pnl, hidden, stray, sent, unmarked, faults, pc,
          stage, ready, todo, cur, taken, back, closedTickers, booked, counted, labels>>

VenuePosition == [size : Nat, guarded : BOOLEAN, sl : Int]
Flat == [size |-> 0, guarded |-> FALSE, sl |-> InitialStopLoss]

\* Whose close a record tells of, seen from the row that is or will be open:
\* "stale" when updatedTime lies before the row's opened_at, "own" when it is
\* the close of the row's position, "foreign" when it came later than opened_at
\* from a position the row is not about.
Record == [kind : {"none", "stale", "foreign", "own"}, price : Int]
NoRecord == [kind |-> "none", price |-> 0]

Walks == {"sync", "breakEven", "targets"}
Phases == Walks \cup
  { "idle", "order", "close", "analyse", "arm", "raise", "mark", "await",
    "entries", "fill", "protect", "open" }

\* Where an entry order is out and its row not yet open.
Entering == {"fill", "protect", "open"}

OpenTickers == {t \in Ticker : rows[t].status = "open"}
Held(t) == venue[t].size > 0

NoCounts == [l \in Label |-> 0]
SomeLabelling == CHOOSE f \in Labelling : TRUE
NoLabels == [signal |-> SomeLabelling, book |-> SomeLabelling]

ForgetCycle ==
  /\ pc' = "idle" /\ stage' = "confirmed"
  /\ ready' = {} /\ todo' = {} /\ cur' = Nobody
  /\ taken' = NoRecord /\ back' = "sync" /\ closedTickers' = {}
  /\ booked' = {} /\ counted' = NoCounts /\ labels' = NoLabels

Init ==
  /\ rows = [t \in Ticker |-> NoRow]
  /\ venue = [t \in Ticker |-> Flat]
  /\ buys = [t \in Ticker |-> 0] /\ sells = [t \in Ticker |-> 0]
  /\ pnl = [t \in Ticker |-> NoRecord] /\ hidden = [t \in Ticker |-> NoRecord]
  /\ stray = {} /\ faults = 0
  /\ sent = [t \in Ticker |-> 0] /\ unmarked = [t \in Ticker |-> 0]
  /\ pc = "idle" /\ stage = "confirmed"
  /\ ready = {} /\ todo = {} /\ cur = Nobody
  /\ taken = NoRecord /\ back = "sync" /\ closedTickers = {}
  /\ booked = {} /\ counted = NoCounts /\ labels = NoLabels

--------------------------------------------------------------------------
\* Only an emerging cycle carries signals.
StartCycle(s, signals) ==
  /\ pc = "idle"
  /\ s = "confirmed" => signals = {}
  /\ pc' = "sync"
  /\ stage' = s
  /\ ready' = signals
  /\ todo' = OpenTickers
  /\ UNCHANGED <<rows, venueVars, ghostVars, cur, taken, back, closedTickers, entryVars>>

\* _sync_live_closed_positions: the venue shows no position, and its newest
\* closed-PnL record is not older than the row.
FreshEver(record) == record.kind # "none"   \* mutant
Fresh(record) == record.kind \in {"foreign", "own"}

\* Mutant: a pending exit is left to the cycle that sent it.
GoneUnlessPending(t) == ~Held(t) /\ Fresh(pnl[t]) /\ ~rows[t].pending

Gone(t) == ~Held(t) /\ Fresh(pnl[t])

SyncPass(t) ==
  /\ pc = "sync" /\ t \in todo /\ ~Gone(t)
  /\ todo' = todo \ {t}
  /\ UNCHANGED <<rows, venueVars, ghostVars, pc, stage, ready, cur, taken, back,
                 closedTickers, entryVars>>

SyncTake(t) ==
  /\ pc = "sync" /\ t \in todo /\ Gone(t)
  /\ todo' = todo \ {t}
  /\ cur' = t
  /\ taken' = pnl[t]
  /\ back' = "sync"
  /\ pc' = "order"
  /\ UNCHANGED <<rows, venueVars, ghostVars, stage, ready, closedTickers, entryVars>>

\* The three commits that book an exit, after a sync or after a live exit.
OrderExit ==
  /\ pc = "order"
  /\ rows' = [rows EXCEPT ![cur] = ExitOrderedRow(@)]
  /\ pc' = "close"
  /\ UNCHANGED <<venueVars, ghostVars, stage, ready, todo, cur, taken, back,
                 closedTickers, entryVars>>

ClosePosition ==
  /\ pc = "close"
  /\ rows' = [rows EXCEPT ![cur] = ClosedRow(@, taken.price)]
  /\ pc' = "analyse"
  /\ UNCHANGED <<venueVars, ghostVars, stage, ready, todo, cur, taken, back,
                 closedTickers, entryVars>>

\* Neither explicit reason of this mode is the stale timeout, so the price
\* alone says what the exit was.  (Bound: ANALYTICS_ENABLED is on.)
RecordTrade ==
  /\ pc = "analyse"
  /\ rows' = [rows EXCEPT ![cur] =
                AnalysedRow(@, RowExitEvent(@, taken.price, "take_profit_hit"))]
  /\ closedTickers' = closedTickers \cup {cur}
  /\ pc' = back
  /\ cur' = Nobody /\ taken' = NoRecord /\ back' = "sync"
  /\ UNCHANGED <<venueVars, ghostVars, stage, ready, todo, entryVars>>

EndSync ==
  /\ pc = "sync" /\ todo = {}
  /\ pc' = "breakEven"
  /\ todo' = OpenTickers
  /\ UNCHANGED <<rows, venueVars, ghostVars, stage, ready, cur, taken, back,
                 closedTickers, entryVars>>

--------------------------------------------------------------------------
\* _maybe_activate_live_break_even_stops.
Arms(t, p) == ~rows[t].breakEven /\ BreakEvenReached(p) /\ Held(t)

PassBreakEven(t, p) ==
  /\ pc = "breakEven" /\ t \in todo /\ ~Arms(t, p)
  /\ todo' = todo \ {t}
  /\ UNCHANGED <<rows, venueVars, ghostVars, pc, stage, ready, cur, taken, back,
                 closedTickers, entryVars>>

\* Mutant: a stop that is already set stays.
GuardOnce(position, stop) ==
  IF position.guarded THEN position ELSE [position EXCEPT !.guarded = TRUE, !.sl = stop]

\* set_trading_stop replaces the stop the venue position has.
Guard(position, stop) == [position EXCEPT !.guarded = TRUE, !.sl = stop]

ArmVenue(t, p) ==
  /\ pc = "breakEven" /\ t \in todo /\ Arms(t, p)
  /\ venue' = [venue EXCEPT ![t] = Guard(@, Entry)]
  /\ todo' = todo \ {t}
  /\ cur' = t
  /\ pc' = "arm"
  /\ UNCHANGED <<rows, buys, sells, pnl, hidden, ghostVars, stage, ready, taken, back,
                 closedTickers, entryVars>>

ArmRow ==
  /\ pc = "arm"
  /\ rows' = [rows EXCEPT ![cur] = ArmedRow(@)]
  /\ pc' = "breakEven"
  /\ cur' = Nobody
  /\ UNCHANGED <<venueVars, ghostVars, stage, ready, todo, taken, back, closedTickers,
                 entryVars>>

\* Profit targets are managed in emerging cycles of a ratcheted book only;
\* otherwise the venue holds the take profit.
EndBreakEven ==
  /\ pc = "breakEven" /\ todo = {}
  /\ pc' = "targets"
  /\ todo' = IF stage = "emerging" /\ RatchetEnabled THEN OpenTickers ELSE {}
  /\ UNCHANGED <<rows, venueVars, ghostVars, stage, ready, cur, taken, back,
                 closedTickers, entryVars>>

--------------------------------------------------------------------------
\* _manage_live_profit_targets.
ManagedUnlessClosed(t) == t \notin closedTickers   \* mutant
Managed(t) == t \notin closedTickers /\ ~rows[t].pending

AtTarget(t, p) == pc = "targets" /\ t \in todo /\ Managed(t) /\ p >= rows[t].tp
Climbs(t) == ProfitRatchetCanAdvance(rows[t].step, t \in ready)

PassTarget(t, p) ==
  /\ pc = "targets" /\ t \in todo
  /\ AtTarget(t, p) => Climbs(t) /\ ~Held(t)
  /\ todo' = todo \ {t}
  /\ UNCHANGED <<rows, venueVars, ghostVars, pc, stage, ready, cur, taken, back,
                 closedTickers, entryVars>>

RaiseVenueStop(t, p) ==
  /\ AtTarget(t, p) /\ Climbs(t) /\ Held(t)
  /\ venue' = [venue EXCEPT ![t] = Guard(@, RatchetStopLoss(rows[t].step + 1))]
  /\ todo' = todo \ {t}
  /\ cur' = t
  /\ pc' = "raise"
  /\ UNCHANGED <<rows, buys, sells, pnl, hidden, ghostVars, stage, ready, taken, back,
                 closedTickers, entryVars>>

AdvanceRow ==
  /\ pc = "raise"
  /\ rows' = [rows EXCEPT ![cur] = RatchetedRow(@, @.step + 1)]
  /\ pc' = "targets"
  /\ cur' = Nobody
  /\ UNCHANGED <<venueVars, ghostVars, stage, ready, todo, taken, back, closedTickers,
                 entryVars>>

\* _submit_live_exit.
MarkUnseen(t, p) ==
  /\ AtTarget(t, p) /\ ~Climbs(t) /\ ~Held(t)
  /\ rows' = [rows EXCEPT ![t] = PendingRow(@)]
  /\ todo' = todo \ {t}
  /\ UNCHANGED <<venueVars, ghostVars, pc, stage, ready, cur, taken, back,
                 closedTickers, entryVars>>

SellOrdered(t) ==
  /\ sells' = [sells EXCEPT ![t] = @ + venue[t].size]
  /\ sent' = [sent EXCEPT ![t] = @ + 1]

SendExit(t, p) ==
  /\ AtTarget(t, p) /\ ~Climbs(t) /\ Held(t)
  /\ SellOrdered(t)
  /\ todo' = todo \ {t}
  /\ cur' = t
  /\ pc' = "mark"
  /\ UNCHANGED <<rows, venue, buys, pnl, hidden, stray, unmarked, faults, stage, ready,
                 taken, back, closedTickers, entryVars>>

\* The order is accepted but its answer is lost: the exception ends the cycle.
LoseExitAck(t, p) ==
  /\ AtTarget(t, p) /\ ~Climbs(t) /\ Held(t)
  /\ faults < MaxFaults
  /\ faults' = faults + 1
  /\ SellOrdered(t)
  /\ unmarked' = [unmarked EXCEPT ![t] = @ + 1]
  /\ ForgetCycle
  /\ UNCHANGED <<rows, venue, buys, pnl, hidden, stray>>

MarkPending ==
  /\ pc = "mark"
  /\ rows' = [rows EXCEPT ![cur] = PendingRow(@)]
  /\ pc' = "await"
  /\ UNCHANGED <<venueVars, ghostVars, stage, ready, todo, cur, taken, back,
                 closedTickers, entryVars>>

ConfirmExit ==
  /\ pc = "await" /\ Gone(cur)
  /\ taken' = pnl[cur]
  /\ back' = "targets"
  /\ pc' = "order"
  /\ UNCHANGED <<rows, venueVars, ghostVars, stage, ready, todo, cur, closedTickers,
                 entryVars>>

\* The polls run out or raise (the first sleep of _latest_closed_pnl_since
\* does): the row stays pending and a later sync books the exit.
GiveUpExit ==
  /\ pc = "await"
  /\ pc' = "targets"
  /\ cur' = Nobody
  /\ UNCHANGED <<rows, venueVars, ghostVars, stage, ready, todo, taken, back,
                 closedTickers, entryVars>>

EndConfirmed ==
  /\ pc = "targets" /\ todo = {} /\ stage = "confirmed"
  /\ ForgetCycle
  /\ UNCHANGED <<rows, venueVars, ghostVars>>

--------------------------------------------------------------------------
\* _process_entries reads the clock here, and a row opened below takes it as
\* its opened_at: every record of an earlier close is older than such a row.
Outdated(record) == IF record.kind = "none" THEN record ELSE [kind |-> "stale", price |-> 0]
OutdatedUnlessOpen(records) ==
  [t \in Ticker |-> IF t \in OpenTickers THEN records[t] ELSE Outdated(records[t])]

BeginEntries(signalLabels, bookLabels) ==
  /\ pc = "targets" /\ todo = {} /\ stage = "emerging"
  /\ pc' = "entries"
  /\ booked' = OpenTickers
  /\ labels' = [signal |-> signalLabels, book |-> bookLabels]
  /\ counted' = [l \in Label |->
                   Cardinality({t \in OpenTickers : bookLabels[t] = l})]
  /\ pnl' = OutdatedUnlessOpen(pnl)
  /\ hidden' = OutdatedUnlessOpen(hidden)
  \* Nothing is left of a stray entry: the ticker is clean again.
  /\ stray' = {t \in stray : t \in OpenTickers \/ Held(t) \/ buys[t] > 0}
  /\ UNCHANGED <<rows, venue, buys, sells, sent, unmarked, faults, stage, ready, todo, cur,
                 taken, back, closedTickers>>

\* The daily stop losses of trade_analytics are LocalExecution's concern: here
\* the breaker is closed.
Admitted(t) ==
  Admits(t, booked, counted[labels.signal[t]], closedTickers, 0) /\ ~Held(t)

\* Refused by the gate or by the venue check, or too small for the wallet, or
\* the order was refused and a rejected order row written.
SkipEntry(t) ==
  /\ pc = "entries" /\ t \in ready
  /\ ready' = ready \ {t}
  /\ UNCHANGED <<rows, venueVars, ghostVars, pc, stage, todo, cur, taken, back,
                 closedTickers, entryVars>>

BuyOrdered(t) ==
  /\ pc = "entries" /\ t \in ready /\ Admitted(t)
  /\ buys[t] < MaxSize
  /\ buys' = [buys EXCEPT ![t] = @ + 1]
  /\ ready' = ready \ {t}

PlaceBuy(t) ==
  /\ BuyOrdered(t)
  /\ cur' = t
  /\ pc' = "fill"
  /\ UNCHANGED <<rows, venue, sells, pnl, hidden, ghostVars, stage, todo, taken, back,
                 closedTickers, entryVars>>

\* Accepted, but the answer is lost: the handler books it as rejected.
LoseBuyAck(t) ==
  /\ BuyOrdered(t)
  /\ faults < MaxFaults
  /\ faults' = faults + 1
  /\ stray' = stray \cup {t}
  /\ UNCHANGED <<rows, venue, sells, pnl, hidden, sent, unmarked, pc, stage, todo, cur,
                 taken, back, closedTickers, entryVars>>

SeeFill ==
  /\ pc = "fill" /\ Held(cur)
  /\ pc' = "protect"
  /\ UNCHANGED <<rows, venueVars, ghostVars, stage, ready, todo, cur, taken, back,
                 closedTickers, entryVars>>

SetFirstStop ==
  /\ pc = "protect" /\ Held(cur)
  /\ venue' = [venue EXCEPT ![cur] = Guard(@, InitialStopLoss)]
  /\ pc' = "open"
  /\ UNCHANGED <<rows, buys, sells, pnl, hidden, ghostVars, stage, ready, todo, cur,
                 taken, back, closedTickers, entryVars>>

\* wait_for_position runs out of polls, or set_trading_stop raises, applied or
\* not: the order is booked as rejected whatever became of it.
GiveUpEntry ==
  /\ pc \in {"fill", "protect"}
  /\ stray' = stray \cup {cur}
  /\ pc' = "entries"
  /\ cur' = Nobody
  /\ UNCHANGED <<rows, venueVars, sent, unmarked, faults, stage, ready, todo, taken, back,
                 closedTickers, entryVars>>

\* open_positions gains the ticker; cluster_counts, in this branch, does not.
OpenPosition ==
  /\ pc = "open" /\ rows[cur].status # "open"
  /\ rows' = [rows EXCEPT ![cur] = OpenedRow]
  /\ sent' = [sent EXCEPT ![cur] = 0] /\ unmarked' = [unmarked EXCEPT ![cur] = 0]
  /\ booked' = booked \cup {cur}
  /\ pc' = "entries"
  /\ cur' = Nobody
  /\ UNCHANGED <<venueVars, stray, faults, stage, ready, todo, taken, back,
                 closedTickers, counted, labels>>

EndEntries ==
  /\ pc = "entries" /\ ready = {}
  /\ ForgetCycle
  /\ UNCHANGED <<rows, venueVars, ghostVars>>

\* A request or a commit outside the handled ones raises, the task is
\* cancelled, or the process dies.
Abort ==
  /\ pc # "idle" /\ faults < MaxFaults
  /\ faults' = faults + 1
  /\ stray' = IF pc \in Entering THEN stray \cup {cur} ELSE stray
  /\ unmarked' = IF pc = "mark" THEN [unmarked EXCEPT ![cur] = @ + 1] ELSE unmarked
  /\ ForgetCycle
  /\ UNCHANGED <<rows, venueVars, sent>>

--------------------------------------------------------------------------
\* Bybit.
FillBuy(t) ==
  /\ buys[t] > 0 /\ venue[t].size < MaxSize
  /\ buys' = [buys EXCEPT ![t] = @ - 1]
  /\ venue' = [venue EXCEPT ![t].size = @ + 1]
  /\ UNCHANGED <<sells, pnl, hidden>>

CancelBuy(t) ==
  /\ buys[t] > 0
  /\ buys' = [buys EXCEPT ![t] = @ - 1]
  /\ UNCHANGED <<venue, sells, pnl, hidden>>

\* A close of t at p enters the closed-PnL list with a delay.
Recorded(t, p) ==
  LET mine == t \in OpenTickers \/ (cur = t /\ pc \in {"protect", "open"})
  IN  /\ hidden[t] = NoRecord
      /\ hidden' = [hidden EXCEPT ![t] =
                      [kind |-> IF mine THEN "own" ELSE "foreign", price |-> p]]

\* Reduce-only: it never sells more than there is.
Reduced(position, n) ==
  IF n >= position.size THEN Flat ELSE [position EXCEPT !.size = @ - n]

FillSell(t, p) ==
  /\ sells[t] > 0 /\ Held(t)
  /\ venue' = [venue EXCEPT ![t] = Reduced(@, sells[t])]
  /\ sells' = [sells EXCEPT ![t] = 0]
  /\ Recorded(t, p)
  /\ UNCHANGED <<buys, pnl>>

CancelSell(t) ==
  /\ sells[t] > 0
  /\ sells' = [sells EXCEPT ![t] = 0]
  /\ UNCHANGED <<venue, buys, pnl, hidden>>

\* The stop, or the take profit the venue holds when the ratchet is off.  With
\* the position go the reduce-only orders on it.
TriggerExit(t, p) ==
  /\ Held(t) /\ venue[t].guarded
  /\ p <= venue[t].sl \/ (~RatchetEnabled /\ p >= InitialTakeProfit)
  /\ venue' = [venue EXCEPT ![t] = Flat]
  /\ sells' = [sells EXCEPT ![t] = 0]
  /\ Recorded(t, p)
  /\ UNCHANGED <<buys, pnl>>

Publish(t) ==
  /\ hidden[t] # NoRecord
  /\ pnl' = [pnl EXCEPT ![t] = hidden[t]]
  /\ hidden' = [hidden EXCEPT ![t] = NoRecord]
  /\ UNCHANGED <<venue, buys, sells>>

EngineWaits ==
  UNCHANGED <<rows, ghostVars, pc, stage, ready, todo, cur, taken, back,
              closedTickers, entryVars>>

PublishStep(t) == Publish(t) /\ EngineWaits

VenueStep(t) ==
  \/ PublishStep(t)
  \/ /\ \/ FillBuy(t)
        \/ CancelBuy(t)
        \/ \E p \in Price : FillSell(t, p)
        \/ CancelSell(t)
        \/ \E p \in Price : TriggerExit(t, p)
     /\ EngineWaits

--------------------------------------------------------------------------
WalkStep(t) ==
  \/ SyncPass(t)
  \/ SyncTake(t)
  \/ \E p \in Price :
       \/ PassBreakEven(t, p)
       \/ ArmVenue(t, p)
       \/ PassTarget(t, p)
       \/ RaiseVenueStop(t, p)
       \/ MarkUnseen(t, p)
       \/ SendExit(t, p)
       \/ LoseExitAck(t, p)

ExitStep ==
  \/ OrderExit
  \/ ClosePosition
  \/ RecordTrade
  \/ EndSync
  \/ ArmRow
  \/ EndBreakEven
  \/ AdvanceRow
  \/ MarkPending
  \/ ConfirmExit
  \/ GiveUpExit
  \/ EndConfirmed

EntryStep ==
  \/ \E f, g \in Labelling : BeginEntries(f, g)
  \/ \E t \in Ticker : SkipEntry(t) \/ PlaceBuy(t) \/ LoseBuyAck(t)
  \/ SeeFill
  \/ SetFirstStop
  \/ GiveUpEntry
  \/ OpenPosition
  \/ EndEntries

EngineStep ==
  \/ \E s \in {"emerging", "confirmed"}, R \in SUBSET Ticker : StartCycle(s, R)
  \/ \E t \in Ticker : WalkStep(t)
  \/ ExitStep
  \/ EntryStep

Next ==
  \/ EngineStep
  \/ Abort
  \/ \E t \in Ticker : VenueStep(t)

Spec == Init /\ [][Next]_vars

\* Cycles keep starting and a started one keeps going; Bybit's list shows every
\* close in the end.
FairSpec ==
  /\ Spec
  /\ WF_vars(EngineStep)
  /\ \A t \in Ticker : WF_vars(PublishStep(t))

--------------------------------------------------------------------------
TypeOK ==
  /\ rows \in [Ticker -> Row]
  /\ venue \in [Ticker -> VenuePosition]
  /\ buys \in [Ticker -> Nat] /\ sells \in [Ticker -> Nat]
  /\ pnl \in [Ticker -> Record] /\ hidden \in [Ticker -> Record]
  /\ stray \in SUBSET Ticker /\ faults \in Nat
  /\ sent \in [Ticker -> Nat] /\ unmarked \in [Ticker -> Nat]
  /\ pc \in Phases /\ stage \in {"emerging", "confirmed"}
  /\ ready \in SUBSET Ticker /\ todo \in SUBSET Ticker
  /\ cur \in Ticker \cup {Nobody}
  /\ taken \in Record /\ back \in Walks
  /\ closedTickers \in SUBSET Ticker /\ booked \in SUBSET Ticker
  /\ counted \in [Label -> Nat]
  /\ labels \in [signal : Labelling, book : Labelling]

\* The venue stop is moved before the row is: whatever fails in between, the
\* position is protected at least as tightly as the row says.  A stray ticker is
\* left out: an entry of it was given up and is not yet gone from the venue, where
\* it may be one position with that of the row (execution.py:313, 1026).
VenueStopTight ==
  \A t \in OpenTickers \ stray :
    Held(t) => venue[t].guarded /\ venue[t].sl >= rows[t].sl

\* A row is closed from the record of its own position: no exit is booked with
\* the price of an earlier trade on the ticker.  A stray ticker is left out, where
\* the record may be that of the stray entry (execution.py:1167).
ClosedFromOwnRecord ==
  pc \in {"order", "close"} /\ cur \notin stray => taken.kind = "own"

\* The venue holds nothing the book does not know of, but for entry orders
\* whose handler gave up on them.
UntrackedIsStray ==
  \A t \in Ticker :
    Held(t) /\ t \notin OpenTickers /\ ~(cur = t /\ pc \in Entering) => t \in stray

\* A position is sold again only after the cycle that sold it has failed before the
\* row was marked as pending, by a lost answer or otherwise: no failure at another
\* place or ticker, no restart and no poll that runs out repeats a sale
\* (execution.py:890).
SoldAgainAfterFailure == \A t \in Ticker : sent[t] <= 1 + unmarked[t]

\* Once the venue has closed a position, its row is closed too.
ClosedIsSynced ==
  \A t \in Ticker :
    (t \in OpenTickers \ stray /\ ~Held(t)) ~> (t \notin OpenTickers \/ t \in stray)

\* Between cycles, every position on the venue has a stop there.
NoNakedPosition ==
  pc = "idle" => \A t \in Ticker : Held(t) => venue[t].guarded

\* An entry never brings its cluster above the cap, whenever the labels the
\* signals were ranked with are still those the book is counted by.
ClusterCapKept ==
  [][\A t \in Ticker :
       ( /\ rows[t].status # "open" /\ rows'[t].status = "open"
         /\ MaxPerCluster > 0 /\ labels.signal = labels.book ) =>
       Cardinality({u \in Ticker : /\ rows'[u].status = "open"
                                   /\ labels.book[u] = labels.book[t]})
         <= MaxPerCluster]_vars

Life == INSTANCE PositionLifecycle WITH
  Cap <- MaxOpenPositions,
  InitialStop <- InitialStopLoss,
  held <- OpenTickers,
  floor <- [t \in Ticker |->
             IF rows[t].status = "open" THEN rows[t].sl ELSE InitialStopLoss]

\* Live execution keeps what position handling promises, as far as the book
\* goes: one position per ticker, the cap, and a stop that is never loosened.
ImplementsLifecycle == Life!LifeSpec
==========================================================================
