----------------------- MODULE LocalExecutionProofs ----------------------
(***************************************************************************)
(* What holds of LocalExecution for every universe, every setting and any  *)
(* number of failed cycles.                                                *)
(***************************************************************************)
EXTENDS LocalExecution, PositionBookProofs, FiniteSetTheorems, TLAPS

--------------------------------------------------------------------------
LEMMA LabellingTypes == SomeLabelling \in Labelling /\ NoLabels \in [signal : Labelling, book : Labelling]
BY LocalExecutionAssumption DEF SomeLabelling, NoLabels

LEMMA OpenTickersFinite == ASSUME NEW S \in SUBSET OpenTickers
                           PROVE  IsFiniteSet(S) /\ Cardinality(S) \in Nat
BY LocalExecutionAssumption, FS_Subset, FS_CardinalityType DEF OpenTickers

--------------------------------------------------------------------------
\* Types.

\* A position or candidate is in hand exactly where a handler works on one, and
\* the entry order being worked on is the one no position names yet.
InHand ==
  /\ pc \in {"decide", "close", "analyse", "open"} => cur \in Ticker
  /\ pc = "open" => entryOrders > 0

TypeInv == TypeOK /\ InHand

LEMMA TypeInit == Init => TypeInv
BY RowTypes, LabellingTypes, LocalExecutionAssumption
   DEF Init, TypeInv, TypeOK, InHand, Phases, Reasons, NoCounts

LEMMA ForgetCycleTypes ==
  ForgetCycle =>
    /\ pc' = "idle" /\ stage' \in {"emerging", "confirmed"}
    /\ ready' \in SUBSET Ticker /\ todo' \in SUBSET Ticker
    /\ cur' \in Ticker \cup {Nobody} /\ quote' \in Int /\ reason' \in Reasons
    /\ closedTickers' \in SUBSET Ticker /\ booked' \in SUBSET Ticker
    /\ counted' \in [Label -> Nat]
    /\ labels' \in [signal : Labelling, book : Labelling]
    /\ stopsSeen' \in Nat /\ sameDay' \in BOOLEAN
BY LabellingTypes DEF ForgetCycle, NoCounts, Reasons

LEMMA TypeStep == TypeInv /\ [Next]_vars => TypeInv'
<1> SUFFICES ASSUME TypeInv, [Next]_vars
             PROVE  TypeInv'
  OBVIOUS
<1> USE DEF TypeInv, TypeOK, InHand, Phases, bookVars, dayVars, exitVars, entryVars
<1>1. ASSUME NEW s \in {"emerging", "confirmed"}, NEW R \in SUBSET Ticker, StartCycle(s, R)
      PROVE  TypeInv'
  BY <1>1 DEF StartCycle, OpenTickers
<1>2. ASSUME NEW t \in Ticker, ReviewFails(t)
      PROVE  TypeInv'
  BY <1>2, ForgetCycleTypes DEF ReviewFails
<1>3. ASSUME NEW t \in Ticker, NEW p \in Price, ReadPrice(t, p)
      PROVE  TypeInv'
  <2>1. rows' \in [Ticker -> Row]
    BY <1>3, RowTypes DEF ReadPrice
  <2>2. quote' \in Int
    BY <1>3, LocalExecutionAssumption DEF ReadPrice
  <2> QED BY <1>3, <2>1, <2>2 DEF ReadPrice
<1>4. CASE AdvanceRatchet
  <2>1. rows[cur] \in Row /\ rows[cur].step + 1 \in Nat
    BY <1>4 DEF AdvanceRatchet, Row
  <2>2. rows' \in [Ticker -> Row]
    BY <1>4, <2>1, RowTypes DEF AdvanceRatchet
  <2> QED BY <1>4, <2>2 DEF AdvanceRatchet
<1>5. CASE KeepPosition
  BY <1>5 DEF KeepPosition
<1>6. CASE OrderExit
  <2>1. rows' \in [Ticker -> Row]
    BY <1>6, RowTypes DEF OrderExit
  <2>2. reason' \in Reasons
    BY <1>6 DEF OrderExit, ExitReason, Reasons
  <2> QED BY <1>6, <2>1, <2>2 DEF OrderExit
<1>7. CASE ClosePosition
  <2>1. rows' \in [Ticker -> Row]
    BY <1>7, RowTypes DEF ClosePosition
  <2> QED BY <1>7, <2>1 DEF ClosePosition
<1>8. CASE RecordTrade
  <2> DEFINE event == RowExitEvent(rows[cur], quote, reason)
  <2>1. rows' \in [Ticker -> Row]
    <3>1. event \in ExitEvents /\ rows[cur] \in Row
      BY <1>8, ExitEventType DEF RecordTrade
    <3>2. AnalysedRow(rows[cur], event) \in Row
      BY <3>1, RowTypes
    <3>3. rows' = [rows EXCEPT ![cur] = AnalysedRow(rows[cur], event)] \/ rows' = rows
      BY <1>8 DEF RecordTrade
    <3> QED BY <3>2, <3>3
  <2>2. stops' \in Nat /\ reason' \in Reasons
    BY <1>8 DEF RecordTrade, Reasons
  <2> QED BY <1>8, <2>1, <2>2 DEF RecordTrade
<1>9. CASE EndConfirmed
  BY <1>9, ForgetCycleTypes DEF EndConfirmed
<1>10. ASSUME NEW f \in Labelling, NEW g \in Labelling, BeginEntries(f, g)
       PROVE  TypeInv'
  <2>1. counted' \in [Label -> Nat]
    <3>1. \A l \in Label : Cardinality({t \in OpenTickers : g[t] = l}) \in Nat
      BY OpenTickersFinite
    <3> QED BY <1>10, <3>1 DEF BeginEntries
  <2>2. booked' \in SUBSET Ticker
    BY <1>10 DEF BeginEntries, OpenTickers
  <2> QED BY <1>10, <2>1, <2>2 DEF BeginEntries
<1>11. ASSUME NEW t \in Ticker, SkipEntry(t)
       PROVE  TypeInv'
  BY <1>11 DEF SkipEntry
<1>12. ASSUME NEW t \in Ticker, OrderEntry(t)
       PROVE  TypeInv'
  BY <1>12 DEF OrderEntry
<1>13. CASE OpenPosition
  <2>1. rows' \in [Ticker -> Row] /\ entryOrders' \in Nat
    BY <1>13, RowTypes DEF OpenPosition
  <2>2. counted' \in [Label -> Nat]
    <3>1. counted' = [counted EXCEPT ![labels.signal[cur]] = counted[labels.signal[cur]] + 1]
      BY <1>13 DEF OpenPosition
    <3>2. labels.signal[cur] \in Label
      BY <1>13, LocalExecutionAssumption DEF OpenPosition
    <3> QED BY <3>1, <3>2
  <2> QED BY <1>13, <2>1, <2>2 DEF OpenPosition
<1>14. CASE EndEntries
  BY <1>14, ForgetCycleTypes DEF EndEntries
<1>15. CASE Abort
  BY <1>15, ForgetCycleTypes DEF Abort
<1>16. ASSUME NEW U \in Universe, Reconfigure(U)
       PROVE  TypeInv'
  BY <1>16, LocalExecutionAssumption DEF Reconfigure
<1>17. CASE Tick
  BY <1>17 DEF Tick
<1>18. CASE NewDay
  BY <1>18 DEF NewDay
<1>19. CASE UNCHANGED vars
  BY <1>19 DEF vars
<1> QED
  BY <1>1, <1>2, <1>3, <1>4, <1>5, <1>6, <1>7, <1>8, <1>9, <1>10, <1>11, <1>12,
     <1>13, <1>14, <1>15, <1>16, <1>17, <1>18, <1>19
  DEF Next, EngineStep, ReviewStep, EntryStep

\* Every state of local execution is well typed: rows, counters and the cycle's
\* locals stay within their domains, whatever fails.
THEOREM TypeCorrect == Spec => []TypeOK
<1>1. Spec => []TypeInv
  BY TypeInit, TypeStep, PTL DEF Spec
<1>2. TypeInv => TypeOK
  BY DEF TypeInv
<1> QED BY <1>1, <1>2, PTL

--------------------------------------------------------------------------
\* Rows and the walk over them.

\* The statements of a cycle reach open rows only, each row once: what the walk
\* still has to do and what it has in hand are open, and what it has closed but
\* not filed is closed at the price in hand.
WalkInv ==
  /\ pc \in {"exits", "decide", "close", "analyse"} => todo \subseteq OpenTickers
  /\ pc \in {"decide", "close", "analyse"} => cur \notin todo
  /\ pc \in {"decide", "close"} => rows[cur].status = "open"
  /\ pc = "analyse" => rows[cur].status = "closed" /\ rows[cur].exit = quote

RowInv == WalkInv /\ LadderInv /\ EventTellsTheStop

\* The actions that write rows.
LEMMA RowSteps ==
  [Next]_vars =>
    \/ UNCHANGED rows
    \/ \E t \in Ticker, p \in Price : ReadPrice(t, p)
    \/ AdvanceRatchet \/ OrderExit \/ ClosePosition \/ RecordTrade \/ OpenPosition
BY DEF vars, Next, EngineStep, ReviewStep, EntryStep, StartCycle, ReviewFails,
       KeepPosition, EndConfirmed, BeginEntries, SkipEntry, OrderEntry, EndEntries,
       Abort, Reconfigure, Tick, NewDay, bookVars

\* The actions that leave rows alone: where they leave the walk.
LEMMA QuietSteps ==
  [Next]_vars /\ UNCHANGED rows =>
    \/ pc' \in {"idle", "entries", "open"}
    \/ pc' = "exits" /\ (todo' = OpenTickers \/ (pc = "decide" /\ todo' = todo))
    \/ pc' = pc /\ todo' = todo /\ cur' = cur /\ quote' = quote
    \/ \E t \in Ticker, p \in Price : ReadPrice(t, p)
    \/ AdvanceRatchet \/ OrderExit \/ ClosePosition \/ RecordTrade \/ OpenPosition
BY DEF vars, Next, EngineStep, ReviewStep, EntryStep, StartCycle, ReviewFails,
       KeepPosition, EndConfirmed, BeginEntries, SkipEntry, OrderEntry, EndEntries,
       Abort, Reconfigure, Tick, NewDay, ForgetCycle, exitVars

LEMMA RowInit == Init => RowInv
BY LadderKept, EventKept DEF Init, RowInv, WalkInv, LadderInv, EventTellsTheStop

LEMMA RowStep == TypeInv /\ RowInv /\ [Next]_vars => RowInv'
<1> SUFFICES ASSUME TypeInv, RowInv, [Next]_vars
             PROVE  RowInv'
  OBVIOUS
<1>t. /\ rows \in [Ticker -> Row] /\ quote \in Int /\ todo \in SUBSET Ticker
      /\ pc \in {"decide", "close", "analyse", "open"} => cur \in Ticker
  BY DEF TypeInv, TypeOK, InHand
<1> USE DEF RowInv, WalkInv, LadderInv, EventTellsTheStop, OpenTickers
<1>1. ASSUME NEW t \in Ticker, NEW p \in Price, ReadPrice(t, p)
      PROVE  RowInv'
  <2>1. rows[t].status = "open" /\ rows[t] \in Row
    BY <1>t, <1>1 DEF ReadPrice
  <2>2. CASE rows' = rows
    BY <1>t, <1>1, <2>1, <2>2 DEF ReadPrice
  <2>3. CASE ~rows[t].breakEven /\ rows' = [rows EXCEPT ![t] = ArmedRow(rows[t])]
    <3>1. OnLadder(ArmedRow(rows[t])) /\ EventFits(ArmedRow(rows[t]))
      BY <2>1, <2>3, LadderKept, EventKept
    <3>2. ArmedRow(rows[t]).status = "open"
      BY <2>1 DEF ArmedRow, Row
    <3> QED BY <1>t, <1>1, <2>1, <2>3, <3>1, <3>2 DEF ReadPrice
  <2> QED BY <1>1, <2>2, <2>3 DEF ReadPrice
<1>2. CASE AdvanceRatchet
  <2>1. cur \in Ticker /\ rows[cur].status = "open" /\ rows[cur] \in Row
    BY <1>t, <1>2 DEF AdvanceRatchet
  <2>2. ProfitRatchetCanAdvance(rows[cur].step, cur \in ready)
    BY <1>2 DEF AdvanceRatchet, MayRatchet
  <2> DEFINE row == RatchetedRow(rows[cur], rows[cur].step + 1)
  <2>3. OnLadder(row) /\ EventFits(row)
    BY <2>1, <2>2, RatchetClimbs, EventKept
  <2>4. row.status = "open"
    BY <2>1 DEF RatchetedRow, Row
  <2>5. rows' = [rows EXCEPT ![cur] = row]
    BY <1>2 DEF AdvanceRatchet
  <2> HIDE DEF row
  <2> QED BY <1>t, <1>2, <2>1, <2>3, <2>4, <2>5 DEF AdvanceRatchet, entryVars, dayVars
<1>3. CASE OrderExit
  <2>1. cur \in Ticker /\ rows[cur].status = "open" /\ rows[cur] \in Row
    BY <1>t, <1>3 DEF OrderExit
  <2>2. OnLadder(ExitOrderedRow(rows[cur])) /\ EventFits(ExitOrderedRow(rows[cur]))
    BY <2>1, LadderKept, EventKept
  <2>3. ExitOrderedRow(rows[cur]).status = "open"
    BY <2>1 DEF ExitOrderedRow, Row
  <2> QED BY <1>t, <1>3, <2>1, <2>2, <2>3 DEF OrderExit
<1>4. CASE ClosePosition
  <2>1. cur \in Ticker /\ rows[cur].status = "open" /\ rows[cur] \in Row
    BY <1>t, <1>4 DEF ClosePosition
  <2>2. OnLadder(ClosedRow(rows[cur], quote)) /\ EventFits(ClosedRow(rows[cur], quote))
    BY <2>1, LadderKept, EventKept
  <2>3. /\ ClosedRow(rows[cur], quote).status = "closed"
        /\ ClosedRow(rows[cur], quote).exit = quote
    BY <2>1 DEF ClosedRow, Row
  <2> QED BY <1>t, <1>4, <2>1, <2>2, <2>3 DEF ClosePosition
<1>5. CASE RecordTrade
  <2>1. /\ cur \in Ticker /\ rows[cur] \in Row
        /\ rows[cur].status = "closed" /\ rows[cur].exit = quote
    BY <1>t, <1>5 DEF RecordTrade
  <2> DEFINE row == AnalysedRow(rows[cur], RowExitEvent(rows[cur], quote, reason))
  <2>2. OnLadder(row) /\ EventFits(row)
    BY <2>1, LadderKept, FiledEventFits
  <2>3. rows' = rows \/ rows' = [rows EXCEPT ![cur] = row]
    BY <1>5 DEF RecordTrade
  <2> HIDE DEF row
  <2> QED BY <1>t, <1>5, <2>1, <2>2, <2>3 DEF RecordTrade
<1>6. CASE OpenPosition
  <2>1. cur \in Ticker
    BY <1>t, <1>6 DEF OpenPosition
  <2> QED BY <1>t, <1>6, <2>1, LadderKept, EventKept DEF OpenPosition
<1>7. CASE UNCHANGED rows
  <2>1. CASE pc' \in {"idle", "entries", "open"}
    BY <1>7, <2>1
  <2>2. CASE pc' = "exits" /\ (todo' = OpenTickers \/ (pc = "decide" /\ todo' = todo))
    BY <1>7, <2>2
  <2>3. CASE pc' = pc /\ todo' = todo /\ cur' = cur /\ quote' = quote
    BY <1>7, <2>3
  <2> QED BY <1>1, <1>2, <1>3, <1>4, <1>5, <1>6, <1>7, <2>1, <2>2, <2>3, QuietSteps
<1> QED BY <1>1, <1>2, <1>3, <1>4, <1>5, <1>6, <1>7, RowSteps

LEMMA RowsCorrect == Spec => [](TypeInv /\ RowInv)
<1>1. Init => TypeInv /\ RowInv
  BY TypeInit, RowInit
<1>2. TypeInv /\ RowInv /\ [Next]_vars => (TypeInv /\ RowInv)'
  BY TypeStep, RowStep
<1> QED BY <1>1, <1>2, PTL DEF Spec

\* Every row stands on a rung of the ladder of its own entry, whatever the order
\* of prices, signals, failures and restarts.
THEOREM LadderHolds == Spec => []LadderInv
<1>1. RowInv => LadderInv
  BY DEF RowInv
<1> QED BY <1>1, RowsCorrect, PTL

\* A trade is filed under the stop it hit as that stop stood: below the entry, at
\* the entry, or on a rung above it.
THEOREM EventsTellTheStop == Spec => []EventTellsTheStop
<1>1. RowInv => EventTellsTheStop
  BY DEF RowInv
<1> QED BY <1>1, RowsCorrect, PTL

--------------------------------------------------------------------------
\* The lifecycle.

\* While candidates are handled the engine's picture of the book is the book,
\* and an order is only out while the cap leaves room for its position.
EntryInv ==
  /\ pc \in {"entries", "open"} => booked = OpenTickers
  /\ pc = "open" /\ MaxOpenPositions > 0 =>
       Cardinality(OpenTickers) < MaxOpenPositions

LEMMA EntryInit == Init => EntryInv
BY DEF Init, EntryInv

LEMMA EntryStepKeeps == TypeInv /\ EntryInv /\ [Next]_vars => EntryInv'
<1> SUFFICES ASSUME TypeInv, EntryInv, [Next]_vars
             PROVE  EntryInv'
  OBVIOUS
<1> USE DEF EntryInv
<1>r. UNCHANGED rows => UNCHANGED OpenTickers
  BY DEF OpenTickers
<1>1. ASSUME NEW f \in Labelling, NEW g \in Labelling, BeginEntries(f, g)
      PROVE  EntryInv'
  BY <1>1, <1>r DEF BeginEntries, bookVars
<1>2. ASSUME NEW t \in Ticker, SkipEntry(t)
      PROVE  EntryInv'
  BY <1>2, <1>r DEF SkipEntry, bookVars, entryVars
<1>3. ASSUME NEW t \in Ticker, OrderEntry(t)
      PROVE  EntryInv'
  <2>1. /\ pc = "entries" /\ pc' = "open" /\ UNCHANGED booked
        /\ UNCHANGED OpenTickers /\ booked = OpenTickers
    BY <1>3, <1>r DEF OrderEntry, entryVars
  <2>2. MaxOpenPositions > 0 => ~(Cardinality(booked) >= MaxOpenPositions)
    BY <1>3 DEF OrderEntry, Admitted, Admits, Reached
  <2>3. Cardinality(OpenTickers) \in Nat
    BY OpenTickersFinite
  <2> QED BY <2>1, <2>2, <2>3, EntryGateAssumption
<1>4. CASE OpenPosition
  <2>1. cur \in Ticker /\ rows' = [rows EXCEPT ![cur] = OpenedRow] /\ rows \in [Ticker -> Row]
    BY <1>4 DEF OpenPosition, TypeInv, TypeOK, InHand
  <2>2. OpenTickers' = OpenTickers \cup {cur}
    BY <2>1 DEF OpenTickers, OpenedRow, NoRow
  <2> QED BY <1>4, <2>2 DEF OpenPosition
<1>5. CASE NewDay
  BY <1>5, <1>r DEF NewDay, bookVars, entryVars
<1>6. CASE UNCHANGED vars
  BY <1>6, <1>r DEF vars
<1>7. CASE pc' \notin {"entries", "open"}
  BY <1>7
<1> QED
  BY <1>1, <1>2, <1>3, <1>4, <1>5, <1>6, <1>7
  DEF Next, EngineStep, ReviewStep, EntryStep, StartCycle, ReviewFails, ReadPrice,
      AdvanceRatchet, KeepPosition, OrderExit, ClosePosition, RecordTrade, EndConfirmed,
      EndEntries, Abort, Reconfigure, Tick, ForgetCycle

\* The stop under a ticker, as the lifecycle sees it.
Floor == [t \in Ticker |-> IF rows[t].status = "open" THEN rows[t].sl ELSE InitialStopLoss]

LEMMA LifeStep ==
  TypeInv /\ RowInv /\ EntryInv /\ [Next]_vars => [Life!LifeNext]_(Life!lifeVars)
<1> SUFFICES ASSUME TypeInv, RowInv, EntryInv, [Next]_vars
             PROVE  Life!LifeNext \/ UNCHANGED <<OpenTickers, Floor>>
  BY DEF Life!lifeVars, Floor
<1>t. /\ rows \in [Ticker -> Row] /\ quote \in Int
      /\ pc \in {"decide", "close", "analyse", "open"} => cur \in Ticker
  BY DEF TypeInv, TypeOK, InHand
<1>w. /\ pc \in {"exits", "decide", "close", "analyse"} => todo \subseteq OpenTickers
      /\ pc \in {"decide", "close"} => rows[cur].status = "open"
      /\ pc = "analyse" => rows[cur].status = "closed"
      /\ \A t \in Ticker : OnLadder(rows[t])
  BY DEF RowInv, WalkInv, LadderInv
<1>1. ASSUME NEW t \in Ticker, NEW row \in Row,
             rows' = [rows EXCEPT ![t] = row], rows[t].status = "open",
             row.status = "open", row.sl >= rows[t].sl
      PROVE  Life!LifeNext
  <2>1. Life!RaiseStop(t)
    BY <1>t, <1>1 DEF Life!RaiseStop, OpenTickers
  <2> QED BY <2>1 DEF Life!LifeNext
<1>2. ASSUME NEW t \in Ticker, NEW p \in Price, ReadPrice(t, p)
      PROVE  Life!LifeNext \/ UNCHANGED <<OpenTickers, Floor>>
  <2>1. rows[t].status = "open" /\ rows[t] \in Row
    BY <1>t, <1>w, <1>2 DEF ReadPrice, OpenTickers
  <2>2. CASE rows' = rows
    BY <2>2 DEF OpenTickers, Floor
  <2>3. CASE ~rows[t].breakEven /\ rows' = [rows EXCEPT ![t] = ArmedRow(rows[t])]
    <3>1. ArmedRow(rows[t]) \in Row /\ ArmedRow(rows[t]).sl >= rows[t].sl
      BY <1>w, <2>1, <2>3, RowTypes, StopRises
    <3>2. ArmedRow(rows[t]).status = "open"
      BY <2>1 DEF ArmedRow, Row
    <3> QED BY <1>1, <2>1, <2>3, <3>1, <3>2
  <2> QED BY <1>2, <2>2, <2>3 DEF ReadPrice
<1>3. CASE AdvanceRatchet
  <2>1. cur \in Ticker /\ rows[cur].status = "open" /\ rows[cur] \in Row
    BY <1>t, <1>w, <1>3 DEF AdvanceRatchet
  <2> DEFINE row == RatchetedRow(rows[cur], rows[cur].step + 1)
  <2>2. row \in Row /\ row.sl >= rows[cur].sl
    <3>1. rows[cur].step + 1 \in Nat
      BY <2>1 DEF Row
    <3> QED BY <1>w, <2>1, <3>1, RowTypes, StopRises
  <2>3. row.status = "open"
    BY <2>1 DEF RatchetedRow, Row
  <2>4. rows' = [rows EXCEPT ![cur] = row]
    BY <1>3 DEF AdvanceRatchet
  <2> HIDE DEF row
  <2> QED BY <1>1, <2>1, <2>2, <2>3, <2>4
<1>4. CASE OrderExit
  <2>1. cur \in Ticker /\ rows[cur].status = "open" /\ rows[cur] \in Row
    BY <1>t, <1>w, <1>4 DEF OrderExit
  <2>2. /\ ExitOrderedRow(rows[cur]) \in Row
        /\ ExitOrderedRow(rows[cur]).status = "open"
        /\ ExitOrderedRow(rows[cur]).sl >= rows[cur].sl
    BY <2>1, RowTypes DEF ExitOrderedRow, Row
  <2>3. rows' = [rows EXCEPT ![cur] = ExitOrderedRow(rows[cur])]
    BY <1>4 DEF OrderExit
  <2> QED BY <1>1, <2>1, <2>2, <2>3
<1>5. CASE ClosePosition
  <2>1. PICK t \in Ticker : t = cur
    BY <1>t, <1>5 DEF ClosePosition
  <2>2. rows[t].status = "open" /\ rows[t] \in Row
    BY <1>t, <1>w, <1>5, <2>1 DEF ClosePosition
  <2>3. ClosedRow(rows[t], quote).status = "closed"
    BY <2>2 DEF ClosedRow, Row
  <2>4. rows' = [rows EXCEPT ![t] = ClosedRow(rows[t], quote)]
    BY <1>5, <2>1 DEF ClosePosition
  <2>5. OpenTickers' = OpenTickers \ {t} /\ t \in OpenTickers
    BY <1>t, <2>2, <2>3, <2>4 DEF OpenTickers
  <2>6. Floor' = [Floor EXCEPT ![t] = InitialStopLoss]
    BY <1>t, <2>3, <2>4 DEF Floor
  <2>7. Life!Leave(t)
    BY <2>5, <2>6 DEF Life!Leave, Floor
  <2> QED BY <2>7 DEF Life!LifeNext
<1>6. CASE RecordTrade
  <2>1. cur \in Ticker /\ rows[cur].status = "closed" /\ rows[cur] \in Row
    BY <1>t, <1>w, <1>6 DEF RecordTrade
  <2> DEFINE row == AnalysedRow(rows[cur], RowExitEvent(rows[cur], quote, reason))
  <2>2. row.status = "closed"
    BY <2>1 DEF AnalysedRow, Row
  <2>3. rows' = rows \/ rows' = [rows EXCEPT ![cur] = row]
    BY <1>6 DEF RecordTrade
  <2> HIDE DEF row
  <2> QED BY <1>t, <2>1, <2>2, <2>3 DEF OpenTickers, Floor
<1>7. CASE OpenPosition
  <2>1. PICK t \in Ticker : t = cur
    BY <1>t, <1>7 DEF OpenPosition
  <2>2. t \notin OpenTickers /\ rows' = [rows EXCEPT ![t] = OpenedRow]
    BY <1>t, <1>7, <2>1 DEF OpenPosition, OpenTickers
  <2>3. OpenedRow.status = "open" /\ OpenedRow.sl = InitialStopLoss
    BY DEF OpenedRow, NoRow
  <2>4. MaxOpenPositions > 0 => Cardinality(OpenTickers) < MaxOpenPositions
    BY <1>7 DEF EntryInv, OpenPosition
  <2>5. OpenTickers' = OpenTickers \cup {t}
    BY <1>t, <2>2, <2>3 DEF OpenTickers
  <2>6. UNCHANGED Floor
    BY <1>t, <2>2, <2>3 DEF Floor, OpenTickers
  <2>7. Life!Enter(t)
    <3>1. UNCHANGED [u \in Ticker |->
                       IF rows[u].status = "open" THEN rows[u].sl ELSE InitialStopLoss]
      BY <2>6 DEF Floor
    <3>2. Life!Cardinality(OpenTickers) = Cardinality(OpenTickers)
      BY Zenon DEF Life!Cardinality, Cardinality
    <3> QED BY <2>2, <2>4, <2>5, <3>1, <3>2 DEF Life!Enter
  <2> QED BY <2>7 DEF Life!LifeNext
<1>8. CASE UNCHANGED rows
  BY <1>8 DEF OpenTickers, Floor
<1> QED BY <1>2, <1>3, <1>4, <1>5, <1>6, <1>7, <1>8, RowSteps

\* Local execution implements the lifecycle of positions: whatever the number
\* of tickers, the settings, the prices and the failures, a ticker has at most
\* one open position, the cap on open positions is kept, positions change one
\* at a time, and no statement loosens a stop.
THEOREM LocalImplementsLifecycle == Spec => ImplementsLifecycle
<1>1. Init => Life!LifeInit
  BY DEF Init, Life!LifeInit, OpenTickers, NoRow
<1>2. Init => EntryInv
  BY EntryInit
<1>3. TypeInv /\ RowInv /\ EntryInv /\ [Next]_vars
        => EntryInv' /\ [Life!LifeNext]_(Life!lifeVars)
  BY EntryStepKeeps, LifeStep
<1> QED BY <1>1, <1>2, <1>3, RowsCorrect, PTL
    DEF Spec, ImplementsLifecycle, Life!LifeSpec

--------------------------------------------------------------------------
\* The daily breaker.

\* A loss that is closed and about to be filed under today.
FilesLoss ==
  /\ pc = "analyse" /\ sameDay
  /\ RowExitEvent(rows[cur], quote, reason) = "stop_loss_exit"

\* Today's losses are filed, or lost by one of the cycles that failed, but for
\* the one about to be filed; the entries' picture of them is no older than
\* the last of them, and an order is only out while it is below the limit.
BreakerInv ==
  AnalyticsEnabled =>
    /\ losses <= stops + aborts + (IF FilesLoss THEN 1 ELSE 0)
    /\ MaxDailyStopLosses > 0 =>
         /\ pc \in {"entries", "open"} => losses <= stopsSeen + aborts
         /\ pc = "open" => stopsSeen < MaxDailyStopLosses

LEMMA BreakerInit == Init => BreakerInv
BY DEF Init, BreakerInv, FilesLoss

LEMMA BreakerStep == TypeInv /\ BreakerInv /\ [Next]_vars => BreakerInv'
<1> SUFFICES ASSUME TypeInv, BreakerInv, [Next]_vars, AnalyticsEnabled
             PROVE  BreakerInv'
  BY DEF BreakerInv
<1>t. /\ rows \in [Ticker -> Row] /\ quote \in Int
      /\ losses \in Nat /\ stops \in Nat /\ aborts \in Nat /\ stopsSeen \in Nat
      /\ pc \in {"decide", "close", "analyse", "open"} => cur \in Ticker
  BY DEF TypeInv, TypeOK, InHand
<1> USE EntryGateAssumption DEF BreakerInv
<1>1. CASE ClosePosition
  <2>1. rows[cur] \in Row /\ cur \in Ticker
    BY <1>t, <1>1 DEF ClosePosition
  <2>2. RowExitEvent(rows'[cur], quote, reason) = RowExitEvent(rows[cur], quote, reason)
    BY <1>t, <1>1, <2>1, CloseKeepsEvent DEF ClosePosition
  <2>3. losses' = losses + (IF FilesLoss' THEN 1 ELSE 0)
    BY <1>t, <1>1, <2>2 DEF ClosePosition, FilesLoss
  <2> QED BY <1>t, <1>1, <2>3 DEF ClosePosition, FilesLoss
<1>2. CASE RecordTrade
  BY <1>t, <1>2 DEF RecordTrade, FilesLoss
<1>3. ASSUME NEW f \in Labelling, NEW g \in Labelling, BeginEntries(f, g)
      PROVE  BreakerInv'
  BY <1>t, <1>3 DEF BeginEntries, FilesLoss, dayVars
<1>4. ASSUME NEW t \in Ticker, SkipEntry(t)
      PROVE  BreakerInv'
  BY <1>t, <1>4 DEF SkipEntry, FilesLoss, dayVars, entryVars
<1>5. ASSUME NEW t \in Ticker, OrderEntry(t)
      PROVE  BreakerInv'
  BY <1>t, <1>5 DEF OrderEntry, Admitted, Admits, Reached, FilesLoss, dayVars, entryVars
<1>6. CASE OpenPosition
  BY <1>t, <1>6 DEF OpenPosition, FilesLoss, dayVars
<1>7. CASE Abort
  BY <1>t, <1>7 DEF Abort, ForgetCycle, FilesLoss
<1>8. CASE NewDay
  BY <1>t, <1>8 DEF NewDay, FilesLoss, entryVars
<1>9. CASE UNCHANGED vars
  BY <1>9 DEF vars, FilesLoss
<1>10. CASE /\ UNCHANGED <<losses, stops, aborts>>
            /\ pc # "analyse" /\ pc' \notin {"analyse", "entries", "open"}
  BY <1>t, <1>10 DEF FilesLoss
<1> QED
  BY <1>1, <1>2, <1>3, <1>4, <1>5, <1>6, <1>7, <1>8, <1>9, <1>10
  DEF Next, EngineStep, ReviewStep, EntryStep, StartCycle, ReviewFails, ReadPrice,
      AdvanceRatchet, KeepPosition, OrderExit, EndConfirmed, EndEntries, Reconfigure,
      Tick, ForgetCycle, dayVars

\* Positions are opened by OpenPosition and nothing else.
LEMMA OnlyOpenPositionOpens ==
  ASSUME TypeInv, [Next]_vars,
         NEW t \in Ticker, rows[t].status # "open", rows'[t].status = "open"
  PROVE  OpenPosition
<1>t. /\ rows \in [Ticker -> Row]
      /\ pc \in {"decide", "close", "analyse", "open"} => cur \in Ticker
  BY DEF TypeInv, TypeOK, InHand
<1>1. ASSUME NEW u \in Ticker, NEW p \in Price, ReadPrice(u, p)
      PROVE  FALSE
  BY <1>t, <1>1, StatusKept DEF ReadPrice
<1>2. CASE AdvanceRatchet
  BY <1>t, <1>2, StatusKept DEF AdvanceRatchet
<1>3. CASE OrderExit
  BY <1>t, <1>3, StatusKept DEF OrderExit
<1>4. CASE ClosePosition
  BY <1>t, <1>4, StatusKept DEF ClosePosition
<1>5. CASE RecordTrade
  BY <1>t, <1>5, StatusKept DEF RecordTrade
<1> QED BY <1>1, <1>2, <1>3, <1>4, <1>5, RowSteps

\* With analytics on, a position is only opened on a day with fewer loss-making
\* stops than MAX_DAILY_STOP_LOSSES, give or take one per failed cycle.
THEOREM BreakerHolds == Spec => BreakerSlack
<1>1. TypeInv /\ BreakerInv /\ [Next]_vars =>
        [\A t \in Ticker :
           ( /\ rows[t].status # "open" /\ rows'[t].status = "open"
             /\ MaxDailyStopLosses > 0 /\ AnalyticsEnabled ) =>
           losses < MaxDailyStopLosses + aborts]_vars
  <2> SUFFICES ASSUME TypeInv, BreakerInv, [Next]_vars, NEW t \in Ticker,
                      rows[t].status # "open", rows'[t].status = "open",
                      MaxDailyStopLosses > 0, AnalyticsEnabled
               PROVE  losses < MaxDailyStopLosses + aborts
    OBVIOUS
  <2>1. pc = "open"
    BY OnlyOpenPositionOpens DEF OpenPosition
  <2>2. losses <= stopsSeen + aborts /\ stopsSeen < MaxDailyStopLosses
    BY <2>1 DEF BreakerInv
  <2>3. losses \in Nat /\ aborts \in Nat /\ stopsSeen \in Nat
    BY DEF TypeInv, TypeOK
  <2> QED BY <2>2, <2>3, EntryGateAssumption
<1> QED BY <1>1, TypeInit, BreakerInit, TypeStep, BreakerStep, PTL DEF Spec, BreakerSlack

--------------------------------------------------------------------------
\* The ledger.

\* Closed trades that have no trade_analytics row.
Unfiled == {t \in Ticker : rows[t].status = "closed" /\ rows[t].event = "none"}

\* The exit of t is ordered, and its close is booked or about to be.
Leaving(t) == rows[t].status = "closed" \/ (pc = "close" /\ t = cur)

\* At every step of a cycle: only the trade in hand and those that failed cycles
\* dropped are unfiled, only the entry order in hand and theirs are orphans, and
\* an exit was ordered once more than cycles failed at it.
LedgerInv ==
  /\ AnalyticsEnabled =>
       Cardinality(Unfiled \ (IF pc = "analyse" THEN {cur} ELSE {})) <= aborts
  /\ entryOrders <= aborts + (IF pc = "open" THEN 1 ELSE 0)
  /\ \A t \in Ticker :
       /\ rows[t].exitOrders <= aborts + (IF Leaving(t) THEN 1 ELSE 0)
       /\ Leaving(t) => rows[t].exitOrders >= 1

LEMMA UnfiledFinite ==
  \A S, T : T \subseteq Ticker /\ S \subseteq T =>
    /\ IsFiniteSet(S) /\ Cardinality(S) \in Nat
    /\ IsFiniteSet(T) /\ Cardinality(T) \in Nat
    /\ Cardinality(S) <= Cardinality(T)
BY LocalExecutionAssumption, FS_Subset, FS_CardinalityType

\* What the statements of an exit do to the number of its orders.
LEMMA ExitOrdersKept ==
  ASSUME NEW row \in Row
  PROVE  /\ ArmedRow(row).exitOrders = row.exitOrders
         /\ ExitOrderedRow(row).exitOrders = row.exitOrders + 1
         /\ \A step : RatchetedRow(row, step).exitOrders = row.exitOrders
         /\ \A exit : ClosedRow(row, exit).exitOrders = row.exitOrders
         /\ \A event : AnalysedRow(row, event).exitOrders = row.exitOrders
BY DEF ArmedRow, ExitOrderedRow, RatchetedRow, ClosedRow, AnalysedRow, Row

LEMMA LedgerInit == Init => LedgerInv
<1> SUFFICES ASSUME Init
             PROVE  LedgerInv
  OBVIOUS
<1>1. Unfiled = {}
  BY DEF Init, Unfiled, NoRow
<1>2. Cardinality(Unfiled \ {}) = 0
  BY <1>1, FS_EmptySet
<1> QED BY <1>2 DEF Init, LedgerInv, Leaving, NoRow

\* The actions that leave the rows alone, by what they do to the ledger.
LEMMA LedgerQuiet ==
  [Next]_vars =>
    \/ UNCHANGED rows /\ UNCHANGED <<aborts, entryOrders, pc, cur>>
    \/ /\ UNCHANGED rows /\ UNCHANGED <<aborts, entryOrders>>
       /\ pc \notin {"close", "analyse", "open"} /\ pc' \notin {"close", "analyse", "open"}
    \/ UNCHANGED rows /\ UNCHANGED entryOrders /\ aborts' = aborts + 1 /\ pc' = "idle"
    \/ \E t \in Ticker : OrderEntry(t)
    \/ \E t \in Ticker, p \in Price : ReadPrice(t, p)
    \/ AdvanceRatchet \/ OrderExit \/ ClosePosition \/ RecordTrade \/ OpenPosition
BY DEF vars, Next, EngineStep, ReviewStep, EntryStep, StartCycle, ReviewFails,
       KeepPosition, EndConfirmed, BeginEntries, SkipEntry, EndEntries,
       Abort, Reconfigure, Tick, NewDay, ForgetCycle, bookVars, dayVars, exitVars, entryVars

LEMMA LedgerStep == TypeInv /\ RowInv /\ LedgerInv /\ [Next]_vars => LedgerInv'
<1> SUFFICES ASSUME TypeInv, RowInv, LedgerInv, [Next]_vars
             PROVE  LedgerInv'
  OBVIOUS
<1>t. /\ rows \in [Ticker -> Row] /\ aborts \in Nat /\ entryOrders \in Nat
      /\ pc \in {"decide", "close", "analyse", "open"} => cur \in Ticker
      /\ Unfiled \subseteq Ticker
      /\ \A t \in Ticker : rows[t].exitOrders \in Nat
  BY DEF TypeInv, TypeOK, InHand, Unfiled, Row
<1>w. /\ pc \in {"exits", "decide", "close", "analyse"} => todo \subseteq OpenTickers
      /\ pc \in {"decide", "close"} => rows[cur].status = "open"
      /\ pc = "analyse" => rows[cur].status = "closed"
  BY DEF RowInv, WalkInv
<1> DEFINE dropped == Unfiled \ (IF pc = "analyse" THEN {cur} ELSE {})
<1>d. AnalyticsEnabled => Cardinality(dropped) <= aborts
  BY DEF LedgerInv
<1>f. \A S : S \subseteq Unfiled =>
        /\ IsFiniteSet(S) /\ Cardinality(S) \in Nat
        /\ \A T : T \subseteq S => Cardinality(T) <= Cardinality(S)
  BY <1>t, UnfiledFinite
\* A step that changes no row.
<1>1. CASE UNCHANGED rows /\ UNCHANGED <<aborts, entryOrders, pc, cur>>
  BY <1>1 DEF LedgerInv, Leaving, Unfiled
<1>2. CASE /\ UNCHANGED rows /\ UNCHANGED <<aborts, entryOrders>>
           /\ pc \notin {"close", "analyse", "open"} /\ pc' \notin {"close", "analyse", "open"}
  BY <1>2 DEF LedgerInv, Leaving, Unfiled
<1>3. CASE UNCHANGED rows /\ UNCHANGED entryOrders /\ aborts' = aborts + 1 /\ pc' = "idle"
  <2>1. Unfiled' = Unfiled
    BY <1>3 DEF Unfiled
  <2>2. AnalyticsEnabled => Cardinality(Unfiled') <= aborts'
    <3>1. IsFiniteSet(dropped) /\ Cardinality(dropped) \in Nat
      BY <1>f
    <3>2. Unfiled \subseteq dropped \cup {cur}
      OBVIOUS
    <3>3. /\ IsFiniteSet(dropped \cup {cur})
          /\ Cardinality(dropped \cup {cur}) <= Cardinality(dropped) + 1
      <4>1. CASE cur \in dropped
        <5>1. dropped \cup {cur} = dropped
          BY <4>1
        <5> QED BY <3>1, <5>1
      <4>2. CASE cur \notin dropped
        BY <3>1, <4>2, FS_AddElement
      <4> QED BY <4>1, <4>2
    <3>4. Cardinality(Unfiled) <= Cardinality(dropped \cup {cur}) /\ Cardinality(dropped \cup {cur}) \in Nat
      BY <3>2, <3>3, FS_Subset, FS_CardinalityType
    <3>5. Cardinality(Unfiled) \in Nat
      BY <1>f
    <3> HIDE DEF dropped
    <3> QED BY <1>t, <1>3, <1>d, <2>1, <3>1, <3>3, <3>4, <3>5
  <2>3. \A t \in Ticker :
          /\ rows'[t].exitOrders <= aborts' + (IF Leaving(t)' THEN 1 ELSE 0)
          /\ Leaving(t)' => rows'[t].exitOrders >= 1
    BY <1>t, <1>3 DEF LedgerInv, Leaving
  <2>4. entryOrders' <= aborts' + (IF pc' = "open" THEN 1 ELSE 0)
    BY <1>t, <1>3 DEF LedgerInv
  <2>5. Unfiled' \ (IF pc' = "analyse" THEN {cur'} ELSE {}) = Unfiled'
    BY <1>3
  <2> QED BY <2>2, <2>3, <2>4, <2>5 DEF LedgerInv
<1>4. ASSUME NEW t \in Ticker, OrderEntry(t)
      PROVE  LedgerInv'
  BY <1>t, <1>4 DEF OrderEntry, LedgerInv, Leaving, Unfiled
\* A step that changes one row.
<1>5. ASSUME NEW t \in Ticker, NEW row, rows' = [rows EXCEPT ![t] = row],
             rows[t].status = "open", row.status = "open",
             row.exitOrders = rows[t].exitOrders,
             UNCHANGED <<aborts, entryOrders>>,
             pc \notin {"close", "analyse", "open"}, pc' \notin {"close", "analyse", "open"}
      PROVE  LedgerInv'
  <2>1. Unfiled' = Unfiled
    BY <1>t, <1>5 DEF Unfiled
  <2>2. \A u \in Ticker : /\ rows'[u].exitOrders = rows[u].exitOrders
                          /\ rows'[u].status = rows[u].status
    BY <1>t, <1>5
  <2> QED BY <1>5, <2>1, <2>2 DEF LedgerInv, Leaving
<1>6. ASSUME NEW t \in Ticker, NEW p \in Price, ReadPrice(t, p)
      PROVE  LedgerInv'
  <2>1. rows[t].status = "open" /\ rows[t] \in Row
    BY <1>t, <1>w, <1>6 DEF ReadPrice, OpenTickers
  <2>2. /\ UNCHANGED <<aborts, entryOrders>> /\ pc = "exits" /\ pc' = "decide"
        /\ rows' = rows \/ rows' = [rows EXCEPT ![t] = ArmedRow(rows[t])]
    BY <1>6 DEF ReadPrice
  <2>3. CASE rows' = rows
    BY <1>2, <2>2, <2>3
  <2>4. CASE rows' = [rows EXCEPT ![t] = ArmedRow(rows[t])]
    BY <1>5, <2>1, <2>2, <2>4, StatusKept, ExitOrdersKept
  <2> QED BY <2>2, <2>3, <2>4
<1>7. CASE AdvanceRatchet
  <2>1. cur \in Ticker /\ rows[cur].status = "open" /\ rows[cur] \in Row
    BY <1>t, <1>w, <1>7 DEF AdvanceRatchet
  <2>2. /\ UNCHANGED <<aborts, entryOrders>> /\ pc = "decide" /\ pc' = "exits"
        /\ rows' = [rows EXCEPT ![cur] = RatchetedRow(rows[cur], rows[cur].step + 1)]
    BY <1>7 DEF AdvanceRatchet
  <2> QED BY <1>5, <2>1, <2>2, StatusKept, ExitOrdersKept
<1>8. CASE OrderExit
  <2>1. cur \in Ticker /\ rows[cur].status = "open" /\ rows[cur] \in Row
    BY <1>t, <1>w, <1>8 DEF OrderExit
  <2> DEFINE row == ExitOrderedRow(rows[cur])
  <2>2. row.status = "open" /\ row.exitOrders = rows[cur].exitOrders + 1
    BY <2>1, StatusKept, ExitOrdersKept
  <2>3. /\ UNCHANGED <<aborts, entryOrders, cur>> /\ pc = "decide" /\ pc' = "close"
        /\ rows' = [rows EXCEPT ![cur] = row]
    BY <1>8 DEF OrderExit
  <2> HIDE DEF row
  <2>4. Unfiled' = Unfiled
    BY <1>t, <2>1, <2>2, <2>3 DEF Unfiled
  <2>5. \A t \in Ticker :
          /\ rows'[t].exitOrders <= aborts' + (IF Leaving(t)' THEN 1 ELSE 0)
          /\ Leaving(t)' => rows'[t].exitOrders >= 1
    BY <1>t, <2>1, <2>2, <2>3 DEF LedgerInv, Leaving
  <2> QED BY <2>3, <2>4, <2>5 DEF LedgerInv
<1>9. CASE ClosePosition
  <2>1. cur \in Ticker /\ rows[cur].status = "open" /\ rows[cur] \in Row
    BY <1>t, <1>w, <1>9 DEF ClosePosition
  <2> DEFINE row == ClosedRow(rows[cur], quote)
  <2>2. row.status = "closed" /\ row.exitOrders = rows[cur].exitOrders
    BY <2>1, StatusKept, ExitOrdersKept
  <2>3. /\ UNCHANGED <<aborts, entryOrders, cur>> /\ pc = "close" /\ pc' = "analyse"
        /\ rows' = [rows EXCEPT ![cur] = row]
    BY <1>9 DEF ClosePosition
  <2> HIDE DEF row
  <2>4. Unfiled' \ {cur} = Unfiled \ {}
    BY <1>t, <2>1, <2>2, <2>3 DEF Unfiled
  <2>5. \A t \in Ticker :
          /\ rows'[t].exitOrders <= aborts' + (IF Leaving(t)' THEN 1 ELSE 0)
          /\ Leaving(t)' => rows'[t].exitOrders >= 1
    BY <1>t, <2>1, <2>2, <2>3 DEF LedgerInv, Leaving
  <2> QED BY <2>3, <2>4, <2>5 DEF LedgerInv
<1>10. CASE RecordTrade
  <2>1. cur \in Ticker /\ rows[cur].status = "closed" /\ rows[cur] \in Row
    BY <1>t, <1>w, <1>10 DEF RecordTrade
  <2> DEFINE event == RowExitEvent(rows[cur], quote, reason)
             row == AnalysedRow(rows[cur], event)
  <2>2. row.status = "closed" /\ row.exitOrders = rows[cur].exitOrders
    BY <2>1, StatusKept, ExitOrdersKept
  <2>3. row.event # "none"
    <3>1. event \in ExitEvents
      BY <1>10, <2>1, ExitEventType DEF TypeInv, TypeOK
    <3> HIDE DEF event
    <3> QED BY <2>1, <3>1 DEF AnalysedRow, Row, ExitEvents
  <2>4. /\ UNCHANGED <<aborts, entryOrders>> /\ pc = "analyse" /\ pc' = "exits"
        /\ AnalyticsEnabled => rows' = [rows EXCEPT ![cur] = row]
        /\ rows' = rows \/ rows' = [rows EXCEPT ![cur] = row]
    BY <1>10 DEF RecordTrade
  <2> HIDE DEF row, event
  <2>5. AnalyticsEnabled => Unfiled' \ {} = Unfiled \ {cur}
    BY <1>t, <2>1, <2>2, <2>3, <2>4 DEF Unfiled
  <2>6. \A t \in Ticker : /\ rows'[t].exitOrders = rows[t].exitOrders
                          /\ rows'[t].status = rows[t].status
    BY <1>t, <2>1, <2>2, <2>4
  <2> QED BY <2>4, <2>5, <2>6 DEF LedgerInv, Leaving
<1>11. CASE OpenPosition
  <2>1. cur \in Ticker
    BY <1>t, <1>11 DEF OpenPosition
  <2>2. /\ UNCHANGED aborts /\ entryOrders' = entryOrders - 1
        /\ pc = "open" /\ pc' = "entries"
        /\ rows' = [rows EXCEPT ![cur] = OpenedRow]
    BY <1>11 DEF OpenPosition
  <2>3. OpenedRow.status = "open" /\ OpenedRow.exitOrders = 0
    BY DEF OpenedRow, NoRow
  <2>4. Unfiled' \ {} \subseteq Unfiled \ {}
    BY <1>t, <2>1, <2>2, <2>3 DEF Unfiled
  <2>5. AnalyticsEnabled => Cardinality(Unfiled' \ {}) <= aborts
    <3>1. /\ Cardinality(Unfiled' \ {}) <= Cardinality(Unfiled \ {})
          /\ Cardinality(Unfiled' \ {}) \in Nat /\ Cardinality(Unfiled \ {}) \in Nat
      BY <1>f, <2>4
    <3> QED BY <1>t, <2>2, <3>1 DEF LedgerInv
  <2>6. \A t \in Ticker :
          /\ rows'[t].exitOrders <= aborts' + (IF Leaving(t)' THEN 1 ELSE 0)
          /\ Leaving(t)' => rows'[t].exitOrders >= 1
    BY <1>t, <2>1, <2>2, <2>3 DEF LedgerInv, Leaving
  <2>7. entryOrders' <= aborts'
    BY <1>t, <2>2 DEF LedgerInv
  <2>8. /\ Unfiled' \ (IF pc' = "analyse" THEN {cur'} ELSE {}) = Unfiled' \ {}
        /\ aborts' + (IF pc' = "open" THEN 1 ELSE 0) = aborts'
    BY <1>t, <2>2
  <2> QED BY <2>2, <2>5, <2>6, <2>7, <2>8 DEF LedgerInv
<1> QED BY <1>1, <1>2, <1>3, <1>4, <1>6, <1>7, <1>8, <1>9, <1>10, <1>11, LedgerQuiet

\* Whatever fails and wherever: between cycles every closed trade is filed, every
\* closed position had its exit ordered and every entry order has its position,
\* but for one loss or duplicate per cycle that failed.
THEOREM LedgerIsComplete == Spec => []LedgerComplete
<1>1. TypeInv /\ LedgerInv => LedgerComplete
  <2> SUFFICES ASSUME TypeInv, LedgerInv, pc = "idle"
               PROVE  LedgerComplete
    BY DEF LedgerComplete
  <2>1. /\ aborts \in Nat /\ Unfiled \ {} = Unfiled
        /\ \A t \in Ticker : rows[t].exitOrders \in Nat
    BY DEF TypeInv, TypeOK, Row
  <2>2. AnalyticsEnabled => Cardinality(Unfiled) <= aborts
    BY <2>1 DEF LedgerInv
  <2> QED BY <2>1, <2>2 DEF LedgerInv, Leaving, LedgerComplete, Unfiled
<1> QED BY <1>1, LedgerInit, LedgerStep, RowsCorrect, PTL DEF Spec

--------------------------------------------------------------------------
\* The cluster cap.

\* The booked positions of a cluster.
InCluster(l) == {t \in booked : labels.book[t] = l}

\* While the two labellings agree the counts the entries are admitted by are
\* those of the book, and an order is only out while its cluster has room.
ClusterInv ==
  /\ pc \in {"entries", "open"} /\ labels.signal = labels.book =>
       \A l \in Label : counted[l] = Cardinality(InCluster(l))
  /\ pc = "open" /\ MaxPerCluster > 0 => counted[labels.signal[cur]] < MaxPerCluster

LEMMA ClusterInit == Init => ClusterInv
BY DEF Init, ClusterInv

LEMMA LabelTypes ==
  TypeInv => /\ labels.signal \in [Ticker -> Label] /\ labels.book \in [Ticker -> Label]
             /\ counted \in [Label -> Nat]
BY LocalExecutionAssumption DEF TypeInv, TypeOK

\* A new position adds one to the count of its cluster and to no other.
LEMMA OpenCounts ==
  ASSUME TypeInv, EntryInv, ClusterInv, OpenPosition, labels.signal = labels.book
  PROVE  /\ \A l \in Label : counted'[l] = Cardinality(InCluster(l))'
         /\ cur \in Ticker /\ cur \in booked' /\ booked' = OpenTickers'
         /\ counted'[labels.book[cur]] = counted[labels.book[cur]] + 1
<1>1. /\ cur \in Ticker /\ rows \in [Ticker -> Row] /\ booked \in SUBSET Ticker
      /\ labels.book \in [Ticker -> Label] /\ counted \in [Label -> Nat]
  BY LabelTypes DEF OpenPosition, TypeInv, TypeOK, InHand
<1>2. /\ booked = OpenTickers /\ cur \notin booked
      /\ booked' = booked \cup {cur} /\ UNCHANGED labels
      /\ rows' = [rows EXCEPT ![cur] = OpenedRow]
      /\ counted' = [counted EXCEPT ![labels.book[cur]] = counted[labels.book[cur]] + 1]
  BY <1>1 DEF OpenPosition, EntryInv, OpenTickers
<1>3. booked' = OpenTickers'
  BY <1>1, <1>2 DEF OpenTickers, OpenedRow, NoRow
<1>4. ASSUME NEW l \in Label
      PROVE  counted'[l] = Cardinality(InCluster(l))'
  <2>1. counted[l] = Cardinality(InCluster(l)) /\ IsFiniteSet(InCluster(l))
    <3>1. IsFiniteSet(InCluster(l))
      BY <1>1, LocalExecutionAssumption, FS_Subset DEF InCluster
    <3> QED BY <3>1 DEF ClusterInv, OpenPosition
  <2>2. CASE l = labels.book[cur]
    <3>1. InCluster(l)' = InCluster(l) \cup {cur} /\ cur \notin InCluster(l)
      BY <1>2, <2>2 DEF InCluster
    <3>2. Cardinality(InCluster(l) \cup {cur}) = Cardinality(InCluster(l)) + 1
      BY <2>1, <3>1, FS_AddElement
    <3> QED BY <1>1, <1>2, <2>1, <2>2, <3>1, <3>2
  <2>3. CASE l # labels.book[cur]
    <3>1. InCluster(l)' = InCluster(l)
      BY <1>2, <2>3 DEF InCluster
    <3> QED BY <1>1, <1>2, <2>1, <2>3, <3>1
  <2> QED BY <2>2, <2>3
<1> QED BY <1>1, <1>2, <1>3, <1>4

LEMMA ClusterStep == TypeInv /\ EntryInv /\ ClusterInv /\ [Next]_vars => ClusterInv'
<1> SUFFICES ASSUME TypeInv, EntryInv, ClusterInv, [Next]_vars
             PROVE  ClusterInv'
  OBVIOUS
<1>t. /\ labels.signal \in [Ticker -> Label] /\ counted \in [Label -> Nat]
      /\ pc = "open" => cur \in Ticker
  BY LabelTypes DEF TypeInv, InHand
<1>1. ASSUME NEW f \in Labelling, NEW g \in Labelling, BeginEntries(f, g)
      PROVE  ClusterInv'
  <2>1. /\ pc' = "entries" /\ labels'.book = g /\ booked' = OpenTickers
        /\ counted' = [l \in Label |-> Cardinality({t \in OpenTickers : g[t] = l})]
    BY <1>1 DEF BeginEntries
  <2> QED BY <2>1 DEF ClusterInv, InCluster
<1>2. ASSUME NEW t \in Ticker, SkipEntry(t)
      PROVE  ClusterInv'
  BY <1>2 DEF SkipEntry, ClusterInv, InCluster, entryVars
<1>3. ASSUME NEW t \in Ticker, OrderEntry(t)
      PROVE  ClusterInv'
  <2>1. /\ UNCHANGED <<booked, counted, labels>> /\ pc = "entries" /\ pc' = "open"
        /\ cur' = t
    BY <1>3 DEF OrderEntry, entryVars
  <2>2. MaxPerCluster > 0 => ~(counted[labels.signal[t]] >= MaxPerCluster)
    BY <1>3 DEF OrderEntry, Admitted, Admits, Reached
  <2>3. counted[labels.signal[t]] \in Nat
    BY <1>t
  <2> QED BY <2>1, <2>2, <2>3, EntryGateAssumption DEF ClusterInv, InCluster
<1>4. CASE OpenPosition
  <2>1. pc' = "entries" /\ UNCHANGED labels
    BY <1>4 DEF OpenPosition
  <2> QED BY <1>4, <2>1, OpenCounts DEF ClusterInv
<1>5. CASE NewDay
  BY <1>5 DEF NewDay, ClusterInv, InCluster, entryVars
<1>6. CASE UNCHANGED vars
  BY <1>6 DEF vars, ClusterInv, InCluster
<1>7. CASE pc' \notin {"entries", "open"}
  BY <1>7 DEF ClusterInv
<1> QED
  BY <1>1, <1>2, <1>3, <1>4, <1>5, <1>6, <1>7
  DEF Next, EngineStep, ReviewStep, EntryStep, StartCycle, ReviewFails, ReadPrice,
      AdvanceRatchet, KeepPosition, OrderExit, ClosePosition, RecordTrade, EndConfirmed,
      EndEntries, Abort, Reconfigure, Tick, ForgetCycle

\* No entry brings its cluster above MAX_POSITIONS_PER_CLUSTER as long as the
\* labels the signals carry are those the book was counted by, for every
\* labelling the correlations can give.
THEOREM ClusterCapHolds == Spec => ClusterCapKept
<1>1. TypeInv /\ EntryInv /\ ClusterInv /\ [Next]_vars =>
        [\A t \in Ticker :
           ( /\ rows[t].status # "open" /\ rows'[t].status = "open"
             /\ MaxPerCluster > 0 /\ labels.signal = labels.book ) =>
           Cardinality({u \in Ticker : /\ rows'[u].status = "open"
                                       /\ labels.book[u] = labels.book[t]})
             <= MaxPerCluster]_vars
  <2> SUFFICES ASSUME TypeInv, EntryInv, ClusterInv, [Next]_vars, NEW t \in Ticker,
                      rows[t].status # "open", rows'[t].status = "open",
                      MaxPerCluster > 0, labels.signal = labels.book
               PROVE  Cardinality({u \in Ticker : /\ rows'[u].status = "open"
                                                  /\ labels.book[u] = labels.book[t]})
                        <= MaxPerCluster
    OBVIOUS
  <2>1. OpenPosition
    BY OnlyOpenPositionOpens
  <2>2. t = cur /\ UNCHANGED labels
    BY <2>1 DEF OpenPosition, TypeInv, TypeOK, InHand
  <2>3. PICK l \in Label : l = labels.book[t]
    BY LabelTypes
  <2>4. {u \in Ticker : rows'[u].status = "open" /\ labels.book[u] = l} = InCluster(l)'
    <3>1. booked' = OpenTickers'
      BY <2>1, OpenCounts
    <3> QED BY <2>2, <3>1 DEF InCluster, OpenTickers
  <2>5. counted[l] < MaxPerCluster /\ counted[l] \in Nat
    BY <2>1, <2>2, <2>3, LabelTypes DEF ClusterInv, OpenPosition
  <2>6. counted'[l] = counted[l] + 1 /\ Cardinality(InCluster(l))' = counted'[l]
    BY <2>1, <2>2, <2>3, OpenCounts
  <2>7. Cardinality({u \in Ticker : rows'[u].status = "open" /\ labels.book[u] = l})
          = counted[l] + 1
    BY <2>4, <2>6
  <2>8. counted[l] + 1 <= MaxPerCluster
    BY <2>5, EntryGateAssumption
  <2> QED BY <2>3, <2>7, <2>8
<1> QED BY <1>1, TypeInit, EntryInit, ClusterInit, TypeStep, EntryStepKeeps, ClusterStep, PTL
    DEF Spec, ClusterCapKept
=============================================================================
