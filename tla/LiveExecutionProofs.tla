----------------------- MODULE LiveExecutionProofs -----------------------
(***************************************************************************)
(* What holds of LiveExecution for every set of tickers, every setting and *)
(* any number of failed cycles, lost answers and moves of the venue.       *)
(***************************************************************************)
EXTENDS LiveExecution, PositionBookProofs, FiniteSetTheorems, TLAPS

--------------------------------------------------------------------------
LEMMA LabellingTypes == SomeLabelling \in Labelling /\ NoLabels \in [signal : Labelling, book : Labelling]
BY LiveExecutionAssumption DEF SomeLabelling, NoLabels

LEMMA OpenTickersFinite == ASSUME NEW S \in SUBSET OpenTickers
                           PROVE  IsFiniteSet(S) /\ Cardinality(S) \in Nat
BY LiveExecutionAssumption, FS_Subset, FS_CardinalityType DEF OpenTickers

LEMMA RecordTypes ==
  /\ NoRecord \in Record
  /\ \A record \in Record : Outdated(record) \in Record
  /\ \A records \in [Ticker -> Record] : OutdatedUnlessOpen(records) \in [Ticker -> Record]
<1>1. NoRecord \in Record
  BY DEF NoRecord, Record
<1>2. \A record \in Record : Outdated(record) \in Record
  BY DEF Outdated, Record
<1> QED BY <1>1, <1>2 DEF OutdatedUnlessOpen

LEMMA VenueTypes ==
  /\ Flat \in VenuePosition
  /\ \A position \in VenuePosition, stop \in Int : Guard(position, stop) \in VenuePosition
  /\ \A position \in VenuePosition, n \in Nat : Reduced(position, n) \in VenuePosition
<1>1. Flat \in VenuePosition
  BY LevelTypes DEF Flat, VenuePosition
<1>2. \A position \in VenuePosition, stop \in Int : Guard(position, stop) \in VenuePosition
  BY DEF VenuePosition, Guard
<1>3. \A position \in VenuePosition, n \in Nat : Reduced(position, n) \in VenuePosition
  BY <1>1 DEF VenuePosition, Reduced
<1> QED BY <1>1, <1>2, <1>3

--------------------------------------------------------------------------
\* Types.

\* A position or candidate is in hand exactly where a handler works on one.
InHand ==
  pc \in Entering \cup {"order", "close", "analyse", "arm", "raise", "mark", "await"} =>
    cur \in Ticker

TypeInv == TypeOK /\ InHand

LEMMA TypeInit == Init => TypeInv
BY RowTypes, RecordTypes, VenueTypes, LabellingTypes, LiveExecutionAssumption
   DEF Init, TypeInv, TypeOK, InHand, Phases, Walks, Entering, NoCounts

LEMMA ForgetCycleTypes ==
  ForgetCycle =>
    /\ pc' = "idle" /\ stage' \in {"emerging", "confirmed"}
    /\ ready' \in SUBSET Ticker /\ todo' \in SUBSET Ticker
    /\ cur' \in Ticker \cup {Nobody} /\ taken' \in Record /\ back' \in Walks
    /\ closedTickers' \in SUBSET Ticker /\ booked' \in SUBSET Ticker
    /\ counted' \in [Label -> Nat]
    /\ labels' \in [signal : Labelling, book : Labelling]
BY LabellingTypes, RecordTypes DEF ForgetCycle, NoCounts, Walks

\* What the venue does leaves its own state well typed.
LEMMA VenueStepTypes ==
  ASSUME TypeInv, NEW t \in Ticker, VenueStep(t)
  PROVE  /\ EngineWaits
         /\ venue' \in [Ticker -> VenuePosition]
         /\ buys' \in [Ticker -> Nat] /\ sells' \in [Ticker -> Nat]
         /\ pnl' \in [Ticker -> Record] /\ hidden' \in [Ticker -> Record]
<1> USE DEF TypeInv, TypeOK
<1>v. venue[t] \in VenuePosition /\ buys[t] \in Nat /\ sells[t] \in Nat
  OBVIOUS
<1>r. ASSUME NEW p \in Price, Recorded(t, p)
      PROVE  hidden' \in [Ticker -> Record]
  <2>1. p \in Int
    BY LiveExecutionAssumption
  <2> QED BY <1>r, <2>1 DEF Recorded, Record
<1>1. CASE PublishStep(t)
  BY <1>1, RecordTypes DEF PublishStep, Publish
<1>2. CASE FillBuy(t) /\ EngineWaits
  BY <1>2, <1>v DEF FillBuy, VenuePosition
<1>3. CASE CancelBuy(t) /\ EngineWaits
  BY <1>3, <1>v DEF CancelBuy
<1>4. ASSUME NEW p \in Price, FillSell(t, p), EngineWaits
      PROVE  venue' \in [Ticker -> VenuePosition] /\ sells' \in [Ticker -> Nat]
  BY <1>4, <1>v, VenueTypes DEF FillSell
<1>5. CASE CancelSell(t) /\ EngineWaits
  BY <1>5 DEF CancelSell
<1>6. ASSUME NEW p \in Price, TriggerExit(t, p), EngineWaits
      PROVE  venue' \in [Ticker -> VenuePosition] /\ sells' \in [Ticker -> Nat]
  BY <1>6, VenueTypes DEF TriggerExit
<1>7. ASSUME NEW p \in Price, FillSell(t, p) \/ TriggerExit(t, p)
      PROVE  Recorded(t, p) /\ UNCHANGED <<buys, pnl>>
  BY <1>7 DEF FillSell, TriggerExit
<1> QED BY <1>1, <1>2, <1>3, <1>4, <1>5, <1>6, <1>7, <1>r DEF VenueStep, PublishStep

LEMMA TypeStep == TypeInv /\ [Next]_vars => TypeInv'
<1> SUFFICES ASSUME TypeInv, [Next]_vars
             PROVE  TypeInv'
  OBVIOUS
<1> USE DEF TypeInv, TypeOK, InHand, Phases, Walks, Entering, venueVars, ghostVars, entryVars
<1>o. OpenTickers \in SUBSET Ticker
  BY DEF OpenTickers
<1>1. ASSUME NEW s \in {"emerging", "confirmed"}, NEW R \in SUBSET Ticker, StartCycle(s, R)
      PROVE  TypeInv'
  BY <1>1, <1>o DEF StartCycle
<1>2. ASSUME NEW t \in Ticker, SyncPass(t) \/ SyncTake(t)
      PROVE  TypeInv'
  BY <1>2 DEF SyncPass, SyncTake
<1>3. ASSUME NEW t \in Ticker, NEW p \in Price, PassBreakEven(t, p) \/ PassTarget(t, p)
      PROVE  TypeInv'
  BY <1>3 DEF PassBreakEven, PassTarget, AtTarget
<1>4. ASSUME NEW t \in Ticker, NEW p \in Price, ArmVenue(t, p)
      PROVE  TypeInv'
  <2>1. venue' \in [Ticker -> VenuePosition]
    BY <1>4, VenueTypes, LevelTypes DEF ArmVenue
  <2> QED BY <1>4, <2>1 DEF ArmVenue
<1>5. ASSUME NEW t \in Ticker, NEW p \in Price, RaiseVenueStop(t, p)
      PROVE  TypeInv'
  <2>1. rows[t].step + 1 \in Nat
    BY DEF Row
  <2>2. venue' \in [Ticker -> VenuePosition]
    BY <1>5, <2>1, VenueTypes, LevelTypes DEF RaiseVenueStop
  <2> QED BY <1>5, <2>2 DEF RaiseVenueStop, AtTarget
<1>6. ASSUME NEW t \in Ticker, NEW p \in Price, MarkUnseen(t, p)
      PROVE  TypeInv'
  <2>1. rows' \in [Ticker -> Row]
    BY <1>6, RowTypes DEF MarkUnseen
  <2> QED BY <1>6, <2>1 DEF MarkUnseen, AtTarget
<1>7. ASSUME NEW t \in Ticker, SellOrdered(t)
      PROVE  sells' \in [Ticker -> Nat] /\ sent' \in [Ticker -> Nat]
  BY <1>7 DEF SellOrdered, VenuePosition
<1>8. ASSUME NEW t \in Ticker, NEW p \in Price, SendExit(t, p)
      PROVE  TypeInv'
  BY <1>7, <1>8 DEF SendExit, AtTarget
<1>9. ASSUME NEW t \in Ticker, NEW p \in Price, LoseExitAck(t, p)
      PROVE  TypeInv'
  BY <1>7, <1>9, ForgetCycleTypes DEF LoseExitAck, AtTarget
<1>10. CASE OrderExit
  BY <1>10, RowTypes DEF OrderExit
<1>11. CASE ClosePosition
  BY <1>11, RowTypes DEF ClosePosition, Record
<1>12. CASE RecordTrade
  <2> DEFINE event == RowExitEvent(rows[cur], taken.price, "take_profit_hit")
  <2>1. event \in ExitEvents /\ rows[cur] \in Row
    BY <1>12, ExitEventType DEF RecordTrade, Record
  <2>2. AnalysedRow(rows[cur], event) \in Row
    BY <2>1, RowTypes
  <2>3. rows' = [rows EXCEPT ![cur] = AnalysedRow(rows[cur], event)]
    BY <1>12 DEF RecordTrade
  <2>4. rows' \in [Ticker -> Row]
    BY <2>2, <2>3
  <2>5. closedTickers' \in SUBSET Ticker
    BY <1>12 DEF RecordTrade
  <2> QED BY <1>12, <2>4, <2>5, RecordTypes DEF RecordTrade
<1>13. CASE EndSync \/ EndBreakEven
  BY <1>13, <1>o DEF EndSync, EndBreakEven
<1>14. CASE ArmRow
  BY <1>14, RowTypes DEF ArmRow
<1>15. CASE AdvanceRow
  <2>1. rows[cur] \in Row /\ rows[cur].step + 1 \in Nat
    BY <1>15 DEF AdvanceRow, Row
  <2>2. rows' \in [Ticker -> Row]
    BY <1>15, <2>1, RowTypes DEF AdvanceRow
  <2> QED BY <1>15, <2>2 DEF AdvanceRow
<1>16. CASE MarkPending
  BY <1>16, RowTypes DEF MarkPending
<1>17. CASE ConfirmExit \/ GiveUpExit
  BY <1>17 DEF ConfirmExit, GiveUpExit
<1>18. CASE EndConfirmed \/ EndEntries
  BY <1>18, ForgetCycleTypes DEF EndConfirmed, EndEntries
<1>19. ASSUME NEW f \in Labelling, NEW g \in Labelling, BeginEntries(f, g)
       PROVE  TypeInv'
  <2>1. counted' \in [Label -> Nat]
    <3>1. \A l \in Label : Cardinality({t \in OpenTickers : g[t] = l}) \in Nat
      BY OpenTickersFinite
    <3> QED BY <1>19, <3>1 DEF BeginEntries
  <2>2. pnl' \in [Ticker -> Record] /\ hidden' \in [Ticker -> Record]
    BY <1>19, RecordTypes DEF BeginEntries
  <2> QED BY <1>19, <1>o, <2>1, <2>2 DEF BeginEntries
<1>20. ASSUME NEW t \in Ticker, SkipEntry(t) \/ PlaceBuy(t) \/ LoseBuyAck(t)
       PROVE  TypeInv'
  BY <1>20 DEF SkipEntry, PlaceBuy, LoseBuyAck, BuyOrdered
<1>21. CASE SeeFill \/ GiveUpEntry
  BY <1>21 DEF SeeFill, GiveUpEntry
<1>22. CASE SetFirstStop
  <2>1. venue' \in [Ticker -> VenuePosition]
    BY <1>22, VenueTypes, LevelTypes DEF SetFirstStop
  <2> QED BY <1>22, <2>1 DEF SetFirstStop
<1>23. CASE OpenPosition
  BY <1>23, RowTypes DEF OpenPosition
<1>24. CASE Abort
  BY <1>24, ForgetCycleTypes DEF Abort
<1>25. ASSUME NEW t \in Ticker, VenueStep(t)
       PROVE  TypeInv'
  <2>1. EngineWaits
    BY <1>25, VenueStepTypes
  <2> QED BY <1>25, <2>1, VenueStepTypes DEF EngineWaits
<1>26. CASE UNCHANGED vars
  BY <1>26 DEF vars
<1> QED
  BY <1>1, <1>2, <1>3, <1>4, <1>5, <1>6, <1>8, <1>9, <1>10, <1>11, <1>12, <1>13, <1>14,
     <1>15, <1>16, <1>17, <1>18, <1>19, <1>20, <1>21, <1>22, <1>23, <1>24, <1>25, <1>26
  DEF Next, EngineStep, WalkStep, ExitStep, EntryStep

\* Every state of live execution is well typed: the rows, the venue's positions,
\* orders and records, and the cycle's locals stay within their domains,
\* whatever fails and whenever it fails.
THEOREM LiveTypeCorrect == Spec => []TypeOK
<1>1. Spec => []TypeInv
  BY TypeInit, TypeStep, PTL DEF Spec
<1>2. TypeInv => TypeOK
  BY DEF TypeInv
<1> QED BY <1>1, <1>2, PTL
--------------------------------------------------------------------------
\* Rows and the walks over them.

InHandPhases == {"order", "close", "analyse", "arm", "raise", "mark", "await"}

\* The walks of a cycle reach open rows only, each row once: what a walk still
\* has to do and what it has in hand are open, until an exit is booked.
WalkInv ==
  /\ pc \in Walks \cup InHandPhases => todo \subseteq OpenTickers
  /\ pc \in InHandPhases => cur \notin todo
  /\ pc \in InHandPhases \ {"analyse"} => rows[cur].status = "open"
  /\ pc = "analyse" => rows[cur].status = "closed" /\ rows[cur].exit = taken.price

\* A row whose venue stop was just moved is one that may be armed or ratcheted.
MovedInv ==
  /\ pc = "arm" => ~rows[cur].breakEven
  /\ pc = "raise" => Climbs(cur)

\* Every row stands on a rung of the ladder of its own entry, and no trade is
\* filed under another stop than the one that stood.
RowsStand == \A t \in Ticker : OnLadder(rows[t]) /\ EventFits(rows[t])

RowInv == WalkInv /\ MovedInv /\ RowsStand

\* The actions that write rows.
LEMMA RowSteps ==
  [Next]_vars =>
    \/ UNCHANGED rows
    \/ \E t \in Ticker, p \in Price : MarkUnseen(t, p)
    \/ OrderExit \/ ClosePosition \/ RecordTrade \/ ArmRow \/ AdvanceRow
    \/ MarkPending \/ OpenPosition
BY DEF vars, Next, EngineStep, WalkStep, ExitStep, EntryStep, VenueStep, PublishStep,
       EngineWaits, StartCycle, SyncPass, SyncTake, PassBreakEven, ArmVenue, PassTarget,
       RaiseVenueStop, SendExit, LoseExitAck, EndSync, EndBreakEven, ConfirmExit,
       GiveUpExit, EndConfirmed, BeginEntries, SkipEntry, PlaceBuy, LoseBuyAck, SeeFill,
       SetFirstStop, GiveUpEntry, EndEntries, Abort

\* A walk takes a row in hand to book its close, to arm or ratchet it after its
\* venue stop, or to mark the exit it has sent.
Takes(t) ==
  /\ todo' = todo \ {t} /\ cur' = t /\ ready' = ready
  /\ \/ pc = "sync" /\ pc' = "order"
     \/ pc = "breakEven" /\ pc' = "arm" /\ ~rows[t].breakEven
     \/ pc = "targets" /\ pc' = "raise" /\ Climbs(t)
     \/ pc = "targets" /\ pc' = "mark"

\* The actions that leave rows alone: where they leave the walk.
LEMMA QuietSteps ==
  [Next]_vars /\ UNCHANGED rows =>
    \/ pc' \in {"idle", "entries"} \cup Entering
    \/ pc' \in Walks /\ todo' \in {OpenTickers, {}}
    \/ pc' = pc /\ todo' \subseteq todo /\ UNCHANGED <<cur, taken, ready>>
    \/ \E t \in todo : Takes(t)
    \/ pc = "await" /\ pc' = "order" /\ UNCHANGED <<todo, cur>>
    \/ pc = "await" /\ pc' = "targets" /\ UNCHANGED todo
    \/ \E t \in Ticker, p \in Price : MarkUnseen(t, p)
    \/ OrderExit \/ ClosePosition \/ RecordTrade \/ ArmRow \/ AdvanceRow
    \/ MarkPending \/ OpenPosition
<1> SUFFICES ASSUME [Next]_vars, UNCHANGED rows,
                    pc' \notin {"idle", "entries"} \cup Entering
             PROVE  \/ pc' \in Walks /\ todo' \in {OpenTickers, {}}
                    \/ pc' = pc /\ todo' \subseteq todo /\ UNCHANGED <<cur, taken, ready>>
                    \/ \E t \in todo : Takes(t)
                    \/ pc = "await" /\ pc' = "order" /\ UNCHANGED <<todo, cur>>
                    \/ pc = "await" /\ pc' = "targets" /\ UNCHANGED todo
                    \/ \E t \in Ticker, p \in Price : MarkUnseen(t, p)
                    \/ OrderExit \/ ClosePosition \/ RecordTrade \/ ArmRow \/ AdvanceRow
                    \/ MarkPending \/ OpenPosition
  OBVIOUS
<1>1. ASSUME NEW s \in {"emerging", "confirmed"}, NEW R \in SUBSET Ticker, StartCycle(s, R)
      PROVE  pc' \in Walks /\ todo' \in {OpenTickers, {}}
  BY <1>1 DEF StartCycle, Walks
<1>2. ASSUME NEW t \in Ticker,
             \/ SyncTake(t)
             \/ \E p \in Price : ArmVenue(t, p) \/ RaiseVenueStop(t, p) \/ SendExit(t, p)
      PROVE  t \in todo /\ Takes(t)
  BY <1>2 DEF Takes, SyncTake, ArmVenue, Arms, RaiseVenueStop, SendExit, AtTarget
<1>3. ASSUME NEW t \in Ticker,
             SyncPass(t) \/ \E p \in Price : PassBreakEven(t, p) \/ PassTarget(t, p)
      PROVE  pc' = pc /\ todo' \subseteq todo /\ UNCHANGED <<cur, taken, ready>>
  BY <1>3 DEF SyncPass, PassBreakEven, PassTarget
<1>4. ASSUME EndSync \/ EndBreakEven
      PROVE  pc' \in Walks /\ todo' \in {OpenTickers, {}}
  BY <1>4 DEF EndSync, EndBreakEven, Walks
<1>5. ASSUME NEW t \in Ticker, VenueStep(t)
      PROVE  pc' = pc /\ todo' \subseteq todo /\ UNCHANGED <<cur, taken, ready>>
  BY <1>5 DEF VenueStep, PublishStep, EngineWaits
<1>6. ASSUME UNCHANGED vars
      PROVE  pc' = pc /\ todo' \subseteq todo /\ UNCHANGED <<cur, taken, ready>>
  BY <1>6 DEF vars
<1>7. ASSUME NEW t \in Ticker, NEW p \in Price, LoseExitAck(t, p)
      PROVE  FALSE
  BY <1>7 DEF LoseExitAck, ForgetCycle
<1>8. CASE ConfirmExit \/ GiveUpExit
  BY <1>8 DEF ConfirmExit, GiveUpExit
<1>9. ASSUME EndConfirmed \/ EntryStep \/ Abort
      PROVE  OpenPosition
  BY <1>9 DEF EntryStep, EndConfirmed, BeginEntries, SkipEntry, PlaceBuy, LoseBuyAck,
              BuyOrdered, SeeFill, SetFirstStop, GiveUpEntry, EndEntries, Abort,
              ForgetCycle, Entering
<1> QED
  BY <1>1, <1>2, <1>3, <1>4, <1>5, <1>6, <1>7, <1>8, <1>9
  DEF Next, EngineStep, WalkStep, ExitStep

LEMMA RowInit == Init => RowInv
BY LadderKept, EventKept
   DEF Init, RowInv, WalkInv, MovedInv, RowsStand, Walks, InHandPhases

LEMMA RowStep == TypeInv /\ RowInv /\ [Next]_vars => RowInv'
<1> SUFFICES ASSUME TypeInv, RowInv, [Next]_vars
             PROVE  RowInv'
  OBVIOUS
<1>t. /\ rows \in [Ticker -> Row] /\ taken \in Record /\ todo \in SUBSET Ticker
      /\ back \in Walks /\ taken.price \in Int
      /\ pc \in Entering \cup InHandPhases => cur \in Ticker
  BY DEF TypeInv, TypeOK, InHand, InHandPhases, Record
<1> USE DEF RowInv, WalkInv, MovedInv, RowsStand, OpenTickers, Walks, InHandPhases
<1>1. ASSUME NEW t \in Ticker, NEW p \in Price, MarkUnseen(t, p)
      PROVE  RowInv'
  <2>1. rows[t].status = "open" /\ rows[t] \in Row
    BY <1>t, <1>1 DEF MarkUnseen, AtTarget
  <2>2. /\ OnLadder(PendingRow(rows[t])) /\ EventFits(PendingRow(rows[t]))
        /\ PendingRow(rows[t]).status = "open"
    BY <2>1, LadderKept, EventKept, StatusKept
  <2> QED BY <1>t, <1>1, <2>1, <2>2 DEF MarkUnseen, AtTarget
<1>2. CASE OrderExit
  <2>1. cur \in Ticker /\ rows[cur].status = "open" /\ rows[cur] \in Row
    BY <1>t, <1>2 DEF OrderExit
  <2>2. /\ OnLadder(ExitOrderedRow(rows[cur])) /\ EventFits(ExitOrderedRow(rows[cur]))
        /\ ExitOrderedRow(rows[cur]).status = "open"
    BY <2>1, LadderKept, EventKept, StatusKept
  <2> QED BY <1>t, <1>2, <2>1, <2>2 DEF OrderExit
<1>3. CASE ClosePosition
  <2>1. cur \in Ticker /\ rows[cur].status = "open" /\ rows[cur] \in Row
    BY <1>t, <1>3 DEF ClosePosition
  <2> DEFINE row == ClosedRow(rows[cur], taken.price)
  <2>2. OnLadder(row) /\ EventFits(row)
    BY <2>1, LadderKept, EventKept
  <2>3. row.status = "closed" /\ row.exit = taken.price
    BY <2>1 DEF ClosedRow, Row
  <2>4. rows' = [rows EXCEPT ![cur] = row]
    BY <1>3 DEF ClosePosition
  <2> HIDE DEF row
  <2> QED BY <1>t, <1>3, <2>1, <2>2, <2>3, <2>4 DEF ClosePosition
<1>4. CASE RecordTrade
  <2>1. /\ cur \in Ticker /\ rows[cur] \in Row
        /\ rows[cur].status = "closed" /\ rows[cur].exit = taken.price
    BY <1>t, <1>4 DEF RecordTrade
  <2> DEFINE row == AnalysedRow(rows[cur],
                                RowExitEvent(rows[cur], taken.price, "take_profit_hit"))
  <2>2. OnLadder(row) /\ EventFits(row) /\ row.status = "closed"
    BY <2>1, LadderKept, FiledEventFits, StatusKept
  <2>3. rows' = [rows EXCEPT ![cur] = row]
    BY <1>4 DEF RecordTrade
  <2> HIDE DEF row
  <2> QED BY <1>t, <1>4, <2>1, <2>2, <2>3 DEF RecordTrade
<1>5. CASE ArmRow
  <2>1. cur \in Ticker /\ rows[cur].status = "open" /\ rows[cur] \in Row
    BY <1>t, <1>5 DEF ArmRow
  <2>2. /\ OnLadder(ArmedRow(rows[cur])) /\ EventFits(ArmedRow(rows[cur]))
        /\ ArmedRow(rows[cur]).status = "open"
    BY <1>5, <2>1, LadderKept, EventKept, StatusKept DEF ArmRow
  <2> QED BY <1>t, <1>5, <2>1, <2>2 DEF ArmRow
<1>6. CASE AdvanceRow
  <2>1. cur \in Ticker /\ rows[cur].status = "open" /\ rows[cur] \in Row
    BY <1>t, <1>6 DEF AdvanceRow
  <2> DEFINE row == RatchetedRow(rows[cur], rows[cur].step + 1)
  <2>2. OnLadder(row) /\ EventFits(row) /\ row.status = "open"
    BY <1>6, <2>1, RatchetClimbs, EventKept, StatusKept DEF AdvanceRow, Climbs
  <2>3. rows' = [rows EXCEPT ![cur] = row]
    BY <1>6 DEF AdvanceRow
  <2> HIDE DEF row
  <2> QED BY <1>t, <1>6, <2>1, <2>2, <2>3 DEF AdvanceRow
<1>7. CASE MarkPending
  <2>1. cur \in Ticker /\ rows[cur].status = "open" /\ rows[cur] \in Row
    BY <1>t, <1>7 DEF MarkPending
  <2>2. /\ OnLadder(PendingRow(rows[cur])) /\ EventFits(PendingRow(rows[cur]))
        /\ PendingRow(rows[cur]).status = "open"
    BY <2>1, LadderKept, EventKept, StatusKept
  <2> QED BY <1>t, <1>7, <2>1, <2>2 DEF MarkPending
<1>8. CASE OpenPosition
  <2>1. cur \in Ticker
    BY <1>t, <1>8 DEF OpenPosition, Entering
  <2> QED BY <1>t, <1>8, <2>1, LadderKept, EventKept DEF OpenPosition
<1>9. CASE UNCHANGED rows
  <2>1. RowsStand'
    BY <1>9
  <2>2. CASE pc' \in {"idle", "entries"} \cup Entering
    BY <2>1, <2>2 DEF Entering
  <2>3. CASE pc' \in Walks /\ todo' \in {OpenTickers, {}}
    BY <1>9, <2>1, <2>3
  <2>4. CASE pc' = pc /\ todo' \subseteq todo /\ UNCHANGED <<cur, taken, ready>>
    BY <1>9, <2>1, <2>4 DEF Climbs
  <2>5. ASSUME NEW t \in todo, Takes(t)
        PROVE  RowInv'
    BY <1>9, <2>1, <2>5 DEF Takes, Climbs
  <2>6. CASE pc = "await" /\ pc' = "order" /\ UNCHANGED <<todo, cur>>
    BY <1>9, <2>1, <2>6
  <2>7. CASE pc = "await" /\ pc' = "targets" /\ UNCHANGED todo
    BY <1>9, <2>1, <2>7
  <2> QED
    BY <1>1, <1>2, <1>3, <1>4, <1>5, <1>6, <1>7, <1>8, <1>9,
       <2>2, <2>3, <2>4, <2>5, <2>6, <2>7, QuietSteps
<1> QED BY <1>1, <1>2, <1>3, <1>4, <1>5, <1>6, <1>7, <1>8, <1>9, RowSteps

LEMMA RowsCorrect == Spec => [](TypeInv /\ RowInv)
<1>1. Init => TypeInv /\ RowInv
  BY TypeInit, RowInit
<1>2. TypeInv /\ RowInv /\ [Next]_vars => (TypeInv /\ RowInv)'
  BY TypeStep, RowStep
<1> QED BY <1>1, <1>2, PTL DEF Spec

\* In live execution as in local execution every row stands on a rung of the
\* ladder of its own entry, though its stop is moved at the venue first and in
\* the row after, and a trade is filed under the stop it hit as that stop stood.
THEOREM LiveRowsStand == Spec => []RowsStand
<1>1. RowInv => RowsStand
  BY DEF RowInv
<1> QED BY <1>1, RowsCorrect, PTL
--------------------------------------------------------------------------
\* The lifecycle.

\* While candidates are handled the engine's picture of the book is the book,
\* and an entry order is only out for a ticker without a position and while the
\* cap leaves room for one.
EntryInv ==
  /\ pc \in {"entries"} \cup Entering => booked = OpenTickers
  /\ pc \in Entering => cur \notin OpenTickers
  /\ pc \in Entering /\ MaxOpenPositions > 0 =>
       Cardinality(OpenTickers) < MaxOpenPositions

LEMMA EntryInit == Init => EntryInv
BY DEF Init, EntryInv, Entering

LEMMA EntryStepKeeps == TypeInv /\ EntryInv /\ [Next]_vars => EntryInv'
<1> SUFFICES ASSUME TypeInv, EntryInv, [Next]_vars
             PROVE  EntryInv'
  OBVIOUS
<1> USE DEF EntryInv
<1>r. UNCHANGED rows => UNCHANGED OpenTickers
  BY DEF OpenTickers
<1>1. ASSUME NEW f \in Labelling, NEW g \in Labelling, BeginEntries(f, g)
      PROVE  EntryInv'
  BY <1>1, <1>r DEF BeginEntries, Entering
<1>2. ASSUME NEW t \in Ticker, SkipEntry(t) \/ LoseBuyAck(t)
      PROVE  EntryInv'
  BY <1>2, <1>r DEF SkipEntry, LoseBuyAck, BuyOrdered, entryVars, Entering
<1>3. ASSUME NEW t \in Ticker, PlaceBuy(t)
      PROVE  EntryInv'
  <2>1. /\ pc = "entries" /\ pc' = "fill" /\ UNCHANGED booked
        /\ UNCHANGED OpenTickers /\ booked = OpenTickers
    BY <1>3, <1>r DEF PlaceBuy, BuyOrdered, entryVars
  <2>2. cur' \notin OpenTickers
    BY <1>3, <2>1 DEF PlaceBuy, BuyOrdered, Admitted, Admits
  <2>3. MaxOpenPositions > 0 => ~(Cardinality(booked) >= MaxOpenPositions)
    BY <1>3 DEF PlaceBuy, BuyOrdered, Admitted, Admits, Reached
  <2>4. Cardinality(OpenTickers) \in Nat
    BY OpenTickersFinite
  <2> QED BY <2>1, <2>2, <2>3, <2>4, EntryGateAssumption
<1>4. CASE SeeFill \/ SetFirstStop \/ GiveUpEntry
  BY <1>4, <1>r DEF SeeFill, SetFirstStop, GiveUpEntry, entryVars, Entering
<1>5. CASE OpenPosition
  <2>1. cur \in Ticker /\ rows' = [rows EXCEPT ![cur] = OpenedRow] /\ rows \in [Ticker -> Row]
    BY <1>5 DEF OpenPosition, TypeInv, TypeOK, InHand, Entering
  <2>2. OpenTickers' = OpenTickers \cup {cur}
    BY <2>1 DEF OpenTickers, OpenedRow, NoRow
  <2> QED BY <1>5, <2>2 DEF OpenPosition, Entering
<1>6. ASSUME NEW t \in Ticker, VenueStep(t)
      PROVE  EntryInv'
  BY <1>6, <1>r DEF VenueStep, PublishStep, EngineWaits, entryVars
<1>7. CASE UNCHANGED vars
  BY <1>7, <1>r DEF vars
<1>8. CASE pc' \notin {"entries"} \cup Entering
  BY <1>8
<1>9. ASSUME NEW t \in Ticker, WalkStep(t)
      PROVE  pc' \notin {"entries"} \cup Entering
  BY <1>9
  DEF WalkStep, SyncPass, SyncTake, PassBreakEven, ArmVenue, PassTarget, RaiseVenueStop,
      MarkUnseen, SendExit, LoseExitAck, AtTarget, ForgetCycle, Entering
<1>10. ASSUME ExitStep
       PROVE  pc' \notin {"entries"} \cup Entering \/ RecordTrade
  BY <1>10
  DEF ExitStep, OrderExit, ClosePosition, EndSync, ArmRow, EndBreakEven, AdvanceRow,
      MarkPending, ConfirmExit, GiveUpExit, EndConfirmed, ForgetCycle, Entering
<1>11. CASE RecordTrade
  BY <1>11 DEF RecordTrade, TypeInv, TypeOK, Walks, Entering
<1> QED
  BY <1>1, <1>2, <1>3, <1>4, <1>5, <1>6, <1>7, <1>8, <1>9, <1>10, <1>11
  DEF Next, EngineStep, EntryStep, StartCycle, EndEntries, Abort, ForgetCycle, Entering

\* The stop under a ticker, as the lifecycle sees it.
Floor == [t \in Ticker |-> IF rows[t].status = "open" THEN rows[t].sl ELSE InitialStopLoss]

LEMMA LifeStep ==
  TypeInv /\ RowInv /\ EntryInv /\ [Next]_vars => [Life!LifeNext]_(Life!lifeVars)
<1> SUFFICES ASSUME TypeInv, RowInv, EntryInv, [Next]_vars
             PROVE  Life!LifeNext \/ UNCHANGED <<OpenTickers, Floor>>
  BY DEF Life!lifeVars, Floor
<1>t. /\ rows \in [Ticker -> Row] /\ taken \in Record /\ taken.price \in Int
      /\ pc \in Entering \cup InHandPhases => cur \in Ticker
  BY DEF TypeInv, TypeOK, InHand, InHandPhases, Record
<1>w. /\ pc \in Walks \cup InHandPhases => todo \subseteq OpenTickers
      /\ pc \in InHandPhases \ {"analyse"} => rows[cur].status = "open"
      /\ pc = "analyse" => rows[cur].status = "closed"
      /\ pc = "arm" => ~rows[cur].breakEven
      /\ \A t \in Ticker : OnLadder(rows[t])
  BY DEF RowInv, WalkInv, MovedInv, RowsStand
<1> USE DEF InHandPhases
<1>1. ASSUME NEW t \in Ticker, NEW row \in Row,
             rows' = [rows EXCEPT ![t] = row], rows[t].status = "open",
             row.status = "open", row.sl >= rows[t].sl
      PROVE  Life!LifeNext
  <2>1. Life!RaiseStop(t)
    BY <1>t, <1>1 DEF Life!RaiseStop, OpenTickers
  <2> QED BY <2>1 DEF Life!LifeNext
<1>2. \A row \in Row : /\ PendingRow(row).sl >= row.sl
                       /\ ExitOrderedRow(row).sl >= row.sl
  BY DEF PendingRow, ExitOrderedRow, Row
<1>3. ASSUME NEW t \in Ticker, NEW p \in Price, MarkUnseen(t, p)
      PROVE  Life!LifeNext
  <2>1. rows[t].status = "open" /\ rows[t] \in Row
    BY <1>t, <1>w, <1>3 DEF MarkUnseen, AtTarget, OpenTickers, Walks
  <2>2. /\ PendingRow(rows[t]) \in Row /\ PendingRow(rows[t]).status = "open"
        /\ PendingRow(rows[t]).sl >= rows[t].sl
    BY <1>2, <2>1, RowTypes, StatusKept
  <2>3. rows' = [rows EXCEPT ![t] = PendingRow(rows[t])]
    BY <1>3 DEF MarkUnseen
  <2> QED BY <1>1, <2>1, <2>2, <2>3
<1>4. CASE OrderExit
  <2>1. cur \in Ticker /\ rows[cur].status = "open" /\ rows[cur] \in Row
    BY <1>t, <1>w, <1>4 DEF OrderExit
  <2>2. /\ ExitOrderedRow(rows[cur]) \in Row /\ ExitOrderedRow(rows[cur]).status = "open"
        /\ ExitOrderedRow(rows[cur]).sl >= rows[cur].sl
    BY <1>2, <2>1, RowTypes, StatusKept
  <2>3. rows' = [rows EXCEPT ![cur] = ExitOrderedRow(rows[cur])]
    BY <1>4 DEF OrderExit
  <2> QED BY <1>1, <2>1, <2>2, <2>3
<1>5. CASE ClosePosition
  <2>1. PICK t \in Ticker : t = cur
    BY <1>t, <1>5 DEF ClosePosition
  <2>2. rows[t].status = "open" /\ rows[t] \in Row
    BY <1>t, <1>w, <1>5, <2>1 DEF ClosePosition
  <2>3. ClosedRow(rows[t], taken.price).status = "closed"
    BY <2>2, StatusKept
  <2>4. rows' = [rows EXCEPT ![t] = ClosedRow(rows[t], taken.price)]
    BY <1>5, <2>1 DEF ClosePosition
  <2>5. OpenTickers' = OpenTickers \ {t} /\ t \in OpenTickers
    BY <1>t, <2>2, <2>3, <2>4 DEF OpenTickers
  <2>6. Floor' = [Floor EXCEPT ![t] = InitialStopLoss]
    BY <1>t, <2>3, <2>4 DEF Floor
  <2>7. Life!Leave(t)
    BY <2>5, <2>6 DEF Life!Leave, Floor
  <2> QED BY <2>7 DEF Life!LifeNext
<1>6. CASE RecordTrade
  <2>1. cur \in Ticker /\ rows[cur].status = "closed" /\ rows[cur] \in Row
    BY <1>t, <1>w, <1>6 DEF RecordTrade
  <2> DEFINE row == AnalysedRow(rows[cur],
                                RowExitEvent(rows[cur], taken.price, "take_profit_hit"))
  <2>2. row.status = "closed"
    BY <2>1, StatusKept
  <2>3. rows' = [rows EXCEPT ![cur] = row]
    BY <1>6 DEF RecordTrade
  <2> HIDE DEF row
  <2> QED BY <1>t, <2>1, <2>2, <2>3 DEF OpenTickers, Floor
<1>7. CASE ArmRow
  <2>1. cur \in Ticker /\ rows[cur].status = "open" /\ rows[cur] \in Row
    BY <1>t, <1>w, <1>7 DEF ArmRow
  <2>2. /\ ArmedRow(rows[cur]) \in Row /\ ArmedRow(rows[cur]).status = "open"
        /\ ArmedRow(rows[cur]).sl >= rows[cur].sl
    BY <1>w, <1>7, <2>1, RowTypes, StatusKept, StopRises DEF ArmRow
  <2>3. rows' = [rows EXCEPT ![cur] = ArmedRow(rows[cur])]
    BY <1>7 DEF ArmRow
  <2> QED BY <1>1, <2>1, <2>2, <2>3
<1>8. CASE AdvanceRow
  <2>1. cur \in Ticker /\ rows[cur].status = "open" /\ rows[cur] \in Row
    BY <1>t, <1>w, <1>8 DEF AdvanceRow
  <2> DEFINE row == RatchetedRow(rows[cur], rows[cur].step + 1)
  <2>2. row \in Row /\ row.status = "open" /\ row.sl >= rows[cur].sl
    <3>1. rows[cur].step + 1 \in Nat
      BY <2>1 DEF Row
    <3> QED BY <1>w, <2>1, <3>1, RowTypes, StatusKept, StopRises
  <2>3. rows' = [rows EXCEPT ![cur] = row]
    BY <1>8 DEF AdvanceRow
  <2> HIDE DEF row
  <2> QED BY <1>1, <2>1, <2>2, <2>3
<1>9. CASE MarkPending
  <2>1. cur \in Ticker /\ rows[cur].status = "open" /\ rows[cur] \in Row
    BY <1>t, <1>w, <1>9 DEF MarkPending
  <2>2. /\ PendingRow(rows[cur]) \in Row /\ PendingRow(rows[cur]).status = "open"
        /\ PendingRow(rows[cur]).sl >= rows[cur].sl
    BY <1>2, <2>1, RowTypes, StatusKept
  <2>3. rows' = [rows EXCEPT ![cur] = PendingRow(rows[cur])]
    BY <1>9 DEF MarkPending
  <2> QED BY <1>1, <2>1, <2>2, <2>3
<1>10. CASE OpenPosition
  <2>1. PICK t \in Ticker : t = cur
    BY <1>t, <1>10 DEF OpenPosition, Entering
  <2>2. t \notin OpenTickers /\ rows' = [rows EXCEPT ![t] = OpenedRow]
    BY <1>t, <1>10, <2>1 DEF OpenPosition, OpenTickers
  <2>3. OpenedRow.status = "open" /\ OpenedRow.sl = InitialStopLoss
    BY DEF OpenedRow, NoRow
  <2>4. MaxOpenPositions > 0 => Cardinality(OpenTickers) < MaxOpenPositions
    BY <1>10 DEF EntryInv, OpenPosition, Entering
  <2>5. OpenTickers' = OpenTickers \cup {t}
    BY <1>t, <2>2, <2>3 DEF OpenTickers
  <2>6. UNCHANGED Floor
    BY <1>t, <2>2, <2>3 DEF Floor, OpenTickers
  <2>7. Life!Enter(t)
    <3>1. UNCHANGED [u \in Ticker |->
                       IF rows[u].status = "open" THEN rows[u].sl ELSE InitialStopLoss]
      BY <2>6 DEF Floor
    <3>2. Life!Cardinality(OpenTickers) = Cardinality(OpenTickers)
      BY Zenon DEF Life!Cardinality, Cardinality
    <3> QED BY <2>2, <2>4, <2>5, <3>1, <3>2 DEF Life!Enter
  <2> QED BY <2>7 DEF Life!LifeNext
<1>11. CASE UNCHANGED rows
  BY <1>11 DEF OpenTickers, Floor
<1> QED
  BY <1>3, <1>4, <1>5, <1>6, <1>7, <1>8, <1>9, <1>10, <1>11, RowSteps

\* Live execution implements the lifecycle of positions, as far as the book
\* goes: whatever the venue does and whenever a cycle fails, a ticker has at
\* most one open position, the cap on open positions is kept, positions change
\* one at a time, and no statement loosens a stop.
THEOREM LiveImplementsLifecycle == Spec => ImplementsLifecycle
<1>1. Init => Life!LifeInit
  BY DEF Init, Life!LifeInit, OpenTickers, NoRow
<1>2. Init => EntryInv
  BY EntryInit
<1>3. TypeInv /\ RowInv /\ EntryInv /\ [Next]_vars
        => EntryInv' /\ [Life!LifeNext]_(Life!lifeVars)
  BY EntryStepKeeps, LifeStep
<1> QED BY <1>1, <1>2, <1>3, RowsCorrect, PTL
    DEF Spec, ImplementsLifecycle, Life!LifeSpec
--------------------------------------------------------------------------
\* Exits are sent again only after a failure.

\* A position whose exit is neither marked nor about to be marked as pending
\* has had no exit sent, but for those whose own cycle failed at it.
SentInv ==
  \A t \in Ticker :
    /\ sent[t] <= 1 + unmarked[t]
    /\ t \in OpenTickers /\ ~rows[t].pending /\ ~(cur = t /\ pc = "mark") =>
         sent[t] <= unmarked[t]

LEMMA SentInit == Init => SentInv
BY DEF Init, SentInv

\* Between sending an exit and marking it nothing happens in the engine but a failure.
LEMMA MarkFollows ==
  pc = "mark" /\ [Next]_vars =>
    \/ pc' = "mark" /\ cur' = cur /\ UNCHANGED <<rows, sent, unmarked>>
    \/ MarkPending
    \/ unmarked' = [unmarked EXCEPT ![cur] = @ + 1] /\ UNCHANGED <<rows, sent>>
BY DEF vars, Next, EngineStep, WalkStep, ExitStep, EntryStep, VenueStep, PublishStep,
       EngineWaits, StartCycle, SyncPass, SyncTake, PassBreakEven, ArmVenue, PassTarget,
       RaiseVenueStop, SendExit, LoseExitAck, MarkUnseen, AtTarget, OrderExit,
       ClosePosition, RecordTrade, EndSync, ArmRow, EndBreakEven, AdvanceRow, ConfirmExit,
       GiveUpExit, EndConfirmed, BeginEntries, SkipEntry, PlaceBuy, LoseBuyAck, BuyOrdered,
       SeeFill, SetFirstStop, GiveUpEntry, OpenPosition, EndEntries, Abort, ghostVars

\* The actions that send an exit, or forget the exits of an earlier position.
LEMMA SentSteps ==
  [Next]_vars =>
    \/ UNCHANGED <<sent, unmarked>>
    \/ pc = "mark" /\ sent' = sent /\ unmarked' = [unmarked EXCEPT ![cur] = @ + 1]
    \/ \E t \in Ticker, p \in Price : SendExit(t, p) \/ LoseExitAck(t, p)
    \/ OpenPosition
BY DEF vars, Next, EngineStep, WalkStep, ExitStep, EntryStep, VenueStep, PublishStep,
       EngineWaits, StartCycle, SyncPass, SyncTake, PassBreakEven, ArmVenue, PassTarget,
       RaiseVenueStop, MarkUnseen, OrderExit, ClosePosition, RecordTrade, EndSync, ArmRow,
       EndBreakEven, AdvanceRow, MarkPending, ConfirmExit, GiveUpExit, EndConfirmed,
       BeginEntries, SkipEntry, PlaceBuy, LoseBuyAck, SeeFill, SetFirstStop, GiveUpEntry,
       EndEntries, Abort, ghostVars

\* A statement on a row of the book leaves the row, closes it, or leaves both
\* its status and its pending exit, unless it marks or opens one.
LEMMA PendingKept ==
  ASSUME TypeInv, [Next]_vars, NEW t \in Ticker, ~OpenPosition,
         rows'[t].status = "open", ~rows'[t].pending
  PROVE  rows[t].status = "open" /\ ~rows[t].pending
<1>t. /\ rows \in [Ticker -> Row] /\ rows[t] \in Row
      /\ pc \in InHandPhases => cur \in Ticker
  BY DEF TypeInv, TypeOK, InHand, InHandPhases
<1> USE DEF InHandPhases
<1>k. \A row \in Row :
        /\ ExitOrderedRow(row).pending = row.pending /\ PendingRow(row).pending
        /\ ArmedRow(row).pending = row.pending
        /\ \A step : RatchetedRow(row, step).pending = row.pending
        /\ \A event : AnalysedRow(row, event).pending = row.pending
  BY DEF ExitOrderedRow, PendingRow, ArmedRow, RatchetedRow, AnalysedRow, Row
<1>1. ASSUME NEW u \in Ticker, NEW p \in Price, MarkUnseen(u, p)
      PROVE  rows[t].status = "open" /\ ~rows[t].pending
  BY <1>t, <1>k, <1>1 DEF MarkUnseen
<1>2. CASE OrderExit
  BY <1>t, <1>k, <1>2, StatusKept DEF OrderExit
<1>3. CASE ClosePosition
  BY <1>t, <1>3, StatusKept DEF ClosePosition
<1>4. CASE RecordTrade
  BY <1>t, <1>k, <1>4, StatusKept DEF RecordTrade
<1>5. CASE ArmRow
  BY <1>t, <1>k, <1>5, StatusKept DEF ArmRow
<1>6. CASE AdvanceRow
  BY <1>t, <1>k, <1>6, StatusKept DEF AdvanceRow
<1>7. CASE MarkPending
  BY <1>t, <1>k, <1>7 DEF MarkPending
<1>8. CASE UNCHANGED rows
  BY <1>8
<1> QED BY <1>1, <1>2, <1>3, <1>4, <1>5, <1>6, <1>7, <1>8, RowSteps

LEMMA SentStep == TypeInv /\ RowInv /\ SentInv /\ [Next]_vars => SentInv'
<1> SUFFICES ASSUME TypeInv, RowInv, SentInv, [Next]_vars
             PROVE  SentInv'
  OBVIOUS
<1>t. /\ sent \in [Ticker -> Nat] /\ unmarked \in [Ticker -> Nat] /\ rows \in [Ticker -> Row]
      /\ pc = "targets" => todo \subseteq OpenTickers
      /\ pc \in Entering \cup {"mark"} => cur \in Ticker
  BY DEF TypeInv, TypeOK, InHand, RowInv, WalkInv, Walks
<1> USE DEF SentInv, OpenTickers
<1>1. ASSUME NEW t \in Ticker, NEW p \in Price, SendExit(t, p)
      PROVE  SentInv'
  <2>1. /\ pc = "targets" /\ t \in OpenTickers /\ ~rows[t].pending
        /\ sent' = [sent EXCEPT ![t] = sent[t] + 1]
        /\ cur' = t /\ pc' = "mark" /\ UNCHANGED <<rows, unmarked>>
    BY <1>t, <1>1 DEF SendExit, AtTarget, Managed, SellOrdered
  <2>2. sent[t] <= unmarked[t]
    BY <2>1
  <2> QED BY <1>t, <2>1, <2>2
<1>2. ASSUME NEW t \in Ticker, NEW p \in Price, LoseExitAck(t, p)
      PROVE  SentInv'
  <2>1. /\ pc = "targets" /\ t \in OpenTickers /\ ~rows[t].pending
        /\ sent' = [sent EXCEPT ![t] = sent[t] + 1]
        /\ unmarked' = [unmarked EXCEPT ![t] = unmarked[t] + 1] /\ UNCHANGED rows
        /\ ~(cur' = t /\ pc' = "mark")
    BY <1>t, <1>2 DEF LoseExitAck, AtTarget, Managed, SellOrdered, ForgetCycle
  <2>2. sent[t] <= unmarked[t]
    BY <2>1
  <2> QED BY <1>t, <2>1, <2>2
<1>3. CASE OpenPosition
  <2>1. cur \in Ticker /\ sent' = [sent EXCEPT ![cur] = 0]
        /\ unmarked' = [unmarked EXCEPT ![cur] = 0]
    BY <1>t, <1>3 DEF OpenPosition, Entering, ghostVars
  <2>2. \A t \in Ticker : t # cur => rows'[t] = rows[t]
    BY <1>t, <1>3 DEF OpenPosition
  <2> QED BY <1>t, <1>3, <2>1, <2>2 DEF OpenPosition
<1>4. ASSUME sent' = sent, ~OpenPosition,
             \/ unmarked' = unmarked
             \/ pc = "mark" /\ unmarked' = [unmarked EXCEPT ![cur] = @ + 1]
      PROVE  SentInv'
  <2> SUFFICES ASSUME NEW t \in Ticker, rows'[t].status = "open", ~rows'[t].pending,
                      ~(cur' = t /\ pc' = "mark")
               PROVE  sent[t] <= unmarked'[t]
    BY <1>t, <1>4
  <2>1. rows[t].status = "open" /\ ~rows[t].pending
    BY <1>4, PendingKept
  <2>2. CASE ~(cur = t /\ pc = "mark")
    BY <1>t, <1>4, <2>1, <2>2
  <2>3. CASE cur = t /\ pc = "mark" /\ MarkPending
    <3>1. rows' = [rows EXCEPT ![t] = PendingRow(rows[t])]
      BY <2>3 DEF MarkPending
    <3>2. rows'[t].pending
      BY <1>t, <3>1 DEF PendingRow, Row
    <3> QED BY <3>2
  <2>4. CASE cur = t /\ pc = "mark" /\ unmarked' = [unmarked EXCEPT ![cur] = @ + 1]
    BY <1>t, <2>4
  <2> QED BY <2>2, <2>3, <2>4, MarkFollows
<1> QED BY <1>1, <1>2, <1>3, <1>4, SentSteps

\* Whatever the venue does, a position is sold again only after a cycle that sold
\* it has failed before it marked the row, once for each such cycle.
THEOREM ResendsNeedFailures == Spec => []SoldAgainAfterFailure
<1>1. Init => SentInv
  BY SentInit
<1>2. TypeInv /\ RowInv /\ SentInv /\ [Next]_vars => SentInv'
  BY SentStep
<1>3. SentInv => SoldAgainAfterFailure
  BY DEF SentInv, SoldAgainAfterFailure
<1> QED BY <1>1, <1>2, <1>3, RowsCorrect, PTL DEF Spec
--------------------------------------------------------------------------
\* The venue's side.

\* The actions that change positions or orders at the venue.
LEMMA VenueSteps ==
  [Next]_vars =>
    \/ UNCHANGED <<venue, buys, sells>>
    \/ \E t \in Ticker, p \in Price :
         \/ ArmVenue(t, p) \/ RaiseVenueStop(t, p) \/ SendExit(t, p) \/ LoseExitAck(t, p)
         \/ FillSell(t, p) /\ EngineWaits
         \/ TriggerExit(t, p) /\ EngineWaits
    \/ \E t \in Ticker :
         \/ PlaceBuy(t) \/ LoseBuyAck(t)
         \/ (FillBuy(t) \/ CancelBuy(t) \/ CancelSell(t)) /\ EngineWaits
    \/ SetFirstStop
BY DEF vars, Next, EngineStep, WalkStep, ExitStep, EntryStep, VenueStep, PublishStep,
       Publish, StartCycle, SyncPass, SyncTake, PassBreakEven, PassTarget, MarkUnseen,
       OrderExit, ClosePosition, RecordTrade, EndSync, ArmRow, EndBreakEven, AdvanceRow,
       MarkPending, ConfirmExit, GiveUpExit, EndConfirmed, BeginEntries, SkipEntry,
       SeeFill, GiveUpEntry, OpenPosition, EndEntries, Abort, venueVars

\* Where the position is gone, its stop and its exit orders are; one whose entry
\* order is still waited for has neither yet.
FlatInv ==
  /\ \A t \in Ticker : ~Held(t) => venue[t] = Flat /\ sells[t] = 0
  /\ pc = "fill" => sells[cur] = 0 /\ ~venue[cur].guarded

LEMMA FlatInit == Init => FlatInv
BY DEF Init, FlatInv

\* Only an entry order makes the handler wait for a fill.
LEMMA FillFollows ==
  TypeInv /\ [Next]_vars /\ pc' = "fill" =>
    \/ pc = "fill" /\ cur' = cur
    \/ \E t \in Ticker : PlaceBuy(t)
BY DEF vars, Next, EngineStep, WalkStep, ExitStep, EntryStep, VenueStep, PublishStep,
       EngineWaits, StartCycle, SyncPass, SyncTake, PassBreakEven, ArmVenue, PassTarget,
       RaiseVenueStop, SendExit, LoseExitAck, MarkUnseen, AtTarget, OrderExit,
       ClosePosition, RecordTrade, EndSync, ArmRow, EndBreakEven, AdvanceRow, MarkPending,
       ConfirmExit, GiveUpExit, EndConfirmed, BeginEntries, SkipEntry, LoseBuyAck,
       BuyOrdered, SeeFill, SetFirstStop, GiveUpEntry, OpenPosition, EndEntries, Abort,
       ForgetCycle, TypeInv, TypeOK, Walks

LEMMA FlatStep == TypeInv /\ FlatInv /\ [Next]_vars => FlatInv'
<1> SUFFICES ASSUME TypeInv, FlatInv, [Next]_vars
             PROVE  FlatInv'
  OBVIOUS
<1>t. /\ venue \in [Ticker -> VenuePosition] /\ sells \in [Ticker -> Nat]
      /\ pc \in Entering => cur \in Ticker
      /\ \A t \in Ticker : venue[t].size \in Nat /\ sells[t] \in Nat
  BY DEF TypeInv, TypeOK, InHand, VenuePosition
<1>g. \A position \in VenuePosition : \A stop : Guard(position, stop).size = position.size
  BY DEF Guard, VenuePosition
<1> USE DEF FlatInv, Held
<1>1. CASE UNCHANGED <<venue, sells>>
  <2>1. ASSUME NEW t \in Ticker, PlaceBuy(t)
        PROVE  cur' = t /\ venue[t] = Flat /\ sells[t] = 0
    BY <2>1 DEF PlaceBuy, BuyOrdered, Admitted
  <2>2. pc' = "fill" => sells[cur'] = 0 /\ ~venue[cur'].guarded
    BY <2>1, FillFollows DEF Flat
  <2> QED BY <1>1, <2>2
<1>2. ASSUME NEW t \in Ticker, NEW p \in Price, ArmVenue(t, p) \/ RaiseVenueStop(t, p)
      PROVE  FlatInv'
  <2>1. PICK stop : venue' = [venue EXCEPT ![t] = Guard(venue[t], stop)]
    BY <1>2 DEF ArmVenue, RaiseVenueStop
  <2>2. Held(t) /\ pc' # "fill" /\ UNCHANGED sells
    BY <1>2 DEF ArmVenue, Arms, RaiseVenueStop
  <2> QED BY <1>t, <1>g, <2>1, <2>2
<1>3. ASSUME NEW t \in Ticker, NEW p \in Price, SendExit(t, p) \/ LoseExitAck(t, p)
      PROVE  FlatInv'
  <2>1. /\ Held(t) /\ pc' # "fill" /\ UNCHANGED venue
        /\ sells' = [sells EXCEPT ![t] = sells[t] + venue[t].size]
    BY <1>3 DEF SendExit, LoseExitAck, SellOrdered, ForgetCycle
  <2> QED BY <1>t, <2>1
<1>4. ASSUME NEW t \in Ticker, NEW p \in Price, FillSell(t, p), EngineWaits
      PROVE  FlatInv'
  <2>1. /\ venue' = [venue EXCEPT ![t] = Reduced(venue[t], sells[t])]
        /\ sells' = [sells EXCEPT ![t] = 0] /\ sells[t] > 0
        /\ UNCHANGED <<pc, cur>>
    BY <1>4 DEF FillSell, EngineWaits
  <2>2. Reduced(venue[t], sells[t]) = Flat \/ Reduced(venue[t], sells[t]).size > 0
    BY <1>t DEF Reduced, VenuePosition
  <2>3. pc = "fill" => cur # t
    BY <1>t, <2>1
  <2> QED BY <1>t, <2>1, <2>2, <2>3 DEF Entering
<1>5. ASSUME NEW t \in Ticker, NEW p \in Price, TriggerExit(t, p), EngineWaits
      PROVE  FlatInv'
  <2>1. /\ venue' = [venue EXCEPT ![t] = Flat] /\ sells' = [sells EXCEPT ![t] = 0]
        /\ venue[t].guarded /\ UNCHANGED <<pc, cur>>
    BY <1>5 DEF TriggerExit, EngineWaits
  <2> QED BY <1>t, <2>1 DEF Entering
<1>6. ASSUME NEW t \in Ticker, FillBuy(t), EngineWaits
      PROVE  FlatInv'
  <2>1. /\ venue' = [venue EXCEPT ![t].size = venue[t].size + 1]
        /\ UNCHANGED <<sells, pc, cur>>
    BY <1>6 DEF FillBuy, EngineWaits
  <2>2. venue'[t].size > 0 /\ venue'[t].guarded = venue[t].guarded
    BY <1>t, <2>1 DEF VenuePosition
  <2> QED BY <1>t, <2>1, <2>2 DEF Entering
<1>7. ASSUME NEW t \in Ticker, CancelSell(t), EngineWaits
      PROVE  FlatInv'
  <2>1. sells' = [sells EXCEPT ![t] = 0] /\ UNCHANGED <<venue, pc, cur>>
    BY <1>7 DEF CancelSell, EngineWaits
  <2> QED BY <1>t, <2>1 DEF Entering
<1>8. CASE SetFirstStop
  <2>1. /\ venue' = [venue EXCEPT ![cur] = Guard(venue[cur], InitialStopLoss)]
        /\ pc' = "open" /\ Held(cur) /\ cur \in Ticker /\ UNCHANGED sells
    BY <1>t, <1>8 DEF SetFirstStop, Entering
  <2> QED BY <1>t, <1>g, <2>1
<1>9. ASSUME NEW t \in Ticker, PlaceBuy(t) \/ LoseBuyAck(t) \/ CancelBuy(t)
      PROVE  UNCHANGED <<venue, sells>>
  BY <1>9 DEF PlaceBuy, LoseBuyAck, CancelBuy
<1> QED BY <1>1, <1>2, <1>3, <1>4, <1>5, <1>6, <1>7, <1>8, <1>9, VenueSteps

--------------------------------------------------------------------------
\* Whose the venue's positions are.

Enters(t) == cur = t /\ pc \in Entering

Waits(t) == cur = t /\ pc = "fill"
Books(t) == cur = t /\ pc \in {"order", "close"}

\* What is known of a ticker none of whose entry orders was given up on: no
\* entry order is out for it but the one being waited for, the venue holds a
\* position only for its open row or that order, and none once a close of it is
\* being booked.
Known(t) ==
  /\ t \notin OpenTickers /\ ~Enters(t) => ~Held(t)
  /\ IF Waits(t) THEN venue[t].size + buys[t] <= 1 ELSE buys[t] = 0
  /\ Books(t) => ~Held(t)

StrayInv == \A t \in Ticker \ stray : Known(t)

LEMMA StrayInit == Init => StrayInv
BY DEF Init, StrayInv, Known, Enters, Waits, Books, Entering, Held, Flat

\* What a step leaves known that fills no entry and stops no waiting for one.
LEMMA KnownKept ==
  ASSUME NEW t, Known(t), venue'[t].size <= venue[t].size, buys'[t] = buys[t],
         venue'[t].size \in Nat, venue[t].size \in Nat, buys[t] \in Nat,
         Waits(t)' <=> Waits(t),
         t \notin OpenTickers' /\ ~Enters(t)' =>
           (t \notin OpenTickers /\ ~Enters(t)) \/ ~Held(t),
         Books(t)' => Books(t) \/ ~Held(t)
  PROVE  Known(t)'
<1> DEFINE size == venue[t].size
           next == venue'[t].size
<1>1. ~Held(t) => ~Held(t)'
  BY DEF Held
<1>2. Waits(t)' => next + buys'[t] <= 1
  <2> SUFFICES ASSUME Waits(t)'
               PROVE  next + buys[t] <= 1
    OBVIOUS
  <2>1. size + buys[t] <= 1
    BY DEF Known
  <2> QED BY <2>1
<1> QED BY <1>1, <1>2 DEF Known
\* Positions are opened by OpenPosition, closed by ClosePosition, and left open
\* or closed by everything else.
LEMMA OpenKept ==
  TypeInv /\ [Next]_vars =>
    \/ UNCHANGED OpenTickers
    \/ ClosePosition /\ OpenTickers' = OpenTickers \ {cur}
    \/ OpenPosition /\ OpenTickers' = OpenTickers \cup {cur}
<1> SUFFICES ASSUME TypeInv, [Next]_vars
             PROVE  \/ UNCHANGED OpenTickers
                    \/ ClosePosition /\ OpenTickers' = OpenTickers \ {cur}
                    \/ OpenPosition /\ OpenTickers' = OpenTickers \cup {cur}
  OBVIOUS
<1>t. /\ rows \in [Ticker -> Row]
      /\ pc \in Entering \cup InHandPhases => cur \in Ticker
  BY DEF TypeInv, TypeOK, InHand, InHandPhases
<1> USE DEF OpenTickers, InHandPhases
<1>1. ASSUME NEW u \in Ticker, NEW p \in Price, MarkUnseen(u, p)
      PROVE  UNCHANGED OpenTickers
  BY <1>t, <1>1, StatusKept DEF MarkUnseen
<1>2. CASE OrderExit
  BY <1>t, <1>2, StatusKept DEF OrderExit
<1>3. CASE ClosePosition
  BY <1>t, <1>3, StatusKept DEF ClosePosition
<1>4. CASE RecordTrade
  BY <1>t, <1>4, StatusKept DEF RecordTrade
<1>5. CASE ArmRow
  BY <1>t, <1>5, StatusKept DEF ArmRow
<1>6. CASE AdvanceRow
  BY <1>t, <1>6, StatusKept DEF AdvanceRow
<1>7. CASE MarkPending
  BY <1>t, <1>7, StatusKept DEF MarkPending
<1>8. CASE OpenPosition
  <2>1. cur \in Ticker /\ OpenedRow.status = "open"
    BY <1>t, <1>8 DEF OpenPosition, Entering, OpenedRow, NoRow
  <2> QED BY <1>t, <1>8, <2>1 DEF OpenPosition
<1>9. CASE UNCHANGED rows
  BY <1>9
<1> QED BY <1>1, <1>2, <1>3, <1>4, <1>5, <1>6, <1>7, <1>8, <1>9, RowSteps

\* A step of the engine that has nothing to do with entries, nor with a close to book.
Idles ==
  /\ pc \notin Entering /\ pc' \notin Entering
  /\ UNCHANGED <<stray, buys>>
  /\ \A t \in Ticker : venue'[t].size = venue[t].size
  /\ \A t \in Ticker : Books(t)' => Books(t)

LEMMA IdleSteps ==
  TypeInv /\ [Next]_vars =>
    \/ Idles
    \/ \E t \in Ticker : SyncTake(t) \/ PlaceBuy(t) \/ LoseBuyAck(t) \/ VenueStep(t)
    \/ ConfirmExit \/ SeeFill \/ SetFirstStop \/ GiveUpEntry \/ OpenPosition \/ Abort
    \/ \E f, g \in Labelling : BeginEntries(f, g)
    \/ UNCHANGED vars
<1> SUFFICES ASSUME TypeInv, Next
             PROVE  \/ Idles
                    \/ \E t \in Ticker :
                         SyncTake(t) \/ PlaceBuy(t) \/ LoseBuyAck(t) \/ VenueStep(t)
                    \/ ConfirmExit \/ SeeFill \/ SetFirstStop \/ GiveUpEntry
                    \/ OpenPosition \/ Abort
                    \/ \E f, g \in Labelling : BeginEntries(f, g)
  OBVIOUS
<1>t. venue \in [Ticker -> VenuePosition] /\ back \in Walks
  BY DEF TypeInv, TypeOK
<1> USE DEF Idles, Books, Entering
<1>1. ASSUME NEW s \in {"emerging", "confirmed"}, NEW R \in SUBSET Ticker, StartCycle(s, R)
      PROVE  Idles
  BY <1>1 DEF StartCycle, venueVars, ghostVars
<1>2. ASSUME NEW t \in Ticker, NEW p \in Price,
             ArmVenue(t, p) \/ RaiseVenueStop(t, p)
      PROVE  Idles
  <2>1. PICK stop : venue' = [venue EXCEPT ![t] = Guard(venue[t], stop)]
    BY <1>2 DEF ArmVenue, RaiseVenueStop
  <2>2. \A u \in Ticker : venue'[u].size = venue[u].size
    BY <1>t, <2>1 DEF Guard, VenuePosition
  <2> QED BY <1>2, <2>2 DEF ArmVenue, RaiseVenueStop, AtTarget, ghostVars
<1>3. ASSUME NEW t \in Ticker,
             \/ SyncPass(t)
             \/ \E p \in Price : PassBreakEven(t, p) \/ PassTarget(t, p) \/ MarkUnseen(t, p)
      PROVE  Idles
  BY <1>3 DEF SyncPass, PassBreakEven, PassTarget, MarkUnseen, AtTarget, venueVars, ghostVars
<1>4. ASSUME NEW t \in Ticker, NEW p \in Price, SendExit(t, p) \/ LoseExitAck(t, p)
      PROVE  Idles
  BY <1>4 DEF SendExit, LoseExitAck, AtTarget, ForgetCycle
<1>5. ASSUME OrderExit \/ ClosePosition
      PROVE  Idles
  BY <1>5 DEF OrderExit, ClosePosition, venueVars, ghostVars
<1>6. ASSUME RecordTrade \/ EndSync \/ ArmRow \/ EndBreakEven \/ AdvanceRow
      PROVE  Idles
  BY <1>t, <1>6 DEF RecordTrade, EndSync, ArmRow, EndBreakEven, AdvanceRow, Walks,
                    venueVars, ghostVars
<1>7. ASSUME MarkPending \/ GiveUpExit \/ EndConfirmed \/ EndEntries
      PROVE  Idles
  BY <1>7 DEF MarkPending, GiveUpExit, EndConfirmed, EndEntries, ForgetCycle,
              venueVars, ghostVars
<1>8. ASSUME NEW t \in Ticker, SkipEntry(t)
      PROVE  Idles
  BY <1>8 DEF SkipEntry, venueVars, ghostVars
<1> QED BY <1>1, <1>2, <1>3, <1>4, <1>5, <1>6, <1>7, <1>8
        DEF Next, EngineStep, WalkStep, ExitStep, EntryStep

LEMMA StrayStep == TypeInv /\ EntryInv /\ StrayInv /\ [Next]_vars => StrayInv'
<1> SUFFICES ASSUME TypeInv, EntryInv, StrayInv, [Next]_vars, TypeInv',
                    NEW t \in Ticker, t \notin stray'
             PROVE  Known(t)'
  BY TypeStep DEF StrayInv
<1>t. /\ venue \in [Ticker -> VenuePosition] /\ buys \in [Ticker -> Nat]
      /\ venue' \in [Ticker -> VenuePosition] /\ buys' \in [Ticker -> Nat]
      /\ venue[t].size \in Nat /\ venue'[t].size \in Nat /\ buys[t] \in Nat
  BY DEF TypeInv, TypeOK, VenuePosition
<1>s. t \notin stray => Known(t)
  BY DEF StrayInv
<1>1. CASE Idles
  <2>1. /\ venue'[t].size = venue[t].size /\ buys'[t] = buys[t] /\ t \notin stray
        /\ ~Enters(t) /\ ~Enters(t)'
        /\ Books(t)' => Books(t)
    BY <1>1 DEF Idles, Enters
  <2>2. ~Waits(t) /\ ~Waits(t)'
    BY <1>1 DEF Idles, Waits, Entering
  <2>3. t \notin OpenTickers' => t \notin OpenTickers \/ ~Held(t)
    <3>1. CASE ClosePosition /\ OpenTickers' = OpenTickers \ {cur}
      BY <1>s, <2>1, <3>1 DEF ClosePosition, Known, Books
    <3> QED BY <3>1, OpenKept
  <2> QED BY <1>t, <1>s, <2>1, <2>2, <2>3, KnownKept
<1>2. CASE ConfirmExit \/ \E u \in Ticker : SyncTake(u)
  <2>1. /\ pc \notin Entering /\ pc' \notin Entering /\ UNCHANGED <<venue, buys, stray>>
        /\ UNCHANGED OpenTickers /\ Gone(cur')
    BY <1>2 DEF ConfirmExit, SyncTake, venueVars, ghostVars, OpenTickers, Entering
  <2>2. Books(t)' => ~Held(t)
    BY <2>1 DEF Books, Gone
  <2> QED BY <1>t, <1>s, <2>1, <2>2, KnownKept DEF Enters, Waits, Entering
<1>3. ASSUME NEW f \in Labelling, NEW g \in Labelling, BeginEntries(f, g)
      PROVE  Known(t)'
  <2>1. /\ pc = "targets" /\ pc' = "entries" /\ UNCHANGED <<venue, buys, OpenTickers>>
        /\ t \in stray => t \notin OpenTickers /\ ~Held(t) /\ ~(buys[t] > 0)
    BY <1>3 DEF BeginEntries, OpenTickers
  <2>2. CASE t \in stray
    BY <1>t, <2>1, <2>2 DEF Known, Held, Waits, Books
  <2>3. CASE t \notin stray
    BY <1>t, <1>s, <2>1, <2>3, KnownKept DEF Enters, Waits, Books, Entering
  <2> QED BY <2>2, <2>3
<1>4. ASSUME NEW u \in Ticker, PlaceBuy(u)
      PROVE  Known(t)'
  <2>1. /\ pc = "entries" /\ pc' = "fill" /\ cur' = u /\ t \notin stray
        /\ UNCHANGED <<venue, OpenTickers>> /\ buys' = [buys EXCEPT ![u] = buys[u] + 1]
        /\ ~Held(u) /\ u \notin OpenTickers
    BY <1>4 DEF PlaceBuy, BuyOrdered, Admitted, Admits, EntryInv, OpenTickers, ghostVars
  <2>2. CASE t = u
    <3>1. buys[t] = 0 /\ venue[t].size = 0
      BY <1>t, <1>s, <2>1, <2>2 DEF Known, Waits, Held
    <3> QED BY <1>t, <2>1, <2>2, <3>1 DEF Known, Waits, Books, Enters, Entering
  <2>3. CASE t # u
    <3>1. buys'[t] = buys[t]
      BY <1>t, <2>1, <2>3
    <3>2. ~Enters(t) \/ pc # "entries"
      BY DEF Enters, Entering
    <3> QED BY <1>t, <1>s, <2>1, <2>3, <3>1, <3>2, KnownKept DEF Enters, Waits, Books
  <2> QED BY <2>2, <2>3
<1>5. ASSUME NEW u \in Ticker, LoseBuyAck(u)
      PROVE  Known(t)'
  <2>1. /\ t # u /\ t \notin stray /\ pc = "entries" /\ pc' = "entries"
        /\ UNCHANGED <<venue, OpenTickers>> /\ buys' = [buys EXCEPT ![u] = buys[u] + 1]
    BY <1>5 DEF LoseBuyAck, BuyOrdered, OpenTickers
  <2>2. buys'[t] = buys[t]
    BY <1>t, <2>1
  <2> QED BY <1>t, <1>s, <2>1, <2>2, KnownKept DEF Enters, Waits, Books, Entering
<1>6. CASE SeeFill
  <2>1. /\ pc = "fill" /\ pc' = "protect" /\ Held(cur) /\ t \notin stray
        /\ UNCHANGED <<venue, buys, cur, OpenTickers>>
    BY <1>6 DEF SeeFill, venueVars, ghostVars, OpenTickers
  <2>2. buys[t] = 0
    BY <1>t, <1>s, <2>1 DEF Known, Waits, Held
  <2> QED BY <1>t, <1>s, <2>1, <2>2 DEF Known, Enters, Waits, Books, Entering, Held
<1>7. CASE SetFirstStop
  <2>1. /\ pc = "protect" /\ pc' = "open" /\ t \notin stray
        /\ venue' = [venue EXCEPT ![cur] = Guard(venue[cur], InitialStopLoss)]
        /\ UNCHANGED <<buys, cur, OpenTickers>>
    BY <1>7 DEF SetFirstStop, ghostVars, OpenTickers
  <2>2. venue'[t].size = venue[t].size
    BY <1>t, <2>1 DEF Guard, VenuePosition
  <2> QED BY <1>t, <1>s, <2>1, <2>2, KnownKept DEF Enters, Waits, Books, Entering
<1>8. CASE GiveUpEntry \/ Abort
  <2>1. /\ pc \in Entering => t # cur
        /\ pc' \in {"entries", "idle"} /\ t \notin stray
        /\ UNCHANGED <<venue, buys, OpenTickers>>
    BY <1>8 DEF GiveUpEntry, Abort, ForgetCycle, venueVars, OpenTickers, Entering
  <2> QED BY <1>t, <1>s, <2>1, KnownKept DEF Enters, Waits, Books, Entering
<1>9. CASE OpenPosition
  <2>1. /\ pc = "open" /\ pc' = "entries" /\ t \notin stray /\ UNCHANGED <<venue, buys>>
        /\ OpenTickers' = OpenTickers \cup {cur} \/ OpenTickers' = OpenTickers
        /\ t = cur => t \in OpenTickers'
    <3>1. cur \in Ticker /\ rows \in [Ticker -> Row] /\ OpenedRow.status = "open"
      BY <1>9 DEF OpenPosition, TypeInv, TypeOK, InHand, Entering, OpenedRow, NoRow
    <3> QED BY <1>9, <3>1 DEF OpenPosition, venueVars, OpenTickers
  <2> QED BY <1>t, <1>s, <2>1, KnownKept DEF Enters, Waits, Books, Entering
<1>10. ASSUME NEW u \in Ticker, VenueStep(u)
       PROVE  Known(t)'
  <2>1. /\ UNCHANGED <<stray, OpenTickers, cur, pc>>
        /\ Enters(t)' = Enters(t) /\ Waits(t)' = Waits(t) /\ Books(t)' = Books(t)
    <3>1. UNCHANGED <<rows, stray, cur, pc>>
      BY <1>10 DEF VenueStep, PublishStep, EngineWaits, ghostVars
    <3> QED BY <3>1 DEF OpenTickers, Enters, Waits, Books, Entering
  <2>2. CASE buys'[t] = buys[t] /\ venue'[t].size <= venue[t].size
    BY <1>t, <1>s, <2>1, <2>2, KnownKept
  <2>3. CASE FillBuy(t)
    <3>1. /\ buys[t] > 0 /\ buys'[t] = buys[t] - 1
          /\ venue'[t].size = venue[t].size + 1
      BY <1>t, <2>3 DEF FillBuy, VenuePosition
    <3>2. Waits(t) /\ venue[t].size + buys[t] <= 1
      BY <1>t, <1>s, <2>1, <3>1 DEF Known
    <3> QED BY <1>t, <2>1, <3>1, <3>2 DEF Known, Enters, Waits, Books, Entering
  <2>4. CASE CancelBuy(t)
    <3>1. buys[t] > 0 /\ buys'[t] = buys[t] - 1 /\ venue'[t] = venue[t]
      BY <1>t, <2>4 DEF CancelBuy
    <3>2. Waits(t) /\ venue[t].size + buys[t] <= 1
      BY <1>t, <1>s, <2>1, <3>1 DEF Known
    <3> QED BY <1>t, <2>1, <3>1, <3>2 DEF Known, Enters, Waits, Books, Entering
  <2>5. ASSUME NEW p \in Price, FillSell(u, p)
        PROVE  buys'[t] = buys[t] /\ venue'[t].size <= venue[t].size
    <3>1. sells[u] \in Nat /\ venue[u] \in VenuePosition
      BY <1>t DEF TypeInv, TypeOK
    <3>2. Reduced(venue[u], sells[u]).size <= venue[u].size
      BY <3>1 DEF Reduced, Flat, VenuePosition
    <3> QED BY <1>t, <2>5, <3>2 DEF FillSell
  <2>6. ASSUME NEW p \in Price, TriggerExit(u, p)
        PROVE  buys'[t] = buys[t] /\ venue'[t].size <= venue[t].size
    BY <1>t, <2>6 DEF TriggerExit, Flat
  <2>7. ASSUME CancelSell(u) \/ Publish(u)
        PROVE  buys'[t] = buys[t] /\ venue'[t].size <= venue[t].size
    BY <1>t, <2>7 DEF CancelSell, Publish
  <2>8. ASSUME FillBuy(u) \/ CancelBuy(u), u # t
        PROVE  buys'[t] = buys[t] /\ venue'[t].size <= venue[t].size
    BY <1>t, <2>8 DEF FillBuy, CancelBuy
  <2> QED BY <1>10, <2>2, <2>3, <2>4, <2>5, <2>6, <2>7, <2>8 DEF VenueStep, PublishStep
<1>11. CASE UNCHANGED vars
  BY <1>s, <1>11 DEF vars, Known, Enters, Waits, Books, OpenTickers, Held
<1> QED BY <1>1, <1>2, <1>3, <1>4, <1>5, <1>6, <1>7, <1>8, <1>9, <1>10, <1>11, IdleSteps
\* What is known of the venue besides the rows.
VenueInv == EntryInv /\ FlatInv /\ StrayInv

LEMMA VenueCorrect == Spec => [](TypeInv /\ RowInv /\ VenueInv)
<1>1. Init => VenueInv
  BY EntryInit, FlatInit, StrayInit DEF VenueInv
<1>2. TypeInv /\ VenueInv /\ [Next]_vars => VenueInv'
  BY EntryStepKeeps, FlatStep, StrayStep DEF VenueInv
<1> QED BY <1>1, <1>2, RowsCorrect, PTL DEF Spec

\* The venue holds nothing the book does not know of, but for entry orders whose
\* handler gave up on them.
THEOREM NothingUntracked == Spec => []UntrackedIsStray
<1>1. VenueInv => UntrackedIsStray
  BY DEF VenueInv, StrayInv, Known, Enters, UntrackedIsStray
<1> QED BY <1>1, VenueCorrect, PTL

--------------------------------------------------------------------------
\* Whose the closed-PnL records are.

\* The list tells of a close the row is not about only for a ticker with an
\* entry order that was given up on.
RecordInv ==
  /\ \A t \in Ticker \ stray : pnl[t].kind # "foreign" /\ hidden[t].kind # "foreign"
  /\ ClosedFromOwnRecord

LEMMA RecordInit == Init => RecordInv
BY DEF Init, RecordInv, ClosedFromOwnRecord, NoRecord

\* The actions that change the list, or clean a ticker of a stray entry.
LEMMA ListSteps ==
  [Next]_vars =>
    \/ UNCHANGED <<pnl, hidden>> /\ stray \subseteq stray'
    \/ \E f, g \in Labelling : BeginEntries(f, g)
    \/ \E t \in Ticker : VenueStep(t)
BY DEF vars, Next, EngineStep, WalkStep, ExitStep, EntryStep, StartCycle, SyncPass,
       SyncTake, PassBreakEven, ArmVenue, PassTarget, RaiseVenueStop, SendExit,
       LoseExitAck, MarkUnseen, OrderExit, ClosePosition, RecordTrade, EndSync, ArmRow,
       EndBreakEven, AdvanceRow, MarkPending, ConfirmExit, GiveUpExit, EndConfirmed,
       SkipEntry, PlaceBuy, LoseBuyAck, SeeFill, SetFirstStop, GiveUpEntry, OpenPosition,
       EndEntries, Abort, venueVars, ghostVars

\* A close is booked from the record the list showed when it was taken in hand.
LEMMA BookFollows ==
  TypeInv /\ [Next]_vars /\ pc' \in {"order", "close"} =>
    \/ pc \in {"order", "close"} /\ UNCHANGED <<cur, taken>>
    \/ Gone(cur') /\ taken' = pnl[cur'] /\ cur' \in Ticker /\ UNCHANGED stray
<1> SUFFICES ASSUME TypeInv, [Next]_vars, pc' \in {"order", "close"}
             PROVE  \/ pc \in {"order", "close"} /\ UNCHANGED <<cur, taken>>
                    \/ Gone(cur') /\ taken' = pnl[cur'] /\ cur' \in Ticker /\ UNCHANGED stray
  OBVIOUS
<1>t. back \in Walks /\ (pc = "await" => cur \in Ticker)
  BY DEF TypeInv, TypeOK, InHand
<1>1. ASSUME NEW t \in Ticker, SyncTake(t)
      PROVE  Gone(cur') /\ taken' = pnl[cur'] /\ cur' \in Ticker /\ UNCHANGED stray
  BY <1>1 DEF SyncTake, ghostVars
<1>2. CASE ConfirmExit
  BY <1>t, <1>2 DEF ConfirmExit, ghostVars
<1>3. CASE OrderExit
  BY <1>3 DEF OrderExit
<1>4. ASSUME NEW t \in Ticker, VenueStep(t)
      PROVE  pc \in {"order", "close"} /\ UNCHANGED <<cur, taken>>
  BY <1>4 DEF VenueStep, PublishStep, EngineWaits
<1>5. CASE UNCHANGED vars
  BY <1>5 DEF vars
<1>6. CASE RecordTrade
  BY <1>t, <1>6 DEF RecordTrade, Walks
<1> QED
  BY <1>1, <1>2, <1>3, <1>4, <1>5, <1>6
  DEF Next, EngineStep, WalkStep, ExitStep, EntryStep, StartCycle, SyncPass,
      PassBreakEven, ArmVenue, PassTarget, RaiseVenueStop, SendExit, LoseExitAck,
      MarkUnseen, AtTarget, ClosePosition, EndSync, ArmRow, EndBreakEven, AdvanceRow,
      MarkPending, GiveUpExit, EndConfirmed, BeginEntries, SkipEntry, PlaceBuy,
      LoseBuyAck, BuyOrdered, SeeFill, SetFirstStop, GiveUpEntry, OpenPosition,
      EndEntries, Abort, ForgetCycle

\* A position the venue closes on a ticker without stray entries is that of its
\* row, or of the row about to be opened.
LEMMA OwnRecord ==
  ASSUME TypeInv, VenueInv, NEW t \in Ticker, t \notin stray, NEW p \in Price,
         FillSell(t, p) \/ TriggerExit(t, p)
  PROVE  hidden' = [hidden EXCEPT ![t] = [kind |-> "own", price |-> p]]
<1>1. Held(t) /\ (sells[t] > 0 \/ venue[t].guarded) /\ Recorded(t, p)
  BY DEF FillSell, TriggerExit
<1>2. t \in OpenTickers \/ Enters(t)
  BY <1>1 DEF VenueInv, StrayInv, Known
<1>3. ~(cur = t /\ pc = "fill")
  BY <1>1 DEF VenueInv, FlatInv, TypeInv, TypeOK
<1>4. t \in OpenTickers \/ (cur = t /\ pc \in {"protect", "open"})
  BY <1>2, <1>3 DEF Enters, Entering
<1> QED BY <1>1, <1>4 DEF Recorded

LEMMA RecordStep == TypeInv /\ VenueInv /\ RecordInv /\ [Next]_vars => RecordInv'
<1> SUFFICES ASSUME TypeInv, VenueInv, RecordInv, [Next]_vars
             PROVE  RecordInv'
  OBVIOUS
<1>t. /\ pnl \in [Ticker -> Record] /\ hidden \in [Ticker -> Record]
      /\ pc \in {"order", "close"} => cur \in Ticker
  BY DEF TypeInv, TypeOK, InHand
<1> USE DEF RecordInv, ClosedFromOwnRecord
<1>1. stray \subseteq stray' \/ pc' = "entries" => ClosedFromOwnRecord'
  <2> SUFFICES ASSUME stray \subseteq stray', pc' \in {"order", "close"},
                      cur' \notin stray'
               PROVE  taken'.kind = "own"
    BY DEF ClosedFromOwnRecord
  <2>1. CASE pc \in {"order", "close"} /\ UNCHANGED <<cur, taken>>
    BY <2>1
  <2>2. CASE Gone(cur') /\ taken' = pnl[cur'] /\ cur' \in Ticker /\ UNCHANGED stray
    BY <2>2 DEF Gone, Fresh
  <2> QED BY <2>1, <2>2, BookFollows
<1>2. CASE UNCHANGED <<pnl, hidden>> /\ stray \subseteq stray'
  BY <1>1, <1>2
<1>3. ASSUME NEW f \in Labelling, NEW g \in Labelling, BeginEntries(f, g)
      PROVE  RecordInv'
  <2>1. /\ pnl' = OutdatedUnlessOpen(pnl) /\ hidden' = OutdatedUnlessOpen(hidden)
        /\ pc' = "entries" /\ \A t \in OpenTickers \cap stray : t \in stray'
    BY <1>3 DEF BeginEntries
  <2>2. \A record \in Record : Outdated(record).kind # "foreign"
    BY DEF Outdated, Record
  <2>3. ASSUME NEW t \in Ticker, t \notin stray'
        PROVE  pnl'[t].kind # "foreign" /\ hidden'[t].kind # "foreign"
    BY <1>t, <2>1, <2>2, <2>3 DEF OutdatedUnlessOpen
  <2> QED BY <1>1, <2>1, <2>3
<1>4. ASSUME NEW u \in Ticker, VenueStep(u)
      PROVE  RecordInv'
  <2>1. UNCHANGED stray
    BY <1>4 DEF VenueStep, PublishStep, EngineWaits, ghostVars
  <2>2. CASE UNCHANGED <<pnl, hidden>>
    BY <1>2, <2>1, <2>2
  <2>3. CASE Publish(u)
    <3>1. /\ pnl' = [pnl EXCEPT ![u] = hidden[u]]
          /\ hidden' = [hidden EXCEPT ![u] = NoRecord]
      BY <2>3 DEF Publish
    <3>2. \A t \in Ticker \ stray : pnl'[t].kind # "foreign" /\ hidden'[t].kind # "foreign"
      BY <1>t, <3>1 DEF NoRecord
    <3> QED BY <1>1, <2>1, <3>2
  <2>4. ASSUME NEW p \in Price, FillSell(u, p) \/ TriggerExit(u, p)
        PROVE  RecordInv'
    <3>1. PICK kind : /\ hidden' = [hidden EXCEPT ![u] = [kind |-> kind, price |-> p]]
                      /\ pnl' = pnl
      BY <2>4 DEF FillSell, TriggerExit, Recorded
    <3>2. ASSUME NEW t \in Ticker, t \notin stray
          PROVE  pnl'[t].kind # "foreign" /\ hidden'[t].kind # "foreign"
      <4>1. CASE t = u
        <5>1. hidden' = [hidden EXCEPT ![t] = [kind |-> "own", price |-> p]]
          BY <2>4, <3>2, <4>1, OwnRecord
        <5> QED BY <1>t, <3>1, <3>2, <4>1, <5>1
      <4>2. CASE t # u
        BY <1>t, <3>1, <3>2, <4>2
      <4> QED BY <4>1, <4>2
    <3> QED BY <1>1, <2>1, <3>2
  <2>5. ASSUME FillBuy(u) \/ CancelBuy(u) \/ CancelSell(u)
        PROVE  UNCHANGED <<pnl, hidden>>
    BY <2>5 DEF FillBuy, CancelBuy, CancelSell
  <2> QED BY <1>4, <2>2, <2>3, <2>4, <2>5 DEF VenueStep, PublishStep
<1> QED BY <1>2, <1>3, <1>4, ListSteps

\* No exit is booked with the price of an earlier trade on the ticker: a row is
\* closed from the record of its own position, unless an entry order for the
\* ticker was given up on.
THEOREM ExitsFromOwnRecords == Spec => []ClosedFromOwnRecord
<1>1. TypeInv /\ VenueInv /\ RecordInv /\ [Next]_vars => RecordInv'
  BY RecordStep
<1>2. RecordInv => ClosedFromOwnRecord
  BY DEF RecordInv
<1> QED BY <1>1, <1>2, RecordInit, VenueCorrect, PTL DEF Spec
--------------------------------------------------------------------------
\* The venue's stop and the row's.

\* Where a handler has moved the venue's stop and not yet the row, the stop is
\* already as tight as the row will say.
Tight(t) ==
  Held(t) =>
    /\ t \in OpenTickers => venue[t].guarded /\ venue[t].sl >= rows[t].sl
    /\ cur = t /\ pc = "arm" => venue[t].guarded /\ venue[t].sl >= Entry
    /\ cur = t /\ pc = "raise" =>
         venue[t].guarded /\ venue[t].sl >= RatchetStopLoss(rows[t].step + 1)
    /\ cur = t /\ pc = "open" => venue[t].guarded /\ venue[t].sl >= InitialStopLoss

TightInv == \A t \in Ticker \ stray : Tight(t)

LEMMA TightInit == Init => TightInv
BY DEF Init, TightInv, Tight, Held, Flat

\* What a step does to the stop of a row it leaves open.
LEMMA StopKept ==
  ASSUME TypeInv, [Next]_vars, NEW t \in Ticker, t \in OpenTickers'
  PROVE  \/ t \in OpenTickers /\ rows'[t].sl = rows[t].sl
         \/ ArmRow /\ cur = t /\ t \in OpenTickers /\ rows'[t].sl = Entry
         \/ /\ AdvanceRow /\ cur = t /\ t \in OpenTickers
            /\ rows'[t].sl = RatchetStopLoss(rows[t].step + 1)
         \/ OpenPosition /\ cur = t /\ rows'[t].sl = InitialStopLoss
<1>t. /\ rows \in [Ticker -> Row] /\ rows[t] \in Row
      /\ pc \in Entering \cup InHandPhases => cur \in Ticker
  BY DEF TypeInv, TypeOK, InHand, InHandPhases
<1> USE DEF OpenTickers, InHandPhases
<1>k. \A row \in Row :
        /\ ExitOrderedRow(row).sl = row.sl /\ PendingRow(row).sl = row.sl
        /\ \A event : AnalysedRow(row, event).sl = row.sl
        /\ ArmedRow(row).sl = Entry
        /\ \A step : RatchetedRow(row, step).sl = RatchetStopLoss(step)
  BY DEF ExitOrderedRow, PendingRow, ArmedRow, RatchetedRow, AnalysedRow, Row
<1>1. ASSUME NEW u \in Ticker, NEW p \in Price, MarkUnseen(u, p)
      PROVE  t \in OpenTickers /\ rows'[t].sl = rows[t].sl
  BY <1>t, <1>k, <1>1, StatusKept DEF MarkUnseen
<1>2. CASE OrderExit
  BY <1>t, <1>k, <1>2, StatusKept DEF OrderExit
<1>3. CASE ClosePosition
  BY <1>t, <1>3, StatusKept DEF ClosePosition
<1>4. CASE RecordTrade
  BY <1>t, <1>k, <1>4, StatusKept DEF RecordTrade
<1>5. CASE ArmRow
  BY <1>t, <1>k, <1>5, StatusKept DEF ArmRow
<1>6. CASE AdvanceRow
  BY <1>t, <1>k, <1>6, StatusKept DEF AdvanceRow
<1>7. CASE MarkPending
  BY <1>t, <1>k, <1>7, StatusKept DEF MarkPending
<1>8. CASE OpenPosition
  <2>1. cur \in Ticker /\ OpenedRow.sl = InitialStopLoss
    BY <1>t, <1>8 DEF OpenPosition, Entering, OpenedRow, NoRow
  <2> QED BY <1>t, <1>8, <2>1 DEF OpenPosition
<1>9. CASE UNCHANGED rows
  BY <1>9
<1> QED BY <1>1, <1>2, <1>3, <1>4, <1>5, <1>6, <1>7, <1>8, <1>9, RowSteps

\* A handler has a row in hand whose stop it has moved at the venue only after
\* moving it, and nothing of the row changes in between.
LEMMA MoveFollows ==
  TypeInv /\ [Next]_vars /\ pc' \in {"arm", "raise", "open"} =>
    \/ pc' = pc /\ UNCHANGED <<cur, rows>>
    \/ SetFirstStop
    \/ \E t \in Ticker, p \in Price : ArmVenue(t, p) \/ RaiseVenueStop(t, p)
<1> SUFFICES ASSUME TypeInv, [Next]_vars, pc' \in {"arm", "raise", "open"}
             PROVE  \/ pc' = pc /\ UNCHANGED <<cur, rows>>
                    \/ SetFirstStop
                    \/ \E t \in Ticker, p \in Price : ArmVenue(t, p) \/ RaiseVenueStop(t, p)
  OBVIOUS
<1>1. ASSUME NEW t \in Ticker, VenueStep(t)
      PROVE  pc' = pc /\ UNCHANGED <<cur, rows>>
  BY <1>1 DEF VenueStep, PublishStep, EngineWaits
<1>2. CASE UNCHANGED vars
  BY <1>2 DEF vars
<1>3. ASSUME RecordTrade
      PROVE  FALSE
  BY <1>3 DEF RecordTrade, TypeInv, TypeOK, Walks
<1> QED
  BY <1>1, <1>2, <1>3
  DEF Next, EngineStep, WalkStep, ExitStep, EntryStep, StartCycle, SyncPass, SyncTake,
      PassBreakEven, PassTarget, SendExit, LoseExitAck, MarkUnseen, AtTarget, OrderExit,
      ClosePosition, EndSync, ArmRow, EndBreakEven, AdvanceRow, MarkPending, ConfirmExit,
      GiveUpExit, EndConfirmed, BeginEntries, SkipEntry, PlaceBuy, LoseBuyAck, BuyOrdered,
      SeeFill, GiveUpEntry, OpenPosition, EndEntries, Abort, ForgetCycle

\* A step that leaves the venue's stop of a ticker keeps it as tight as the row.
LEMMA TightKept ==
  ASSUME TypeInv, [Next]_vars, NEW t \in Ticker, Tight(t), Held(t)' => Held(t),
         Held(t)' => venue'[t].guarded = venue[t].guarded /\ venue'[t].sl = venue[t].sl,
         cur' = t /\ pc' \in {"arm", "raise", "open"} => pc' = pc /\ UNCHANGED <<cur, rows>>
  PROVE  Tight(t)'
<1> SUFFICES ASSUME Held(t)'
             PROVE  /\ t \in OpenTickers' => venue'[t].guarded /\ venue'[t].sl >= rows'[t].sl
                    /\ cur' = t /\ pc' = "arm" => venue'[t].guarded /\ venue'[t].sl >= Entry
                    /\ cur' = t /\ pc' = "raise" =>
                         venue'[t].guarded /\ venue'[t].sl >= RatchetStopLoss(rows'[t].step + 1)
                    /\ cur' = t /\ pc' = "open" =>
                         venue'[t].guarded /\ venue'[t].sl >= InitialStopLoss
  BY DEF Tight
<1>1. Held(t) /\ venue'[t].guarded = venue[t].guarded /\ venue'[t].sl = venue[t].sl
  OBVIOUS
<1>2. t \in OpenTickers' => venue'[t].guarded /\ venue'[t].sl >= rows'[t].sl
  <2> SUFFICES ASSUME t \in OpenTickers'
               PROVE  venue[t].guarded /\ venue[t].sl >= rows'[t].sl
    BY <1>1
  <2>1. CASE t \in OpenTickers /\ rows'[t].sl = rows[t].sl
    BY <1>1, <2>1 DEF Tight
  <2>2. CASE ArmRow /\ cur = t /\ rows'[t].sl = Entry
    BY <1>1, <2>2 DEF Tight, ArmRow
  <2>3. CASE AdvanceRow /\ cur = t /\ rows'[t].sl = RatchetStopLoss(rows[t].step + 1)
    BY <1>1, <2>3 DEF Tight, AdvanceRow
  <2>4. CASE OpenPosition /\ cur = t /\ rows'[t].sl = InitialStopLoss
    BY <1>1, <2>4 DEF Tight, OpenPosition
  <2> QED BY <2>1, <2>2, <2>3, <2>4, StopKept
<1>3. ASSUME cur' = t, pc' \in {"arm", "raise", "open"}
      PROVE  pc = pc' /\ cur = t /\ rows'[t] = rows[t]
  BY <1>3
<1> QED BY <1>1, <1>2, <1>3 DEF Tight

LEMMA TightStep == TypeInv /\ RowInv /\ VenueInv /\ TightInv /\ [Next]_vars => TightInv'
<1> SUFFICES ASSUME TypeInv, RowInv, VenueInv, TightInv, [Next]_vars,
                    NEW t \in Ticker, t \notin stray'
             PROVE  Tight(t)'
  BY DEF TightInv
<1>t. /\ venue \in [Ticker -> VenuePosition] /\ buys \in [Ticker -> Nat]
      /\ rows \in [Ticker -> Row] /\ rows[t] \in Row
      /\ venue[t] \in VenuePosition
      /\ pc \in Entering => cur \in Ticker
  BY DEF TypeInv, TypeOK, InHand
<1>s. t \notin stray => Tight(t)
  BY DEF TightInv
<1>l. OnLadder(rows[t])
  BY DEF RowInv, RowsStand
<1>w. pc \in {"breakEven", "targets"} => todo \subseteq OpenTickers
  BY DEF RowInv, WalkInv, Walks
<1>g. \A position \in VenuePosition : \A stop :
        Guard(position, stop).guarded /\ Guard(position, stop).sl = stop
  BY DEF Guard, VenuePosition
<1>1. ASSUME NEW u \in Ticker, NEW p \in Price, ArmVenue(u, p)
      PROVE  Tight(t)'
  <2>1. /\ venue' = [venue EXCEPT ![u] = Guard(venue[u], Entry)] /\ rows' = rows
        /\ cur' = u /\ pc' = "arm" /\ t \notin stray /\ ~rows[u].breakEven
        /\ pc = "breakEven" /\ u \in todo
    BY <1>1 DEF ArmVenue, Arms, ghostVars
  <2>2. CASE t = u
    <3>1. rows[t].sl <= Entry
      BY <1>t, <1>l, <2>1, <2>2, TradeSettingsAssumption
         DEF OnLadder, Entry, InitialStopLoss, Row
    <3>2. venue'[t].guarded /\ venue'[t].sl = Entry
      BY <1>t, <1>g, <2>1, <2>2
    <3>3. Entry >= Entry /\ Entry >= rows[t].sl
      BY <1>t, <3>1 DEF Entry, Row
    <3> QED BY <2>1, <3>2, <3>3 DEF Tight
  <2>3. CASE t # u
    BY <1>t, <1>s, <2>1, <2>3, TightKept DEF Held
  <2> QED BY <2>2, <2>3
<1>2. ASSUME NEW u \in Ticker, NEW p \in Price, RaiseVenueStop(u, p)
      PROVE  Tight(t)'
  <2> DEFINE stop == RatchetStopLoss(rows[u].step + 1)
  <2>1. /\ venue' = [venue EXCEPT ![u] = Guard(venue[u], stop)] /\ rows' = rows
        /\ cur' = u /\ pc' = "raise" /\ t \notin stray
    BY <1>2 DEF RaiseVenueStop, ghostVars
  <2>2. CASE t = u
    <3>1. stop >= rows[t].sl
      BY <1>t, <1>l, <2>2, StopRises DEF RatchetedRow, Row
    <3>2. stop \in Int
      <4>1. rows[u].step + 1 \in Nat
        BY <1>t, <2>2 DEF Row
      <4> QED BY <4>1, LevelTypes
    <3>3. venue'[t].guarded /\ venue'[t].sl = stop /\ stop >= stop
      BY <1>t, <1>g, <2>1, <2>2, <3>2
    <3> QED BY <2>1, <2>2, <3>1, <3>3 DEF Tight
  <2>3. CASE t # u
    BY <1>t, <1>s, <2>1, <2>3, TightKept DEF Held
  <2> QED BY <2>2, <2>3
<1>3. CASE SetFirstStop
  <2>1. /\ venue' = [venue EXCEPT ![cur] = Guard(venue[cur], InitialStopLoss)]
        /\ UNCHANGED <<rows, cur>> /\ pc = "protect" /\ pc' = "open" /\ t \notin stray
        /\ cur \notin OpenTickers
    BY <1>3 DEF SetFirstStop, ghostVars, VenueInv, EntryInv, Entering
  <2>2. CASE t = cur
    <3>1. venue'[t].guarded /\ venue'[t].sl = InitialStopLoss
      BY <1>t, <1>g, <2>1, <2>2
    <3>2. InitialStopLoss >= InitialStopLoss /\ t \notin OpenTickers'
      BY <2>1, <2>2, LevelTypes DEF OpenTickers
    <3> QED BY <2>1, <3>1, <3>2 DEF Tight
  <2>3. CASE t # cur
    BY <1>t, <1>s, <2>1, <2>3, TightKept DEF Held
  <2> QED BY <2>2, <2>3
<1>4. ASSUME NEW f \in Labelling, NEW g \in Labelling, BeginEntries(f, g)
      PROVE  Tight(t)'
  <2>1. /\ pc' = "entries" /\ UNCHANGED <<venue, rows>>
        /\ t \in stray => t \notin OpenTickers
    BY <1>4 DEF BeginEntries
  <2>2. CASE t \in stray
    BY <2>1, <2>2 DEF Tight, OpenTickers
  <2>3. CASE t \notin stray
    BY <1>s, <2>1, <2>3, TightKept DEF Held
  <2> QED BY <2>2, <2>3
<1>5. ASSUME NEW u \in Ticker, FillBuy(u), EngineWaits
      PROVE  Tight(t)'
  <2>1. /\ UNCHANGED <<rows, cur, pc, stray>> /\ buys[u] > 0
        /\ venue' = [venue EXCEPT ![u].size = venue[u].size + 1]
    BY <1>5 DEF FillBuy, EngineWaits, ghostVars
  <2>2. CASE t = u
    <3>1. cur = t /\ pc = "fill"
      BY <1>t, <2>1, <2>2 DEF VenueInv, StrayInv, Known, Waits
    <3>2. t \notin OpenTickers
      BY <3>1 DEF VenueInv, EntryInv, Entering
    <3> QED BY <2>1, <3>1, <3>2 DEF Tight, OpenTickers
  <2>3. CASE t # u
    BY <1>t, <1>s, <2>1, <2>3, TightKept DEF Held
  <2> QED BY <2>2, <2>3
<1>6. ASSUME NEW u \in Ticker, NEW p \in Price, FillSell(u, p) \/ TriggerExit(u, p),
             EngineWaits
      PROVE  Tight(t)'
  <2>1. /\ UNCHANGED <<rows, cur, pc, stray>>
        /\ \/ venue' = [venue EXCEPT ![u] = Flat]
           \/ venue' = [venue EXCEPT ![u].size = venue[u].size - sells[u]] /\ Held(u)
    BY <1>6 DEF FillSell, Reduced, TriggerExit, EngineWaits, ghostVars
  <2>2. Held(t)' => /\ Held(t) /\ venue'[t].guarded = venue[t].guarded
                    /\ venue'[t].sl = venue[t].sl
    BY <1>t, <2>1 DEF Held, Flat, VenuePosition
  <2> QED BY <1>s, <2>1, <2>2, TightKept
<1>7. CASE UNCHANGED venue /\ stray \subseteq stray'
  <2>1. CASE cur' = t /\ pc' \in {"arm", "raise", "open"} =>
               pc' = pc /\ UNCHANGED <<cur, rows>>
    BY <1>s, <1>7, <2>1, TightKept DEF Held
  <2> QED BY <1>1, <1>2, <1>3, <2>1, MoveFollows
<1>8. ASSUME NEW u \in Ticker,
             \/ PlaceBuy(u) \/ LoseBuyAck(u)
             \/ (CancelBuy(u) \/ CancelSell(u)) /\ EngineWaits
             \/ \E p \in Price : SendExit(u, p) \/ LoseExitAck(u, p)
      PROVE  UNCHANGED venue /\ stray \subseteq stray'
  BY <1>8 DEF PlaceBuy, LoseBuyAck, CancelBuy, CancelSell, SendExit, LoseExitAck,
              EngineWaits, ghostVars
<1>9. UNCHANGED venue => \/ stray \subseteq stray'
                         \/ \E f, g \in Labelling : BeginEntries(f, g)
  <2>1. ASSUME NEW u \in Ticker, VenueStep(u)
        PROVE  stray \subseteq stray'
    BY <2>1 DEF VenueStep, PublishStep, EngineWaits, ghostVars
  <2> QED BY <2>1, ListSteps
<1> QED
  BY <1>1, <1>2, <1>3, <1>4, <1>5, <1>6, <1>7, <1>8, <1>9, VenueSteps

\* Whatever fails between moving a stop at the venue and writing it to the row,
\* an open position without a stray entry is guarded at the venue at least as
\* tightly as its row says.
THEOREM VenueStopsTight == Spec => []VenueStopTight
<1>1. TypeInv /\ RowInv /\ VenueInv /\ TightInv /\ [Next]_vars => TightInv'
  BY TightStep
<1>2. TightInv => VenueStopTight
  BY DEF TightInv, Tight, VenueStopTight, OpenTickers
<1> QED BY <1>1, <1>2, TightInit, VenueCorrect, PTL DEF Spec
==========================================================================
