------------------------ MODULE PositionBookProofs -----------------------
(***************************************************************************)
(* What the statements on a position row make of it, for every setting of  *)
(* take profit, stop loss, break-even and ratchet, and every price.        *)
(***************************************************************************)
EXTENDS PositionBook, TLAPS

LEMMA LevelTypes ==
  /\ Entry \in Int /\ InitialTakeProfit \in Int /\ InitialStopLoss \in Int
  /\ \A step \in Nat : RatchetTakeProfit(step) \in Int /\ RatchetStopLoss(step) \in Int
BY TradeSettingsAssumption
   DEF Entry, InitialTakeProfit, InitialStopLoss, RatchetTakeProfit, RatchetStopLoss

\* What each committed statement makes of a row is a row.
LEMMA RowTypes ==
  /\ NoRow \in Row
  /\ OpenedRow \in Row
  /\ \A row \in Row : ArmedRow(row) \in Row /\ ExitOrderedRow(row) \in Row
  /\ \A row \in Row : PendingRow(row) \in Row
  /\ \A row \in Row, step \in Nat : RatchetedRow(row, step) \in Row
  /\ \A row \in Row, exit \in Int : ClosedRow(row, exit) \in Row
  /\ \A row \in Row, event \in ExitEvents : AnalysedRow(row, event) \in Row
<1>1. NoRow \in Row
  BY LevelTypes DEF NoRow, Row
<1>2. OpenedRow \in Row
  BY <1>1 DEF OpenedRow, Row
<1>3. \A row \in Row : ArmedRow(row) \in Row
  BY LevelTypes DEF ArmedRow, Row
<1>4. \A row \in Row : ExitOrderedRow(row) \in Row
  BY DEF ExitOrderedRow, Row
<1>5. \A row \in Row, step \in Nat : RatchetedRow(row, step) \in Row
  BY LevelTypes DEF RatchetedRow, Row
<1>6. \A row \in Row, exit \in Int : ClosedRow(row, exit) \in Row
  BY DEF ClosedRow, Row
<1>7. \A row \in Row, event \in ExitEvents : AnalysedRow(row, event) \in Row
  BY DEF AnalysedRow, Row
<1>8. \A row \in Row : PendingRow(row) \in Row
  BY DEF PendingRow, Row
<1> QED BY <1>1, <1>2, <1>3, <1>4, <1>5, <1>6, <1>7, <1>8

LEMMA ExitEventType ==
  ASSUME NEW row \in Row, NEW exit \in Int, NEW why
  PROVE  RowExitEvent(row, exit, why) \in ExitEvents
BY DEF RowExitEvent, InferExitEvent, StopExitEvent, ExitEvents

\* Only a close changes the status of a row.
LEMMA StatusKept ==
  ASSUME NEW row \in Row
  PROVE  /\ ArmedRow(row).status = row.status
         /\ ExitOrderedRow(row).status = row.status
         /\ PendingRow(row).status = row.status
         /\ \A step : RatchetedRow(row, step).status = row.status
         /\ \A exit : ClosedRow(row, exit).status = "closed"
         /\ \A event : AnalysedRow(row, event).status = row.status
BY DEF ArmedRow, ExitOrderedRow, PendingRow, RatchetedRow, ClosedRow, AnalysedRow, Row

\* Closing a row changes nothing of what its exit will be filed as.
LEMMA CloseKeepsEvent ==
  ASSUME NEW row \in Row, NEW exit, NEW why
  PROVE  RowExitEvent(ClosedRow(row, exit), exit, why) = RowExitEvent(row, exit, why)
BY DEF RowExitEvent, ClosedRow, Row

--------------------------------------------------------------------------
\* The ladder.

\* A new row, an armed one and a row one rung higher stand on the ladder, and
\* nothing else a statement changes takes a row off it.
LEMMA LadderKept ==
  /\ OnLadder(NoRow) /\ OnLadder(OpenedRow)
  /\ \A row \in Row : OnLadder(row) =>
       /\ ~row.breakEven => OnLadder(ArmedRow(row))
       /\ OnLadder(ExitOrderedRow(row)) /\ OnLadder(PendingRow(row))
       /\ \A exit : OnLadder(ClosedRow(row, exit))
       /\ \A event : OnLadder(AnalysedRow(row, event))
<1>1. OnLadder(NoRow) /\ OnLadder(OpenedRow)
  BY DEF OnLadder, NoRow, OpenedRow
<1> SUFFICES ASSUME NEW row \in Row, OnLadder(row)
             PROVE  /\ ~row.breakEven => OnLadder(ArmedRow(row))
                    /\ OnLadder(ExitOrderedRow(row)) /\ OnLadder(PendingRow(row))
                    /\ \A exit : OnLadder(ClosedRow(row, exit))
                    /\ \A event : OnLadder(AnalysedRow(row, event))
  BY <1>1
<1>2. ~row.breakEven => OnLadder(ArmedRow(row))
  BY DEF OnLadder, ArmedRow, Row
<1>3. OnLadder(ExitOrderedRow(row)) /\ OnLadder(PendingRow(row))
  BY DEF OnLadder, ExitOrderedRow, PendingRow, Row
<1>4. \A exit : OnLadder(ClosedRow(row, exit))
  BY DEF OnLadder, ClosedRow, Row
<1>5. \A event : OnLadder(AnalysedRow(row, event))
  BY DEF OnLadder, AnalysedRow, Row
<1> QED BY <1>2, <1>3, <1>4, <1>5

\* A row the ratchet may advance stands on the next rung once it has.
THEOREM RatchetClimbs ==
  ASSUME NEW row \in Row, NEW ready, ProfitRatchetCanAdvance(row.step, ready)
  PROVE  OnLadder(RatchetedRow(row, row.step + 1))
BY TradeSettingsAssumption
   DEF OnLadder, RatchetedRow, ProfitRatchetCanAdvance, Row

\* Arming and ratcheting a row on the ladder never lowers its stop.
THEOREM StopRises ==
  ASSUME NEW row \in Row, OnLadder(row)
  PROVE  /\ ~row.breakEven => ArmedRow(row).sl >= row.sl
         /\ RatchetedRow(row, row.step + 1).sl >= row.sl
<1>1. ~row.breakEven => ArmedRow(row).sl >= row.sl
  BY TradeSettingsAssumption DEF OnLadder, ArmedRow, Row, Entry, InitialStopLoss
<1>2. RatchetedRow(row, row.step + 1).sl = TakeProfitPct * row.step
  BY TradeSettingsAssumption DEF RatchetedRow, RatchetStopLoss, Row
<1>3. CASE row.step = 0
  <2>1. TakeProfitPct * row.step = 0
    BY <1>3, TradeSettingsAssumption
  <2>2. row.sl <= 0
    BY <1>3, TradeSettingsAssumption DEF OnLadder, Entry, InitialStopLoss
  <2> QED BY <1>1, <1>2, <2>1, <2>2 DEF Row
<1>4. CASE row.step > 0
  <2>1. row.sl = TakeProfitPct * (row.step - 1)
    BY <1>4 DEF OnLadder, RatchetStopLoss, Row
  <2>2. TakeProfitPct * (row.step - 1) = TakeProfitPct * row.step - TakeProfitPct
    BY TradeSettingsAssumption DEF Row
  <2> QED BY <1>1, <1>2, <2>1, <2>2, TradeSettingsAssumption DEF Row
<1> QED BY <1>3, <1>4 DEF Row

--------------------------------------------------------------------------
\* What an exit is filed as.

\* The event filed for a row on the ladder tells whether its stop was lifted.
THEOREM FiledEventFits ==
  ASSUME NEW row \in Row, OnLadder(row), row.status = "closed",
         NEW why
  PROVE  EventFits(AnalysedRow(row, RowExitEvent(row, row.exit, why)))
<1> DEFINE event == RowExitEvent(row, row.exit, why)
<1>1. ~row.breakEven => row.sl < Entry
  BY TradeSettingsAssumption DEF OnLadder, Entry, InitialStopLoss, Row
<1>2. event = "stop_loss_exit" => row.exit < Entry /\ ~row.breakEven /\ row.step = 0
  BY DEF RowExitEvent, InferExitEvent, StopExitEvent, OnLadder, Entry, Row
\* From the second rung on the stop is above the entry, and only there.
<1>3. row.sl > Entry <=> row.step > 1
  <2>1. CASE row.step = 0
    BY <2>1, TradeSettingsAssumption DEF OnLadder, Entry, InitialStopLoss, Row
  <2>2. CASE row.step > 0
    <3>1. row.sl = TakeProfitPct * (row.step - 1)
      BY <2>2 DEF OnLadder, RatchetStopLoss, Row
    <3> QED BY <2>2, <3>1, TradeSettingsAssumption DEF Entry, Row
  <2> QED BY <2>1, <2>2 DEF Row
<1>4. event = "break_even_stop_exit" =>
        row.exit <= Entry /\ row.breakEven /\ row.step <= 1
  BY <1>1, <1>3 DEF RowExitEvent, InferExitEvent, StopExitEvent, Entry, Row
<1>5. event = "profit_ratchet_stop_exit" => row.exit <= row.sl /\ row.step > 1
  BY <1>3 DEF RowExitEvent, InferExitEvent, StopExitEvent, Entry, Row
<1> QED BY <1>2, <1>4, <1>5 DEF EventFits, AnalysedRow, Row

\* A position that is not closed has no event, and keeps none until it is filed.
LEMMA EventKept ==
  /\ EventFits(NoRow) /\ EventFits(OpenedRow)
  /\ \A row \in Row : row.status = "open" /\ EventFits(row) =>
       /\ EventFits(ArmedRow(row)) /\ EventFits(ExitOrderedRow(row))
       /\ EventFits(PendingRow(row))
       /\ \A step : EventFits(RatchetedRow(row, step))
       /\ \A exit : EventFits(ClosedRow(row, exit))
BY DEF EventFits, NoRow, OpenedRow, ArmedRow, ExitOrderedRow, PendingRow,
       RatchetedRow, ClosedRow, Row
==========================================================================
