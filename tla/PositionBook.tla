--------------------------- MODULE PositionBook --------------------------
(***************************************************************************)
(* The rows the engine keeps in SQLite (database.py: positions, orders,    *)
(* trade_analytics).  A value of this module's Row is the newest position  *)
(* of one ticker with what the other two tables say of it: how many filled *)
(* exit orders name it and whether its trade_analytics row was written.    *)
(* Every operator is one committed statement, what it leaves of the row    *)
(* unchanged included.                                                     *)
(***************************************************************************)
EXTENDS TradeManagement

Row ==
  [ status     : {"none", "open", "closed"},
    sl         : Int,           \* stop_loss_price
    tp         : Int,           \* take_profit_price
    step       : Nat,           \* profit_ratchet_step
    breakEven  : BOOLEAN,       \* break_even_stop_active
    pending    : BOOLEAN,       \* pending_exit_reason is set
    exitOrders : Nat,           \* orders rows of this position's exit
    exit       : Int,           \* exit_price
    event      : ExitEvents \cup {"none"} ]   \* trade_analytics.exit_event

\* No position was ever opened on the ticker.
NoRow ==
  [ status |-> "none", sl |-> InitialStopLoss, tp |-> InitialTakeProfit,
    step |-> 0, breakEven |-> FALSE, pending |-> FALSE, exitOrders |-> 0,
    exit |-> 0, event |-> "none" ]

\* INSERT of a position.  The partial unique index on open rows lets it
\* commit only while the ticker has no open row.
OpenedRow == [NoRow EXCEPT !.status = "open"]

ArmedRow(row) == [row EXCEPT !.breakEven = TRUE, !.sl = Entry]

RatchetedRow(row, step) ==
  [row EXCEPT !.tp = RatchetTakeProfit(step), !.sl = RatchetStopLoss(step),
              !.breakEven = TRUE, !.step = step]

\* Mutant: the row is closed when the exit is sent.
ClosedAtOnce(row) == [row EXCEPT !.status = "closed"]

PendingRow(row) == [row EXCEPT !.pending = TRUE]

ExitOrderedRow(row) == [row EXCEPT !.exitOrders = @ + 1]

ClosedRow(row, exit) ==
  [row EXCEPT !.status = "closed", !.pending = FALSE, !.exit = exit]

\* Mutant: exits by deadline are never filed.
AnalysedRowOfPriceExits(row, event) ==
  IF event = "stale_timeout_exit" THEN row ELSE [row EXCEPT !.event = event]

\* INSERT OR REPLACE keyed by position_id: writing it twice leaves one row.
AnalysedRow(row, event) == [row EXCEPT !.event = event]

RowExitEvent(row, exit, reason) ==
  InferExitEvent(row.sl, row.tp, row.breakEven, exit, reason)

--------------------------------------------------------------------------
\* What is to hold of a row whatever the order of the statements above.

OnLadder(row) ==
  \/ /\ row.step = 0
     /\ row.tp = InitialTakeProfit
     /\ row.sl = IF row.breakEven THEN Entry ELSE InitialStopLoss
  \/ /\ row.step > 0 /\ row.breakEven
     /\ row.tp = RatchetTakeProfit(row.step)
     /\ row.sl = RatchetStopLoss(row.step)
     /\ RatchetMaxSteps > 0 => row.step <= RatchetMaxSteps

EventFits(row) ==
  /\ row.event = "stop_loss_exit" =>
       row.exit < Entry /\ ~row.breakEven /\ row.step = 0
  /\ row.event = "break_even_stop_exit" =>
       row.exit <= Entry /\ row.breakEven /\ row.step <= 1
  /\ row.event = "profit_ratchet_stop_exit" => row.exit <= row.sl /\ row.step > 1
  /\ row.event # "none" => row.status = "closed"
==========================================================================
