------------------------- MODULE TradeManagement -------------------------
(***************************************************************************)
(* The rules every position is managed by: trade_management.py, the pure   *)
(* helper that live execution, local execution and the backtest share.     *)
(*                                                                         *)
(* A price is written as the return it makes on the position's own entry   *)
(* price, in basis points, so the entry is 0, the initial take profit is   *)
(* TakeProfitPct and the initial stop is -StopLossPct.  Every formula of   *)
(* the source multiplies the entry by (1 + pct) and compares two such      *)
(* products, so dividing by the entry (positive) keeps every comparison.   *)
(* The source's relative tolerance of 1e-9 absorbs float noise only.       *)
(***************************************************************************)
EXTENDS Integers

CONSTANTS
  TakeProfitPct,      \* TAKE_PROFIT_PCT, basis points
  StopLossPct,        \* STOP_LOSS_PCT, basis points
  BreakEvenEnabled,   \* BREAK_EVEN_STOP_ENABLED
  BreakEvenPercent,   \* BREAK_EVEN_STOP_TRIGGER_FRACTION_OF_TP, percent
  RatchetEnabled,     \* PROFIT_RATCHET_ENABLED
  RatchetMaxSteps     \* PROFIT_RATCHET_MAX_STEPS, 0 or less for no limit

\* Startup validation refuses a non-positive TP or SL; the rest is unchecked.
ASSUME TradeSettingsAssumption ==
  /\ TakeProfitPct \in Nat \ {0}
  /\ StopLossPct \in Nat \ {0}
  /\ BreakEvenEnabled \in BOOLEAN
  /\ BreakEvenPercent \in Int
  /\ RatchetEnabled \in BOOLEAN
  /\ RatchetMaxSteps \in Int

Entry == 0

ExitEvents ==
  { "take_profit_exit", "stop_loss_exit", "break_even_stop_exit",
    "profit_ratchet_stop_exit", "stale_timeout_exit", "exchange_exit" }

InitialTakeProfit == TakeProfitPct
InitialStopLoss == -StopLossPct

\* The fraction is clamped to 0..1 before it is used.
ClampedPercent ==
  IF BreakEvenPercent < 0 THEN 0
  ELSE IF BreakEvenPercent > 100 THEN 100 ELSE BreakEvenPercent

BreakEvenReached(price) ==
  BreakEvenEnabled /\ price * 100 >= TakeProfitPct * ClampedPercent

\* Mutant: one rung more than the limit.
CanAdvancePastLimit(step, ready) ==
  /\ RatchetEnabled
  /\ RatchetMaxSteps > 0 => step <= RatchetMaxSteps
  /\ ready

\* ready: the ticker's signal of this cycle is entry_ready.
ProfitRatchetCanAdvance(step, ready) ==
  /\ RatchetEnabled
  /\ RatchetMaxSteps > 0 => step < RatchetMaxSteps
  /\ ready

\* The rungs stand on the entry price, never on the latest price.
RatchetTakeProfit(step) == TakeProfitPct * (step + 1)
RatchetStopLossOneRungLow(step) == TakeProfitPct * (step - 2)   \* mutant
RatchetStopLoss(step) == TakeProfitPct * (step - 1)

\* Mutant: the reason of a stop exit where its event belongs.
StopExitEventAsReason(stop, breakEven) == "stop_hit"

\* Mutant: a stop lifted to the entry is filed as a plain stop loss.
StopExitEventBySign(stop, breakEven) ==
  IF stop > Entry THEN "profit_ratchet_stop_exit" ELSE "stop_loss_exit"

\* What a stop at stop stands for: a loss, the entry, or a locked-in profit.
StopExitEvent(stop, breakEven) ==
  IF stop > Entry THEN "profit_ratchet_stop_exit"
  ELSE IF breakEven \/ stop >= Entry THEN "break_even_stop_exit"
  ELSE "stop_loss_exit"

InferExitEvent(stop, target, breakEven, exit, reason) ==
  IF reason = "stale_timeout_hit" THEN "stale_timeout_exit"
  ELSE IF exit >= target THEN "take_profit_exit"
  ELSE IF exit <= stop THEN StopExitEvent(stop, breakEven)
  ELSE "exchange_exit"
==========================================================================
