------------------------- MODULE MCLiveExecution -------------------------
(* Small instances of LiveExecution for TLC. *)
EXTENDS LiveExecution

CONSTANTS a, b, k

OneTicker == {a}
TwoTickers == {a, b}
OneLabel == {k}
Together == {[t \in Ticker |-> k]}
\* Below the stop, at the entry, at the trigger, at the first and second target.
MCPrice == {-3, 0, 1, 2, 4}
\* Below the stop, at the trigger (with BreakEvenPercent 50), at the first target.
FewPrices == {-3, 1, 2}
==========================================================================
