------------------------- MODULE MCLocalExecution ------------------------
(* Small instances of LocalExecution for TLC. *)
EXTENDS LocalExecution

CONSTANTS a, b, k, m

MCTicker == {a, b}
MCLabel == {k, m}
\* Correlated with each other, or each on its own.
MCLabelling == {[t \in MCTicker |-> k], [t \in MCTicker |-> IF t = a THEN k ELSE m]}
\* Around every level of a ladder of two rungs with TP = SL = 2 and the trigger at 1.
MCPrice == {-3, -1, 0, 1, 2, 4, 6}
\* Below the stop, between, at the target: enough to tell the three exits apart.
FewPrices == {-3, 1, 2}
AllTickers == {MCTicker}
ShrinkingUniverse == {MCTicker, {b}}
==========================================================================
