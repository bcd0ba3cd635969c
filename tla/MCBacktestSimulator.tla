----------------------- MODULE MCBacktestSimulator -----------------------
(* Small instances of BacktestSimulator for TLC. *)
EXTENDS BacktestSimulator

CONSTANTS a, b, k, m

MCTicker == {a, b}
MCLabelling == {[t \in MCTicker |-> k], [t \in MCTicker |-> IF t = a THEN k ELSE m]}
\* The stop, between it and the entry, the break-even trigger, the targets.
MCPrice == {-2, -1, 1, 4}
==========================================================================
