--------------------------- MODULE MCSignalEngine --------------------------
(* A small instance of SignalEngine for TLC. *)
EXTENDS SignalEngine

CONSTANT a

MCTicker == {a}
=============================================================================
