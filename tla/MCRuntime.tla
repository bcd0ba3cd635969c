----------------------------- MODULE MCRuntime -----------------------------
(* A small instance of Runtime for TLC. *)
EXTENDS Runtime

CONSTANTS a, b

MCSymbol == {a, b}
MCUniverse == <<a, b>>
=============================================================================
