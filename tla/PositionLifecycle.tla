------------------------ MODULE PositionLifecycle ------------------------
(***************************************************************************)
(* What position handling promises, whatever carries it out: a ticker has  *)
(* at most one open position, the number of open positions respects the    *)
(* cap, positions change one at a time, and the stop under an open         *)
(* position starts at the configured distance and is only ever raised.     *)
(* LocalExecution, LiveExecution and BacktestSimulator each implement it.  *)
(***************************************************************************)
EXTENDS Integers, FiniteSets

CONSTANTS Ticker, Cap, InitialStop

VARIABLES held,    \* the tickers with an open position
          floor    \* the stop under each position, InitialStop when not held

lifeVars == <<held, floor>>

LifeInit ==
  /\ held = {}
  /\ floor = [t \in Ticker |-> InitialStop]

Enter(t) ==
  /\ t \notin held
  /\ Cap > 0 => Cardinality(held) < Cap
  /\ held' = held \cup {t}
  /\ UNCHANGED floor

RaiseStop(t) ==
  /\ t \in held
  /\ floor'[t] >= floor[t]
  /\ floor' = [floor EXCEPT ![t] = floor'[t]]
  /\ UNCHANGED held

Leave(t) ==
  /\ t \in held
  /\ held' = held \ {t}
  /\ floor' = [floor EXCEPT ![t] = InitialStop]

LifeNext == \E t \in Ticker : Enter(t) \/ RaiseStop(t) \/ Leave(t)

LifeSpec == LifeInit /\ [][LifeNext]_lifeVars
==========================================================================
