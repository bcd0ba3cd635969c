----------------------------- MODULE EntryGate ---------------------------
(***************************************************************************)
(* The chain of early continues at the head of the loop of                 *)
(* ExecutionEngine._process_entries, shared by the local and the live      *)
(* branch.  The inputs are what the engine read when the loop began (the open  *)
(* rows, the cluster counts, today's stop losses) with what the loop       *)
(* itself has added to them since.                                    *)
(***************************************************************************)
EXTENDS Integers, FiniteSets

CONSTANTS
  MaxOpenPositions,     \* MAX_OPEN_POSITIONS, 0 for no cap
  MaxPerCluster,        \* MAX_POSITIONS_PER_CLUSTER, 0 for no cap
  MaxDailyStopLosses,   \* MAX_DAILY_STOP_LOSSES, 0 for no breaker
  OperatorPause         \* OPERATOR_PAUSE_NEW_ENTRIES

ASSUME EntryGateAssumption ==
  /\ MaxOpenPositions \in Nat
  /\ MaxPerCluster \in Nat
  /\ MaxDailyStopLosses \in Nat
  /\ OperatorPause \in BOOLEAN

ReachedLate(count, limit) == limit > 0 /\ count > limit   \* mutant
Reached(count, limit) == limit > 0 /\ count >= limit

\* Mutant: the breaker is not consulted.
AdmitsWithoutBreaker(t, booked, n, blocked, stopLosses) ==
  /\ ~OperatorPause
  /\ ~Reached(Cardinality(booked), MaxOpenPositions)
  /\ ~Reached(n, MaxPerCluster)
  /\ t \notin blocked \cup booked

\* t: the candidate; n: how many of its cluster are counted.
Admits(t, booked, n, blocked, stopLosses) ==
  /\ ~OperatorPause
  /\ ~Reached(Cardinality(booked), MaxOpenPositions)
  /\ ~Reached(n, MaxPerCluster)
  /\ t \notin blocked
  /\ t \notin booked
  /\ ~Reached(stopLosses, MaxDailyStopLosses)
==========================================================================
