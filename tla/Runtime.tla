------------------------------ MODULE Runtime ------------------------------
(***************************************************************************)
(* The service around the feed (main.py): candle events are put into two   *)
(* bounded queues, one consumer per queue drains them into one cycle time, *)
(* waits for process_lock and runs a cycle.                                *)
(*                                                                         *)
(* A cycle is a start and an end; what it does is modelled by              *)
(* LocalExecution, LiveExecution and SignalEngine.  A stage is a queue     *)
(* with its consumer.                                                      *)
(***************************************************************************)
EXTENDS MarketFeed

CONSTANTS
  Universe,     \* Settings.universe, a list
  QueueSize     \* QUEUE_MAXSIZE

ASSUME QueueAssumption == Universe \in Seq(Symbol) /\ QueueSize \in Nat \ {0}

Stage == {"emerging", "confirmed"}

\* The time of an emerging cycle is only logged: such a cycle goes by the clock.
Intrabar == 1

VARIABLES
  queue,     \* cycle times per stage, oldest first
  pc,        \* where the consumer of a stage stands
  stamp,     \* cycle_time_ms of the consumer: its cycle, or the one before
  turn,      \* process_lock: holder first, then the waiters in order
  dead,      \* stages whose consumer task has ended with an exception
  due        \* ghost: an event of the stage no cycle has followed yet

loopVars == <<queue, pc, stamp, turn, dead, due>>
vars == <<feedVars, loopVars>>

Stamp == 0..(MaxBar + 1)

TypeOK ==
  /\ FeedTypeOK
  /\ \A st \in Stage : queue[st] \in Seq(Stamp) /\ Len(queue[st]) <= QueueSize
  /\ pc \in [Stage -> {"get", "settle", "wait", "cycle", "failed"}]
  /\ stamp \in [Stage -> Stamp]
  /\ turn \in Seq(Stage) /\ IsInjective(turn)
  /\ dead \subseteq Stage
  /\ due \in [Stage -> BOOLEAN]

FreshLoops ==
  /\ queue = [st \in Stage |-> <<>>]
  /\ pc = [st \in Stage |-> "get"]
  /\ stamp = [st \in Stage |-> 0]
  /\ turn = <<>>
  /\ dead = {}
  /\ due = [st \in Stage |-> FALSE]

Init == FeedInit /\ FreshLoops

-----------------------------------------------------------------------------
(* Candle messages and their callbacks: one synchronous piece of code. *)

\* Mutant: the bound is never looked at.
EnqueuedAnyway(q, newTimes) == q \o newTimes

\* put_nowait: what does not fit is dropped, the newest first.
Enqueued(q, newTimes) ==
  LET all == q \o newTimes IN SubSeq(all, 1, Min({Len(all), QueueSize}))

Notify(st, newTimes) ==
  /\ queue' = [queue EXCEPT ![st] = Enqueued(@, newTimes)]
  /\ due' = [due EXCEPT ![st] = TRUE]
  /\ UNCHANGED <<pc, stamp, turn, dead>>

\* CandleGapError leaves stream_candles and reaches the supervisor.
Raise ==
  /\ link' = "failed"
  /\ stream' = NoStream
  /\ UNCHANGED <<times, prov, loopVars>>

Sent(s) == stream' = [stream EXCEPT ![s] = @ + 1] /\ UNCHANGED link

DeliverConfirm(s) ==
  LET bar == stream[s] IN
  /\ InTurn(s) /\ bar <= closed
  /\ UNCHANGED <<closed, fetched, faults>>
  /\ \/ /\ ConfirmOutcome(s, bar) = "taken"
        /\ TakeClose(s, bar)
        /\ Notify("confirmed", <<bar>>)
        /\ Sent(s)
     \/ /\ ConfirmOutcome(s, bar) = "ignored"
        /\ Sent(s)
        /\ UNCHANGED <<times, prov, loopVars>>
     \/ ConfirmOutcome(s, bar) = "gap" /\ Raise

DeliverProvisional(s, moved) ==
  LET bar == stream[s] IN
  /\ InTurn(s)
  /\ UNCHANGED <<closed, fetched, faults>>
  /\ \/ /\ ProvisionalOutcome(s, bar, moved) = "taken"
        /\ TakeProvisional(s, bar)
        /\ Notify("emerging", <<Intrabar>>)
        /\ UNCHANGED <<link, stream>>
     \/ /\ ProvisionalOutcome(s, bar, moved) = "ignored"
        /\ UNCHANGED <<link, stream, times, prov, loopVars>>
     \/ ProvisionalOutcome(s, bar, moved) = "gap" /\ Raise

\* Mutant: the oldest bar of each history.
BootstrapOldest == [i \in DOMAIN Universe |-> Head(FetchedHistory(Universe[i]))]

\* close_times_ms[symbol][-1], in the order of the universe.
BootstrapTimes == [i \in DOMAIN Universe |-> Last(FetchedHistory(Universe[i]))]

\* The first bootstrap of run, or the recovery of the supervisor: each ends by
\* queueing the newest confirmed bar of every symbol of the universe.
Bootstrap ==
  /\ ApplyBootstrap
  /\ Notify("confirmed", BootstrapTimes)

-----------------------------------------------------------------------------
(* queue_consumer_loop. *)

Alive(st) == st \notin dead /\ link # "boot"

Get(st) ==
  /\ Alive(st) /\ pc[st] = "get"
  /\ queue[st] # <<>>
  /\ stamp' = [stamp EXCEPT ![st] = Head(queue[st])]
  /\ queue' = [queue EXCEPT ![st] = Tail(@)]
  /\ pc' = [pc EXCEPT ![st] = "settle"]
  /\ UNCHANGED <<feedVars, turn, dead, due>>

\* After the settle delay: the newest of what has come, the first one taken
\* included, is the time of one cycle.  Then the consumer asks for the lock.
Drain(st) ==
  /\ Alive(st) /\ pc[st] = "settle"
  /\ stamp' = [stamp EXCEPT ![st] = Max({@} \cup ToSet(queue[st]))]
  /\ queue' = [queue EXCEPT ![st] = <<>>]
  /\ turn' = Append(turn, st)
  /\ pc' = [pc EXCEPT ![st] = "wait"]
  /\ UNCHANGED <<feedVars, dead, due>>

StartCycle(st) ==
  /\ Alive(st) /\ pc[st] = "wait"
  /\ Head(turn) = st
  /\ pc' = [pc EXCEPT ![st] = "cycle"]
  /\ due' = [due EXCEPT ![st] = FALSE]
  /\ UNCHANGED <<feedVars, queue, stamp, turn, dead>>

EndCycle(st) ==
  /\ Alive(st) /\ pc[st] = "cycle"
  /\ turn' = Tail(turn)
  /\ pc' = [pc EXCEPT ![st] = "get"]
  /\ UNCHANGED <<feedVars, queue, stamp, dead, due>>

\* Mutant: an exception leaves the lock taken.
FailCycleLocked(st) ==
  /\ Alive(st) /\ pc[st] = "cycle"
  /\ Fault
  /\ pc' = [pc EXCEPT ![st] = "failed"]
  /\ UNCHANGED <<closed, times, prov, link, stream, fetched>>
  /\ UNCHANGED <<queue, stamp, turn, dead, due>>

\* async with: the lock is released on the way to the handler.
FailCycle(st) ==
  /\ Alive(st) /\ pc[st] = "cycle"
  /\ Fault
  /\ turn' = Tail(turn)
  /\ pc' = [pc EXCEPT ![st] = "failed"]
  /\ UNCHANGED <<closed, times, prov, link, stream, fetched>>
  /\ UNCHANGED <<queue, stamp, dead, due>>

CycleFailureLogged(st) ==
  /\ Alive(st) /\ pc[st] = "failed"
  /\ pc' = [pc EXCEPT ![st] = "get"]
  /\ UNCHANGED <<feedVars, queue, stamp, turn, dead, due>>

\* The handler writes to the database outside any other handler.
CycleFailureUnlogged(st) ==
  /\ Alive(st) /\ pc[st] = "failed"
  /\ dead' = dead \cup {st}
  /\ UNCHANGED <<feedVars, queue, pc, stamp, turn, due>>

\* Every task is cancelled; queues, lock and tasks are those of the process.
RestartRun ==
  /\ Restart
  /\ queue' = [st \in Stage |-> <<>>]
  /\ pc' = [st \in Stage |-> "get"]
  /\ stamp' = [st \in Stage |-> 0]
  /\ turn' = <<>>
  /\ dead' = {}
  /\ due' = [st \in Stage |-> FALSE]

-----------------------------------------------------------------------------
Supervise ==
  \/ Connect /\ UNCHANGED loopVars
  \/ LogFailure /\ UNCHANGED loopVars
  \/ \E s \in Symbol : Fetch(s) /\ UNCHANGED loopVars
  \/ Bootstrap

Messages(s) == DeliverConfirm(s) \/ \E moved \in BOOLEAN : DeliverProvisional(s, moved)

Consume(st) ==
  Get(st) \/ Drain(st) \/ StartCycle(st) \/ EndCycle(st) \/ CycleFailureLogged(st)

Faults ==
  \/ \E s \in Symbol : LoseConfirm(s) /\ UNCHANGED loopVars
  \/ Disconnect /\ UNCHANGED loopVars
  \/ LogFails /\ UNCHANGED loopVars
  \/ FetchFails /\ UNCHANGED loopVars
  \/ \E st \in Stage : FailCycle(st) \/ CycleFailureUnlogged(st)
  \/ RestartRun

Next ==
  \/ CloseBar /\ UNCHANGED loopVars
  \/ \E s \in Symbol : Messages(s)
  \/ Supervise
  \/ \E st \in Stage : Consume(st)
  \/ Faults

\* asyncio runs what can run; the exchange keeps sending confirmations and,
\* while a bar is open, prices.  Faults may happen, they need not.
Fairness ==
  /\ WF_vars(CloseBar /\ UNCHANGED loopVars)
  /\ WF_vars(\E s \in Symbol : DeliverConfirm(s))
  /\ \A s \in Symbol : WF_vars(\E moved \in BOOLEAN : DeliverProvisional(s, moved))
  /\ WF_vars(Supervise)
  /\ \A st \in Stage : WF_vars(Consume(st))

Spec == Init /\ [][Next]_vars /\ Fairness

-----------------------------------------------------------------------------
\* Every candle event, one that was dropped at a full queue included, is
\* followed by a cycle of its stage that starts after it and so reads it:
\* failures, the other consumer and the shared lock never swallow it.
EventsFollowed ==
  \A st \in Stage : due[st] ~> (~due[st] \/ st \in dead)

\* The clock of confirmed cycles, which dates exits and deadlines, never runs
\* back, although a bootstrap queues the symbols' bars in any order and they
\* may differ.
ConfirmedClockForward == 
  [][stamp'["confirmed"] >= stamp["confirmed"] \/ link' = "boot"]_vars

\* Once no more goes wrong every symbol has every closed bar: a lost message, a
\* bootstrap that straddled a close or one that failed is found out by a later
\* message and repaired.  Only a dead supervisor excuses the contrary.
HistoryHeals == <>[](CaughtUp \/ link = "dead")
=============================================================================
