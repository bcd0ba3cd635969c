--------------------------- MODULE RuntimeProofs ---------------------------
(***************************************************************************)
(* What holds of the feed and the consumers for every set of symbols,      *)
(* every window and queue size, and any number of faults.                  *)
(***************************************************************************)
EXTENDS Runtime, SequenceTheorems, WellFoundedInduction, TLAPS

-----------------------------------------------------------------------------
\* Histories.

Consecutive(h) == \A i \in 2..Len(h) : h[i] = h[i - 1] + 1

\* A confirmed close that is taken leaves a history without holes.
LEMMA AppendedWhole ==
  ASSUME NEW h \in Seq(Int), h # <<>>, Consecutive(h),
         NEW bar \in Int, bar = Last(h) + 1
  PROVE  /\ Appended(h, bar) \in Seq(Int) /\ Appended(h, bar) # <<>>
         /\ Consecutive(Appended(h, bar))
         /\ Last(Appended(h, bar)) = bar
<1> DEFINE longer == Append(h, bar)
<1>1. /\ longer \in Seq(Int) /\ Len(longer) = Len(h) + 1 /\ Len(h) \in Nat \ {0}
      /\ longer # <<>>
      /\ \A i \in 1..Len(h) : longer[i] = h[i]
      /\ longer[Len(longer)] = bar
  BY EmptySeq
<1> HIDE DEF longer
<1>2. Consecutive(longer)
  <2> SUFFICES ASSUME NEW i \in 2..Len(longer) PROVE longer[i] = longer[i - 1] + 1
    BY DEF Consecutive
  <2>1. CASE i = Len(longer)
    BY <1>1, <2>1 DEF Last
  <2>2. CASE i # Len(longer)
    <3>1. i \in 2..Len(h) /\ i \in 1..Len(h) /\ i - 1 \in 1..Len(h)
      BY <1>1, <2>2
    <3>2. h[i] = h[i - 1] + 1
      BY <3>1 DEF Consecutive
    <3> QED BY <1>1, <3>1, <3>2
  <2> QED BY <2>1, <2>2
<1>3. CASE Len(longer) <= Window
  BY <1>1, <1>2, <1>3, FeedAssumption DEF Appended, Last, longer
<1>4. CASE Len(longer) > Window
  <2>1. /\ Tail(longer) \in Seq(Int) /\ Len(Tail(longer)) = Len(h)
        /\ \A i \in 1..Len(h) : Tail(longer)[i] = longer[i + 1]
    BY <1>1, HeadTailProperties
  <2>2. Consecutive(Tail(longer))
    <3> SUFFICES ASSUME NEW i \in 2..Len(h)
                 PROVE  Tail(longer)[i] = Tail(longer)[i - 1] + 1
      BY <2>1 DEF Consecutive
    <3>1. i + 1 \in 2..Len(longer) /\ i - 1 \in 1..Len(h) /\ i \in 1..Len(h)
      BY <1>1
    <3>2. longer[i + 1] = longer[i + 1 - 1] + 1
      BY <1>2, <3>1 DEF Consecutive
    <3>3. i + 1 - 1 = i /\ i - 1 + 1 = i
      OBVIOUS
    <3> QED BY <2>1, <3>1, <3>2, <3>3
  <2>3. Tail(longer) # <<>> /\ Last(Tail(longer)) = bar
    BY <1>1, <2>1 DEF Last
  <2> QED BY <1>4, <1>1, <2>1, <2>2, <2>3, FeedAssumption DEF Appended, longer
<1> QED BY <1>1, <1>3, <1>4, FeedAssumption

\* So does a history that was fetched.
LEMMA FetchedWhole ==
  ASSUME NEW s \in Symbol, fetched[s] \in Int
  PROVE  /\ FetchedHistory(s) \in Seq(Int) /\ FetchedHistory(s) # <<>>
         /\ Consecutive(FetchedHistory(s))
         /\ Last(FetchedHistory(s)) = fetched[s]
<1>1. Window \in Nat \ {0}
  BY FeedAssumption
<1>2. FetchedHistory(s) \in Seq(Int) /\ Len(FetchedHistory(s)) = Window
  BY <1>1 DEF FetchedHistory
<1> QED BY <1>1, <1>2 DEF FetchedHistory, Consecutive, Last

\* Where the supervisor stands, every history has been filled at least once.
HistoryInv ==
  /\ closed \in Nat
  /\ times \in [Symbol -> Seq(Int)]
  /\ prov \in [Symbol -> Int]
  /\ stream \in [Symbol -> Int]
  /\ fetched \in [Symbol -> Nat]
  /\ \A s \in Symbol :
       /\ Consecutive(times[s])
       /\ prov[s] # 0 => prov[s] = LastBar(s) + 1
       /\ link # "boot" => times[s] # <<>>

LEMMA HistoryGivesNoHoles == HistoryInv => NoHoles
BY DEF HistoryInv, NoHoles, Consecutive

LEMMA HistoryInit == Init => HistoryInv
BY FeedAssumption
   DEF Init, FeedInit, HistoryInv, NoCandle, NoStream, NothingFetched, Consecutive

LEMMA HistoryConfirm ==
  ASSUME HistoryInv, NEW s \in Symbol, DeliverConfirm(s)
  PROVE  HistoryInv'
<1> DEFINE bar == stream[s]
<1>1. /\ closed' = closed /\ fetched' = fetched /\ link = "up" /\ bar \in Int
      /\ stream' \in [Symbol -> Int] /\ link' # "boot" /\ times[s] # <<>>
  BY DEF DeliverConfirm, InTurn, Sent, Raise, NoStream, HistoryInv
<1>2. CASE UNCHANGED <<times, prov>>
  BY <1>1, <1>2 DEF HistoryInv, LastBar
<1>3. CASE ConfirmOutcome(s, bar) = "taken" /\ TakeClose(s, bar)
  <2>1. bar = LastBar(s) + 1
    BY <1>1, <1>3 DEF ConfirmOutcome, HistoryInv, LastBar, Last
  <2>2. /\ times' = [times EXCEPT ![s] = Appended(times[s], bar)]
        /\ prov' \in [Symbol -> Int]
        /\ \A t \in Symbol \ {s} : prov'[t] = prov[t]
        /\ prov'[s] = 0
    <3>1. prov[s] = 0 \/ prov[s] = bar
      BY <2>1 DEF HistoryInv
    <3> QED BY <1>1, <1>3, <3>1 DEF TakeClose, HistoryInv
  <2>3. /\ Appended(times[s], bar) \in Seq(Int) /\ Appended(times[s], bar) # <<>>
        /\ Consecutive(Appended(times[s], bar))
    BY <1>1, <2>1, AppendedWhole DEF HistoryInv, LastBar
  <2> QED BY <1>1, <2>2, <2>3 DEF HistoryInv, LastBar
<1> QED BY <1>2, <1>3 DEF DeliverConfirm, Raise

LEMMA HistoryProvisional ==
  ASSUME HistoryInv, NEW s \in Symbol, NEW moved \in BOOLEAN, DeliverProvisional(s, moved)
  PROVE  HistoryInv'
<1> DEFINE bar == stream[s]
<1>1. /\ closed' = closed /\ fetched' = fetched /\ link = "up" /\ bar \in Int
      /\ stream' \in [Symbol -> Int] /\ link' # "boot" /\ times[s] # <<>>
      /\ times' = times
  BY DEF DeliverProvisional, TakeProvisional, InTurn, Raise, NoStream, HistoryInv
<1>2. CASE UNCHANGED <<times, prov>>
  BY <1>1, <1>2 DEF HistoryInv, LastBar
<1>3. CASE ProvisionalOutcome(s, bar, moved) = "taken" /\ TakeProvisional(s, bar)
  <2>1. LastBar(s) \in Int
    BY <1>1, EmptySeq DEF HistoryInv, LastBar, Last
  <2>2. bar = LastBar(s) + 1
    BY <1>1, <1>3, <2>1 DEF ProvisionalOutcome, HistoryInv
  <2> QED BY <1>1, <1>3, <2>2 DEF TakeProvisional, HistoryInv, LastBar
<1> QED BY <1>2, <1>3 DEF DeliverProvisional, Raise

LEMMA HistoryBootstrap == HistoryInv /\ ApplyBootstrap => HistoryInv'
<1> SUFFICES ASSUME HistoryInv, ApplyBootstrap PROVE HistoryInv'
  OBVIOUS
<1>1. /\ closed' = closed /\ stream' = stream /\ fetched' = NothingFetched
      /\ prov' = NoCandle /\ times' = [s \in Symbol |-> FetchedHistory(s)]
  BY DEF ApplyBootstrap
<1>2. \A s \in Symbol : /\ FetchedHistory(s) \in Seq(Int) /\ FetchedHistory(s) # <<>>
                        /\ Consecutive(FetchedHistory(s))
  BY FetchedWhole DEF HistoryInv
<1> QED BY <1>1, <1>2 DEF HistoryInv, NoCandle, NothingFetched

LEMMA HistoryStep == HistoryInv /\ [Next]_vars => HistoryInv'
<1> SUFFICES ASSUME HistoryInv, [Next]_vars PROVE HistoryInv'
  OBVIOUS
<1> USE DEF HistoryInv, LastBar
<1>1. CASE UNCHANGED feedVars
  BY <1>1 DEF feedVars
<1>2. CASE CloseBar
  BY <1>2 DEF CloseBar
<1>3. ASSUME NEW s \in Symbol, Messages(s) PROVE HistoryInv'
  BY <1>3, HistoryConfirm, HistoryProvisional DEF Messages
<1>4. CASE Connect \/ LogFailure \/ LogFails \/ FetchFails \/ Disconnect
  BY <1>4 DEF Connect, LogFailure, LogFails, FetchFails, Disconnect, NoStream, NothingFetched
<1>5. ASSUME NEW s \in Symbol, Fetch(s) PROVE HistoryInv'
  BY <1>5 DEF Fetch
<1>10. ASSUME NEW s \in Symbol, LoseConfirm(s) PROVE HistoryInv'
  <2>1. stream' \in [Symbol -> Int]
    BY <1>10 DEF LoseConfirm
  <2> QED BY <1>10, <2>1 DEF LoseConfirm
<1>6. CASE Bootstrap
  BY <1>6, HistoryBootstrap DEF Bootstrap
<1>7. ASSUME NEW st \in Stage, FailCycle(st) PROVE HistoryInv'
  BY <1>7 DEF FailCycle
<1>8. CASE Restart
  BY <1>8 DEF Restart, NoCandle, NoStream, NothingFetched, Consecutive
<1>9. ASSUME NEW st \in Stage, Consume(st) \/ CycleFailureUnlogged(st) PROVE UNCHANGED feedVars
  BY <1>9 DEF Consume, Get, Drain, StartCycle, EndCycle, CycleFailureLogged, CycleFailureUnlogged
<1> QED
  BY <1>1, <1>2, <1>3, <1>4, <1>5, <1>6, <1>7, <1>8, <1>9, <1>10
  DEF Next, vars, Supervise, Faults, RestartRun

\* The prices the ranking works on are always closes of consecutive bars: for any
\* number of lost messages, bootstraps that straddle a close, and restarts.
THEOREM HistoriesWhole == Spec => []NoHoles
<1>1. Spec => []HistoryInv
  BY HistoryInit, HistoryStep, PTL DEF Spec
<1> QED BY <1>1, HistoryGivesNoHoles, PTL

-----------------------------------------------------------------------------
\* The clock of confirmed cycles.

\* A set of naturals with a bound has a greatest element, which Max names.
LEMMA MaxProperties ==
  ASSUME NEW S \in SUBSET Nat, S # {}, NEW bound \in Nat, \A x \in S : x <= bound
  PROVE  Max(S) \in S /\ \A x \in S : x <= Max(S)
<1> DEFINE Above == {n \in Nat : \A x \in S : x <= n}
<1>1. Above \subseteq Nat /\ Above # {}
  OBVIOUS
<1>2. PICK least \in Above : \A n \in Above : ~(<<n, least>> \in OpToRel(<, Nat))
  BY <1>1, NatLessThanWellFounded, WFMin
<1>3. \A n \in Above : ~(n < least)
  BY <1>2 DEF OpToRel
<1>4. least \in S
  <2> SUFFICES ASSUME least \notin S PROVE FALSE
    OBVIOUS
  <2>1. \A x \in S : x < least
    OBVIOUS
  <2>2. PICK q \in S : q < least
    BY <2>1
  <2>3. least - 1 \in Nat /\ \A x \in S : x <= least - 1
    BY <2>1, <2>2
  <2> QED BY <1>3, <2>3
<1>5. \E m \in S : \A x \in S : m >= x
  BY <1>4
<1> QED BY <1>5 DEF Max

\* Of what waits in a queue nothing is invented by an event.
LEMMA EnqueuedFrom ==
  ASSUME NEW S, NEW q \in Seq(S), NEW more \in Seq(S)
  PROVE  /\ Enqueued(q, more) \in Seq(S)
         /\ ToSet(Enqueued(q, more)) \subseteq ToSet(q) \cup ToSet(more)
<1> DEFINE all == q \o more
           kept == Min({Len(all), QueueSize})
<1>1. /\ all \in Seq(S) /\ Len(all) = Len(q) + Len(more)
      /\ Len(all) \in Nat /\ Len(q) \in Nat /\ Len(more) \in Nat
      /\ DOMAIN q = 1..Len(q) /\ DOMAIN more = 1..Len(more)
      /\ \A i \in 1..Len(all) : all[i] = IF i <= Len(q) THEN q[i] ELSE more[i - Len(q)]
  BY ConcatProperties, LenProperties
<1>2. kept \in Nat /\ kept <= Len(all)
  <2> DEFINE two == {Len(all), QueueSize}
  <2>1. \E m \in two : \A n \in two : m <= n
    BY <1>1, QueueAssumption
  <2>2. Min(two) \in two /\ \A n \in two : Min(two) <= n
    BY <2>1 DEF Min
  <2> QED BY <1>1, <2>2, QueueAssumption
<1> HIDE DEF all, kept
<1>3. \A i \in 1..kept : all[i] \in S /\ all[i] \in ToSet(q) \cup ToSet(more)
  <2> SUFFICES ASSUME NEW i \in 1..kept
               PROVE  all[i] \in S /\ all[i] \in ToSet(q) \cup ToSet(more)
    OBVIOUS
  <2>1. i \in 1..Len(all)
    BY <1>1, <1>2
  <2>2. CASE i <= Len(q)
    BY <1>1, <2>1, <2>2 DEF ToSet
  <2>3. CASE i > Len(q)
    <3>1. i - Len(q) \in DOMAIN more
      BY <1>1, <2>1, <2>3
    <3>2. all[i] = more[i - Len(q)]
      BY <1>1, <2>1, <2>3
    <3>3. more[i - Len(q)] \in S
      BY <3>1, ElementOfSeq, <1>1
    <3> QED BY <3>1, <3>2, <3>3 DEF ToSet
  <2> QED BY <1>1, <2>2, <2>3
<1>4. /\ SubSeq(all, 1, kept) \in Seq(S)
      /\ Len(SubSeq(all, 1, kept)) = kept
      /\ \A i \in 1..kept : SubSeq(all, 1, kept)[i] = all[i]
  BY <1>2, <1>3, SubSeqProperties
<1>5. ToSet(SubSeq(all, 1, kept)) \subseteq ToSet(q) \cup ToSet(more)
  BY <1>3, <1>4, LenProperties DEF ToSet
<1> QED BY <1>4, <1>5 DEF Enqueued, all, kept

\* Every time in a queue or in a consumer's hand is a bar that had closed.  The
\* confirmed ones are at most what the stream sends next and what a bootstrap has
\* read so far, and between cycles none of the queue is before the last cycle.
Held(st) == ToSet(queue[st]) \cup {stamp[st]}

ClockInv ==
  /\ queue \in [Stage -> Seq(Nat)]
  /\ pc \in [Stage -> {"get", "settle", "wait", "cycle", "failed"}]
  /\ stamp \in [Stage -> Nat]
  /\ closed \in Nat \ {0}
  /\ fetched \in [Symbol -> Nat]
  /\ \A st \in Stage : \A q \in Held(st) : q <= closed
  /\ \A s \in Symbol :
       /\ fetched[s] <= closed
       /\ fetched[s] # 0 => \A q \in Held("confirmed") : q <= fetched[s]
       /\ link = "up" => \A q \in Held("confirmed") : q <= stream[s]
  /\ link \notin {"boot", "fetch"} => fetched = NothingFetched
  /\ pc["confirmed"] # "settle" => \A q \in ToSet(queue["confirmed"]) : stamp["confirmed"] <= q

LEMMA EmptyToSet == ToSet(<<>>) = {}
BY DEF ToSet

LEMMA ClockInit == Init => ClockInv
BY EmptyToSet, FeedAssumption
   DEF Init, FeedInit, FreshLoops, ClockInv, Held, Stage, NothingFetched

\* What an event does to the loops: its queue grows by what the event brings.
LEMMA NotifyHeld ==
  ASSUME ClockInv, NEW st \in Stage, NEW more \in Seq(Nat), Notify(st, more)
  PROVE  /\ queue' \in [Stage -> Seq(Nat)] /\ stamp' = stamp /\ pc' = pc
         /\ ToSet(queue'[st]) \subseteq ToSet(queue[st]) \cup ToSet(more)
         /\ \A other \in Stage \ {st} : queue'[other] = queue[other]
BY EnqueuedFrom DEF Notify, ClockInv

LEMMA ToSetOfOne == \A x : ToSet(<<x>>) = {x}
BY DEF ToSet

LEMMA HeldTypes ==
  ASSUME ClockInv, NEW st \in Stage
  PROVE  Held(st) \subseteq Nat /\ stamp[st] \in Held(st)
<1>1. queue[st] \in Seq(Nat) /\ stamp[st] \in Nat
  BY DEF ClockInv
<1>2. ToSet(queue[st]) \subseteq Nat
  BY <1>1, LenProperties, ElementOfSeq DEF ToSet
<1> QED BY <1>1, <1>2 DEF Held

LEMMA ClockConfirm ==
  ASSUME ClockInv, HistoryInv, NEW s \in Symbol, DeliverConfirm(s)
  PROVE  ClockInv'
<1> DEFINE bar == stream[s]
<1>1. /\ closed' = closed /\ fetched' = fetched /\ link = "up" /\ bar \in Int
      /\ fetched = NothingFetched /\ bar <= closed
      /\ \A t \in Symbol : bar <= stream[t]
      /\ \A q \in Held("confirmed") : q <= bar
  BY DEF DeliverConfirm, InTurn, HistoryInv, ClockInv
<1>2. CASE Raise
  BY <1>1, <1>2 DEF Raise, loopVars, ClockInv, Held
<1>3. stream' = [stream EXCEPT ![s] = bar + 1] /\ link' = link =>
        \A t \in Symbol : stream'[t] >= stream[t] /\ stream'[t] >= bar
  BY <1>1 DEF HistoryInv
<1>4. CASE Sent(s) /\ UNCHANGED loopVars
  <2>1. \A t \in Symbol : \A q \in Held("confirmed") : q <= stream'[t]
    <3>1. \A q \in Held("confirmed") : q \in Int
      BY HeldTypes DEF Stage
    <3>2. stream' \in [Symbol -> Int]
      BY <1>1, <1>4 DEF Sent, HistoryInv
    <3> QED BY <1>1, <1>3, <1>4, <3>1, <3>2 DEF Sent, HistoryInv
  <2> QED BY <1>1, <1>4, <2>1 DEF Sent, loopVars, ClockInv, Held
<1>5. CASE Sent(s) /\ Notify("confirmed", <<bar>>)
  <2>1. bar \in Nat /\ stamp["confirmed"] <= bar
    BY <1>1, HeldTypes DEF Stage
  <2>2. /\ queue' \in [Stage -> Seq(Nat)] /\ stamp' = stamp /\ pc' = pc
        /\ ToSet(queue'["confirmed"]) \subseteq ToSet(queue["confirmed"]) \cup {bar}
        /\ queue'["emerging"] = queue["emerging"]
    <3>1. <<bar>> \in Seq(Nat) /\ "confirmed" \in Stage
      BY <2>1 DEF Stage
    <3> HIDE DEF bar
    <3> QED BY <1>5, <3>1, NotifyHeld, ToSetOfOne DEF Stage
  <2>3. /\ Held("confirmed")' \subseteq Held("confirmed") \cup {bar}
        /\ Held("emerging")' = Held("emerging")
    BY <2>2 DEF Held
  <2>4. \A q \in Held("confirmed")' : q \in Int /\ q <= bar
    BY <1>1, <2>1, <2>3, HeldTypes DEF Stage
  <2>5. \A t \in Symbol : \A q \in Held("confirmed")' : q <= stream'[t]
    <3>1. stream' \in [Symbol -> Int]
      BY <1>1, <1>5 DEF Sent, HistoryInv
    <3> QED BY <1>1, <1>3, <1>5, <2>4, <3>1 DEF Sent
  <2>6. \A st \in Stage : \A q \in Held(st)' : q <= closed
    BY <1>1, <2>3, <2>4 DEF Stage, ClockInv
  <2>7. pc'["confirmed"] # "settle" =>
          \A q \in ToSet(queue'["confirmed"]) : stamp'["confirmed"] <= q
    BY <2>1, <2>2 DEF ClockInv
  <2> QED BY <1>1, <2>2, <2>5, <2>6, <2>7, NotifyHeld DEF ClockInv, NothingFetched
<1> QED BY <1>2, <1>4, <1>5 DEF DeliverConfirm

LEMMA ClockProvisional ==
  ASSUME ClockInv, HistoryInv, NEW s \in Symbol, NEW moved \in BOOLEAN,
         DeliverProvisional(s, moved)
  PROVE  ClockInv'
<1>1. closed' = closed /\ fetched' = fetched /\ link = "up"
  BY DEF DeliverProvisional, InTurn
<1>2. CASE Raise
  BY <1>1, <1>2 DEF Raise, loopVars, ClockInv, Held
<1>3. CASE UNCHANGED <<link, stream, loopVars>>
  BY <1>1, <1>3 DEF loopVars, ClockInv, Held
<1>4. CASE Notify("emerging", <<Intrabar>>) /\ UNCHANGED <<link, stream>>
  <2>1. /\ queue' \in [Stage -> Seq(Nat)] /\ stamp' = stamp /\ pc' = pc
        /\ ToSet(queue'["emerging"]) \subseteq ToSet(queue["emerging"]) \cup {Intrabar}
        /\ queue'["confirmed"] = queue["confirmed"]
    <3>1. <<Intrabar>> \in Seq(Nat) /\ "emerging" \in Stage
      BY DEF Stage, Intrabar
    <3> QED BY <1>4, <3>1, NotifyHeld, ToSetOfOne DEF Stage
  <2>2. /\ Held("confirmed")' = Held("confirmed")
        /\ Held("emerging")' \subseteq Held("emerging") \cup {1}
    BY <2>1 DEF Held, Intrabar
  <2>3. \A st \in Stage : \A q \in Held(st)' : q <= closed
    BY <2>2 DEF Stage, ClockInv
  <2> QED BY <1>1, <1>4, <2>1, <2>2, <2>3 DEF ClockInv
<1> QED BY <1>2, <1>3, <1>4 DEF DeliverProvisional

LEMMA ClockBootstrap ==
  ASSUME ClockInv, HistoryInv, Bootstrap
  PROVE  ClockInv'
<1>1. /\ closed' = closed /\ link' = "connect" /\ fetched' = NothingFetched
      /\ \A s \in Symbol : fetched[s] \in Nat /\ fetched[s] > 0 /\ fetched[s] <= closed
  BY DEF Bootstrap, ApplyBootstrap, ClockInv
<1>2. /\ BootstrapTimes \in Seq(Nat)
      /\ ToSet(BootstrapTimes) \subseteq {fetched[s] : s \in Symbol}
  <2>1. /\ DOMAIN Universe = 1..Len(Universe) /\ Len(Universe) \in Nat
        /\ \A i \in DOMAIN Universe : Universe[i] \in Symbol
    BY QueueAssumption, LenProperties, ElementOfSeq
  <2>2. BootstrapTimes = [i \in 1..Len(Universe) |-> fetched[Universe[i]]]
    BY <1>1, <2>1, FetchedWhole DEF BootstrapTimes
  <2>3. \A i \in 1..Len(Universe) : fetched[Universe[i]] \in Nat
    BY <1>1, <2>1
  <2> QED BY <2>1, <2>2, <2>3 DEF ToSet
<1>3. /\ queue' \in [Stage -> Seq(Nat)] /\ stamp' = stamp /\ pc' = pc
      /\ ToSet(queue'["confirmed"]) \subseteq ToSet(queue["confirmed"]) \cup ToSet(BootstrapTimes)
      /\ queue'["emerging"] = queue["emerging"]
  BY <1>2, NotifyHeld DEF Bootstrap, Stage
<1>4. \A q \in ToSet(BootstrapTimes) : q <= closed /\ stamp["confirmed"] <= q
  <2> SUFFICES ASSUME NEW s \in Symbol
               PROVE  fetched[s] <= closed /\ stamp["confirmed"] <= fetched[s]
    BY <1>2
  <2> QED BY <1>1, HeldTypes DEF ClockInv, Stage
<1>5. \A st \in Stage : \A q \in Held(st)' : q <= closed
  BY <1>3, <1>4 DEF Stage, ClockInv, Held
<1>6. pc'["confirmed"] # "settle" =>
        \A q \in ToSet(queue'["confirmed"]) : stamp'["confirmed"] <= q
  BY <1>3, <1>4 DEF ClockInv
<1> QED BY <1>1, <1>3, <1>5, <1>6 DEF ClockInv, NothingFetched

\* The consumer takes the oldest time, and then the newest of what has come.
LEMMA ClockGet ==
  ASSUME ClockInv, NEW st \in Stage, Get(st)
  PROVE  ClockInv' /\ (st = "confirmed" => stamp'["confirmed"] >= stamp["confirmed"])
<1>1. /\ queue[st] \in Seq(Nat) /\ queue[st] # <<>>
      /\ stamp' = [stamp EXCEPT ![st] = Head(queue[st])]
      /\ queue' = [queue EXCEPT ![st] = Tail(queue[st])]
      /\ pc[st] = "get" /\ pc' = [pc EXCEPT ![st] = "settle"]
      /\ UNCHANGED feedVars
  BY DEF Get, ClockInv
<1>2. /\ Head(queue[st]) \in ToSet(queue[st]) /\ Head(queue[st]) \in Nat
      /\ Tail(queue[st]) \in Seq(Nat) /\ ToSet(Tail(queue[st])) \subseteq ToSet(queue[st])
  <2>1. Len(queue[st]) \in Nat \ {0}
    BY <1>1, EmptySeq
  <2>2. /\ Tail(queue[st]) \in Seq(Nat) /\ Len(Tail(queue[st])) = Len(queue[st]) - 1
        /\ \A i \in 1..Len(Tail(queue[st])) : Tail(queue[st])[i] = queue[st][i + 1]
        /\ Head(queue[st]) \in Nat
    BY <1>1, HeadTailProperties
  <2>3. /\ DOMAIN queue[st] = 1..Len(queue[st])
        /\ DOMAIN Tail(queue[st]) = 1..Len(Tail(queue[st]))
    BY <1>1, <2>2, LenProperties
  <2>4. Head(queue[st]) = queue[st][1]
    BY <1>1
  <2>5. ToSet(Tail(queue[st])) \subseteq ToSet(queue[st])
    <3> SUFFICES ASSUME NEW i \in 1..Len(Tail(queue[st]))
                 PROVE  Tail(queue[st])[i] \in ToSet(queue[st])
      BY <2>3 DEF ToSet
    <3>1. i + 1 \in DOMAIN queue[st]
      BY <2>1, <2>2, <2>3
    <3> QED BY <2>2, <3>1 DEF ToSet
  <2>6. 1 \in DOMAIN queue[st]
    BY <2>1, <2>3
  <2>7. Head(queue[st]) \in ToSet(queue[st])
    BY <2>4, <2>6 DEF ToSet
  <2> QED BY <2>2, <2>5, <2>7
<1>3. /\ queue' \in [Stage -> Seq(Nat)] /\ stamp' \in [Stage -> Nat]
      /\ pc' \in [Stage -> {"get", "settle", "wait", "cycle", "failed"}]
  BY <1>1, <1>2 DEF ClockInv
<1>4. \A other \in Stage : Held(other)' \subseteq Held(other)
  BY <1>1, <1>2 DEF Held, ClockInv
<1>5. pc'["confirmed"] # "settle" =>
        \A q \in ToSet(queue'["confirmed"]) : stamp'["confirmed"] <= q
  BY <1>1 DEF ClockInv, Stage
<1>6. st = "confirmed" => stamp'["confirmed"] >= stamp["confirmed"]
  BY <1>1, <1>2, <1>3 DEF ClockInv, Stage
<1>7. \A q \in Held("confirmed")' : q \in Held("confirmed")
  BY <1>4 DEF Stage
<1> QED BY <1>1, <1>3, <1>4, <1>5, <1>6, <1>7 DEF ClockInv, feedVars

LEMMA ClockDrain ==
  ASSUME ClockInv, NEW st \in Stage, Drain(st)
  PROVE  ClockInv' /\ (st = "confirmed" => stamp'["confirmed"] >= stamp["confirmed"])
<1> DEFINE newest == Max({stamp[st]} \cup ToSet(queue[st]))
<1>1. /\ stamp' = [stamp EXCEPT ![st] = newest]
      /\ queue' = [queue EXCEPT ![st] = <<>>]
      /\ pc' = [pc EXCEPT ![st] = "wait"]
      /\ UNCHANGED feedVars
  BY DEF Drain
<1>2. newest \in Held(st) /\ newest \in Nat /\ stamp[st] <= newest
  <2>1. {stamp[st]} \cup ToSet(queue[st]) = Held(st)
    BY DEF Held
  <2>2. /\ Held(st) \in SUBSET Nat /\ Held(st) # {} /\ stamp[st] \in Held(st)
        /\ closed \in Nat /\ \A q \in Held(st) : q <= closed
    BY HeldTypes DEF ClockInv
  <2>3. Max(Held(st)) \in Held(st) /\ \A q \in Held(st) : q <= Max(Held(st))
    BY <2>2, MaxProperties
  <2> QED BY <2>1, <2>2, <2>3
<1> HIDE DEF newest
<1>3. /\ queue' \in [Stage -> Seq(Nat)] /\ stamp' \in [Stage -> Nat]
      /\ pc' \in [Stage -> {"get", "settle", "wait", "cycle", "failed"}]
  BY <1>1, <1>2 DEF ClockInv
<1>4. \A other \in Stage : Held(other)' \subseteq Held(other)
  BY <1>1, <1>2, EmptyToSet DEF Held, ClockInv
<1>5. pc'["confirmed"] # "settle" =>
        \A q \in ToSet(queue'["confirmed"]) : stamp'["confirmed"] <= q
  BY <1>1, EmptyToSet DEF ClockInv, Stage
<1>6. st = "confirmed" => stamp'["confirmed"] >= stamp["confirmed"]
  BY <1>1, <1>2, <1>3 DEF ClockInv, Stage
<1>7. \A q \in Held("confirmed")' : q \in Held("confirmed")
  BY <1>4 DEF Stage
<1> QED BY <1>1, <1>3, <1>4, <1>5, <1>6, <1>7 DEF ClockInv, feedVars

\* A step that leaves queues and clocks alone, whatever it does to the link.
LEMMA ClockElsewhere ==
  ASSUME ClockInv, UNCHANGED <<queue, stamp, closed>>,
         pc' \in [Stage -> {"get", "settle", "wait", "cycle", "failed"}],
         pc["confirmed"] # "settle" \/ pc'["confirmed"] = "settle",
         fetched' \in [Symbol -> Nat],
         \A s \in Symbol : fetched'[s] \in {0, fetched[s], closed},
         link' \notin {"boot", "fetch"} => fetched' = NothingFetched,
         link' = "up" =>
           \A s \in Symbol : \A q \in Held("confirmed") : q <= stream'[s]
  PROVE  ClockInv'
<1>1. \A st \in Stage : Held(st)' = Held(st)
  BY DEF Held
<1>2. Held("confirmed")' = Held("confirmed")
  BY DEF Held
<1>3. \A s \in Symbol :
        /\ fetched'[s] <= closed
        /\ fetched'[s] # 0 => \A q \in Held("confirmed") : q <= fetched'[s]
  <2> TAKE s \in Symbol
  <2>1. /\ closed \in Nat /\ fetched[s] \in Nat /\ fetched[s] <= closed
        /\ fetched[s] # 0 => \A q \in Held("confirmed") : q <= fetched[s]
        /\ \A q \in Held("confirmed") : q <= closed
    BY DEF ClockInv, Stage
  <2>2. CASE fetched'[s] = 0
    BY <2>1, <2>2
  <2>3. CASE fetched'[s] = fetched[s]
    BY <2>1, <2>3
  <2>4. CASE fetched'[s] = closed
    BY <2>1, <2>4
  <2> QED BY <2>2, <2>3, <2>4
<1> QED BY <1>1, <1>2, <1>3 DEF ClockInv

LEMMA ClockStep ==
  ASSUME ClockInv, HistoryInv, [Next]_vars
  PROVE  ClockInv' /\ (stamp'["confirmed"] >= stamp["confirmed"] \/ link' = "boot")
<1>0. stamp["confirmed"] \in Nat
  BY DEF ClockInv, Stage
<1> DEFINE Goal == ClockInv' /\ (stamp'["confirmed"] >= stamp["confirmed"] \/ link' = "boot")
<1>1. CASE UNCHANGED vars
  BY <1>0, <1>1 DEF vars, feedVars, loopVars, ClockInv, Held
<1>2. CASE CloseBar /\ UNCHANGED loopVars
  <2>1. /\ UNCHANGED <<queue, stamp, pc, link, stream, fetched>> /\ closed' = closed + 1
    BY <1>2 DEF CloseBar, loopVars
  <2>2. \A st \in Stage : Held(st)' = Held(st) /\ Held(st) \subseteq Nat
    BY <2>1, HeldTypes DEF Held
  <2>3. Held("confirmed")' = Held("confirmed")
    BY <2>1 DEF Held
  <2>4. \A st \in Stage : \A q \in Held(st)' : q <= closed'
    BY <2>1, <2>2 DEF ClockInv
  <2> QED BY <1>0, <2>1, <2>3, <2>4 DEF ClockInv
<1>3. ASSUME NEW s \in Symbol, Messages(s) PROVE Goal
  <2>1. stamp' = stamp
    BY <1>3 DEF Messages, DeliverConfirm, DeliverProvisional, Notify, Raise, loopVars
  <2> QED BY <1>0, <1>3, <2>1, ClockConfirm, ClockProvisional DEF Messages
<1>4. CASE Bootstrap
  BY <1>0, <1>4, ClockBootstrap DEF Bootstrap, Notify
<1>5. CASE Connect /\ UNCHANGED loopVars
  <2>1. \A s \in Symbol : \A q \in Held("confirmed") : q <= stream'[s]
    BY <1>5, HeldTypes DEF Connect, ClockInv, Stage
  <2> QED BY <1>0, <1>5, <2>1, ClockElsewhere DEF Connect, loopVars, ClockInv
<1>6. CASE (LogFailure \/ LogFails \/ Disconnect) /\ UNCHANGED loopVars
  BY <1>0, <1>6, ClockElsewhere
  DEF LogFailure, LogFails, Disconnect, loopVars, ClockInv
<1>7. CASE FetchFails /\ UNCHANGED loopVars
  BY <1>0, <1>7, ClockElsewhere DEF FetchFails, loopVars, ClockInv, NothingFetched
<1>8. ASSUME NEW s \in Symbol, Fetch(s), UNCHANGED loopVars PROVE Goal
  BY <1>0, <1>8, ClockElsewhere DEF Fetch, loopVars, ClockInv
<1>9. ASSUME NEW s \in Symbol, LoseConfirm(s), UNCHANGED loopVars PROVE Goal
  <2>1. /\ link = "up" /\ stream' = [stream EXCEPT ![s] = stream[s] + 1]
        /\ stream \in [Symbol -> Int]
    BY <1>9 DEF LoseConfirm, InTurn, HistoryInv
  <2>2. \A t \in Symbol : \A q \in Held("confirmed") : q \in Nat /\ q <= stream[t]
    BY <2>1, HeldTypes DEF ClockInv, Stage
  <2>3. \A t \in Symbol : \A q \in Held("confirmed") : q <= stream'[t]
    BY <2>1, <2>2
  <2> QED BY <1>0, <1>9, <2>3, ClockElsewhere DEF LoseConfirm, loopVars, ClockInv
<1>10. ASSUME NEW st \in Stage, Get(st) \/ Drain(st) PROVE Goal
  <2>1. st # "confirmed" => stamp'["confirmed"] = stamp["confirmed"]
    BY <1>10 DEF Get, Drain, ClockInv, Stage
  <2> QED BY <1>0, <1>10, <2>1, ClockGet, ClockDrain
<1>11. ASSUME NEW st \in Stage,
              StartCycle(st) \/ EndCycle(st) \/ CycleFailureLogged(st)
       PROVE  Goal
  <2>1. /\ UNCHANGED <<closed, link, stream, fetched, queue, stamp>>
        /\ pc[st] # "settle"
        /\ \E there \in {"get", "cycle"} : pc' = [pc EXCEPT ![st] = there]
    BY <1>11 DEF StartCycle, EndCycle, CycleFailureLogged, feedVars
  <2>2. /\ pc' \in [Stage -> {"get", "settle", "wait", "cycle", "failed"}]
        /\ pc["confirmed"] # "settle" \/ pc'["confirmed"] = "settle"
    BY <2>1 DEF ClockInv, Stage
  <2> QED BY <1>0, <2>1, <2>2, ClockElsewhere DEF ClockInv
<1>12. ASSUME NEW st \in Stage, FailCycle(st) \/ CycleFailureUnlogged(st) PROVE Goal
  <2>1. /\ UNCHANGED <<closed, link, stream, fetched, queue, stamp>>
        /\ pc[st] # "settle"
        /\ \E there \in {pc[st], "failed"} : pc' = [pc EXCEPT ![st] = there]
    BY <1>12 DEF FailCycle, CycleFailureUnlogged, feedVars, ClockInv
  <2>2. /\ pc' \in [Stage -> {"get", "settle", "wait", "cycle", "failed"}]
        /\ pc["confirmed"] # "settle" \/ pc'["confirmed"] = "settle"
    BY <2>1 DEF ClockInv, Stage
  <2> QED BY <1>0, <2>1, <2>2, ClockElsewhere DEF ClockInv
<1>13. CASE RestartRun
  BY <1>13, EmptyToSet
  DEF RestartRun, Restart, ClockInv, Held, Stage, NothingFetched
<1> QED
  BY <1>1, <1>2, <1>3, <1>4, <1>5, <1>6, <1>7, <1>8, <1>9, <1>10, <1>11, <1>12, <1>13
  DEF Next, Supervise, Consume, Faults

\* Confirmed cycles, whose clock dates exits and deadlines, never go back in time
\* within a process: for every universe and its order, every queue size, and any
\* number of bootstraps that straddle a close.
THEOREM ConfirmedClockHolds == Spec => ConfirmedClockForward
<1>1. HistoryInv /\ ClockInv /\ [Next]_vars =>
        [stamp'["confirmed"] >= stamp["confirmed"] \/ link' = "boot"]_vars
  BY ClockStep
<1>2. HistoryInv /\ ClockInv /\ [Next]_vars => ClockInv'
  BY ClockStep
<1> QED BY <1>1, <1>2, HistoryInit, HistoryStep, ClockInit, PTL
        DEF Spec, ConfirmedClockForward

-----------------------------------------------------------------------------
\* The lock and the queues.

\* process_lock is held or asked for by exactly the consumers that run a cycle or
\* wait for one, each once, and the one that runs is the first of them; a consumer
\* that has ended does neither.
LockInv ==
  /\ pc \in [Stage -> {"get", "settle", "wait", "cycle", "failed"}]
  /\ turn \in Seq(Stage)
  /\ \A i, j \in 1..Len(turn) : turn[i] = turn[j] => i = j
  /\ \A st \in Stage :
       /\ pc[st] \in {"wait", "cycle"} <=> \E i \in 1..Len(turn) : turn[i] = st
       /\ pc[st] = "cycle" => turn[1] = st
  /\ dead \subseteq Stage /\ \A st \in dead : pc[st] = "failed"

\* What a step does to the lock.
LEMMA LockSteps ==
  [Next]_vars =>
    \/ UNCHANGED <<pc, turn, dead>>
    \/ \E st \in Stage : Drain(st) \/ EndCycle(st) \/ FailCycle(st)
    \/ /\ UNCHANGED turn
       /\ \E st \in Stage : /\ Get(st) \/ StartCycle(st) \/ CycleFailureLogged(st)
                            /\ UNCHANGED dead
    \/ \E st \in Stage : CycleFailureUnlogged(st)
    \/ RestartRun
BY DEF Next, Messages, DeliverConfirm, DeliverProvisional, Notify, Raise, Supervise, Bootstrap,
       Consume, Faults, vars, loopVars, Get, StartCycle, CycleFailureLogged

LEMMA LockInit == Init => LockInv
BY DEF Init, FreshLoops, LockInv

\* The consumer whose cycle ends gives the lock to the next.
LEMMA LockReleased ==
  ASSUME LockInv, NEW st \in Stage, NEW there \in {"get", "failed"}, pc[st] = "cycle",
         turn' = Tail(turn), pc' = [pc EXCEPT ![st] = there], UNCHANGED dead
  PROVE  LockInv'
<1> DEFINE n == Len(turn)
<1>1. n \in Nat \ {0} /\ turn[1] = st /\ turn \in Seq(Stage) /\ turn # <<>>
  BY DEF LockInv
<1>2. /\ turn' \in Seq(Stage) /\ Len(turn') = n - 1
      /\ \A i \in 1..(n - 1) : turn'[i] = turn[i + 1]
  BY <1>1, HeadTailProperties
<1> HIDE DEF n
<1>3. ASSUME NEW i \in 1..(n - 1), NEW j \in 1..(n - 1), turn'[i] = turn'[j]
      PROVE  i = j
  <2>1. i + 1 \in 1..n /\ j + 1 \in 1..n /\ turn[i + 1] = turn[j + 1]
    BY <1>1, <1>2, <1>3
  <2>2. i + 1 = j + 1
    BY <2>1 DEF LockInv, n
  <2> QED BY <1>1, <2>2
<1>4. ASSUME NEW s \in Stage
      PROVE  (\E i \in 1..(n - 1) : turn'[i] = s)
               <=> s # st /\ \E i \in 1..n : turn[i] = s
  <2>1. ASSUME NEW i \in 1..(n - 1), turn'[i] = s
        PROVE  s # st /\ \E j \in 1..n : turn[j] = s
    <3>1. i + 1 \in 1..n /\ 1 \in 1..n /\ turn[i + 1] = s /\ i + 1 # 1
      BY <1>1, <1>2, <2>1
    <3> QED BY <1>1, <3>1 DEF LockInv, n
  <2>2. ASSUME NEW j \in 1..n, turn[j] = s, s # st
        PROVE  \E i \in 1..(n - 1) : turn'[i] = s
    <3>1. j - 1 \in 1..(n - 1) /\ j - 1 + 1 = j
      BY <1>1, <2>2
    <3> QED BY <1>2, <2>2, <3>1
  <2> QED BY <2>1, <2>2
<1>5. pc' \in [Stage -> {"get", "settle", "wait", "cycle", "failed"}]
  BY DEF LockInv
<1>6. /\ pc'[st] = there
      /\ \A s \in Stage \ {st} : pc'[s] = pc[s] /\ pc[s] # "cycle"
  BY <1>1 DEF LockInv
<1>7. \A s \in Stage :
        /\ pc'[s] \in {"wait", "cycle"} <=> \E i \in 1..Len(turn') : turn'[i] = s
        /\ pc'[s] = "cycle" => turn'[1] = s
  BY <1>2, <1>4, <1>6 DEF LockInv, n
<1>8. dead' \subseteq Stage /\ \A s \in dead' : pc'[s] = "failed"
  BY <1>6 DEF LockInv
<1> QED BY <1>2, <1>3, <1>5, <1>7, <1>8 DEF LockInv

LEMMA LockStep == LockInv /\ [Next]_vars => LockInv'
<1> SUFFICES ASSUME LockInv, [Next]_vars PROVE LockInv'
  OBVIOUS
<1>1. CASE UNCHANGED <<pc, turn, dead>>
  BY <1>1 DEF LockInv
<1>2. ASSUME NEW st \in Stage, Drain(st) PROVE LockInv'
  <2> DEFINE n == Len(turn) + 1
  <2>1. /\ pc[st] = "settle" /\ pc' = [pc EXCEPT ![st] = "wait"] /\ UNCHANGED dead
        /\ turn \in Seq(Stage) /\ turn' = Append(turn, st)
    BY <1>2 DEF Drain, LockInv
  <2>2. /\ turn' \in Seq(Stage) /\ Len(turn) \in Nat /\ Len(turn') = Len(turn) + 1
        /\ \A i \in 1..Len(turn) : turn'[i] = turn[i]
        /\ turn'[Len(turn) + 1] = st
    BY <2>1, AppendProperties
  <2>3. \A i \in 1..Len(turn) : turn[i] # st
    BY <2>1 DEF LockInv
  <2>4. \A i, j \in 1..Len(turn') : turn'[i] = turn'[j] => i = j
    <3> SUFFICES ASSUME NEW i \in 1..Len(turn'), NEW j \in 1..Len(turn'), turn'[i] = turn'[j]
                 PROVE  i = j
      OBVIOUS
    <3>1. CASE i = Len(turn) + 1 \/ j = Len(turn) + 1
      BY <2>2, <2>3, <3>1
    <3>2. CASE i \in 1..Len(turn) /\ j \in 1..Len(turn)
      BY <2>2, <3>2 DEF LockInv
    <3> QED BY <2>2, <3>1, <3>2
  <2>5. ASSUME NEW s \in Stage
        PROVE  /\ pc'[s] \in {"wait", "cycle"} <=> \E i \in 1..Len(turn') : turn'[i] = s
               /\ pc'[s] = "cycle" => turn'[1] = s
    <3>1. Len(turn) + 1 \in 1..Len(turn') /\ 1..Len(turn) \subseteq 1..Len(turn')
      BY <2>2
    <3>2. CASE s = st
      BY <2>1, <2>2, <3>1, <3>2 DEF LockInv
    <3>3. CASE s # st
      <4>1. pc'[s] = pc[s]
        BY <2>1, <3>3 DEF LockInv
      <4>2. (\E i \in 1..Len(turn') : turn'[i] = s) <=> \E i \in 1..Len(turn) : turn[i] = s
        BY <2>2, <3>1, <3>3
      <4>3. pc[s] = "cycle" => 1 \in 1..Len(turn)
        BY <2>2 DEF LockInv
      <4> QED BY <2>2, <4>1, <4>2, <4>3 DEF LockInv
    <3> QED BY <3>2, <3>3
  <2>6. /\ pc' \in [Stage -> {"get", "settle", "wait", "cycle", "failed"}]
        /\ \A s \in dead' : pc'[s] = "failed"
    BY <2>1 DEF LockInv
  <2> QED BY <2>1, <2>2, <2>4, <2>5, <2>6 DEF LockInv
<1>3. ASSUME NEW st \in Stage, EndCycle(st) \/ FailCycle(st) PROVE LockInv'
  BY <1>3, LockReleased DEF EndCycle, FailCycle
<1>4. ASSUME NEW st \in Stage, Get(st) \/ StartCycle(st) \/ CycleFailureLogged(st),
             UNCHANGED <<turn, dead>>
      PROVE  LockInv'
  <2>1. st \notin dead
    BY <1>4 DEF Get, StartCycle, CycleFailureLogged, Alive
  <2>2. CASE StartCycle(st)
    <3>1. /\ pc[st] = "wait" /\ pc' = [pc EXCEPT ![st] = "cycle"] /\ Head(turn) = st
      BY <2>2 DEF StartCycle
    <3>2. Head(turn) = turn[1]
      BY DEF LockInv
    <3> QED BY <1>4, <2>1, <3>1, <3>2 DEF LockInv
  <2>3. CASE Get(st) \/ CycleFailureLogged(st)
    <3>1. /\ pc[st] \in {"get", "failed"}
          /\ \E there \in {"settle", "get"} : pc' = [pc EXCEPT ![st] = there]
      BY <2>3 DEF Get, CycleFailureLogged
    <3> QED BY <1>4, <2>1, <3>1 DEF LockInv
  <2> QED BY <1>4, <2>2, <2>3
<1>5. ASSUME NEW st \in Stage, CycleFailureUnlogged(st) PROVE LockInv'
  BY <1>5 DEF CycleFailureUnlogged, LockInv
<1>6. CASE RestartRun
  BY <1>6 DEF RestartRun, LockInv
<1> QED BY <1>1, <1>2, <1>3, <1>4, <1>5, <1>6, LockSteps

LEMMA LockHolds == Spec => []LockInv
BY LockInit, LockStep, PTL DEF Spec

\* No two cycles run at once: what LocalExecution, LiveExecution and SignalEngine
\* take for granted of the two consumers.
OneCycleAtATime ==
  \A st, other \in Stage : pc[st] = "cycle" /\ pc[other] = "cycle" => st = other

\* The cycles of the two consumers exclude each other, whatever fails in them.
THEOREM CyclesExclude == Spec => []OneCycleAtATime
<1>1. LockInv => OneCycleAtATime
  BY DEF LockInv, OneCycleAtATime
<1> QED BY <1>1, LockHolds, PTL

\* A consumer whose task has ended does not hold the lock, nor wait before the other.
LockIsFreed == \A i \in 1..Len(turn) : turn[i] \notin dead

\* A consumer that dies in its own failure handler does not take the lock with it.
THEOREM LockFreed == Spec => []LockIsFreed
<1>1. LockInv => LockIsFreed
  BY DEF LockInv, LockIsFreed
<1> QED BY <1>1, LockHolds, PTL

\* A queue takes an event unless it is full, and is not empty after either.
LEMMA EnqueuedSize ==
  ASSUME NEW S, NEW q \in Seq(S), NEW more \in Seq(S)
  PROVE  /\ Enqueued(q, more) \in Seq(S)
         /\ Len(Enqueued(q, more)) <= QueueSize
         /\ q # <<>> \/ more # <<>> => Enqueued(q, more) # <<>>
<1> DEFINE all == q \o more
           kept == Min({Len(all), QueueSize})
<1>1. /\ all \in Seq(S) /\ Len(all) = Len(q) + Len(more)
      /\ Len(all) \in Nat /\ Len(q) \in Nat /\ Len(more) \in Nat
  BY ConcatProperties, LenProperties
<1>2. /\ kept \in Nat /\ kept <= Len(all) /\ kept <= QueueSize
      /\ kept = Len(all) \/ kept = QueueSize
  <2> DEFINE two == {Len(all), QueueSize}
  <2>1. \E m \in two : \A n \in two : m <= n
    BY <1>1, QueueAssumption
  <2>2. Min(two) \in two /\ \A n \in two : Min(two) <= n
    BY <2>1 DEF Min
  <2> QED BY <1>1, <2>2, QueueAssumption
<1>3. Enqueued(q, more) = SubSeq(all, 1, kept)
  BY DEF Enqueued
<1> HIDE DEF all, kept
<1>4. SubSeq(all, 1, kept) \in Seq(S) /\ Len(SubSeq(all, 1, kept)) = kept
  <2>1. \A i \in 1..kept : all[i] \in S
    BY <1>1, <1>2, ElementOfSeq
  <2> QED BY <1>1, <1>2, <2>1, SubSeqProperties
<1>5. q # <<>> \/ more # <<>> => Len(all) > 0
  BY <1>1, EmptySeq
<1>6. q # <<>> \/ more # <<>> => kept > 0
  BY <1>2, <1>5, QueueAssumption
<1> QED BY <1>2, <1>3, <1>4, <1>6, EmptySeq

\* Every event is still to be followed: it is queued, or was dropped at a queue
\* that is full, or its consumer has taken it and not begun its cycle yet.
NoEventLost ==
  \A st \in Stage : due[st] => queue[st] # <<>> \/ pc[st] \in {"settle", "wait"}

DueInv == due \in [Stage -> BOOLEAN] /\ NoEventLost

LEMMA DueInit == Init => DueInv
BY DEF Init, FreshLoops, DueInv, NoEventLost

LEMMA DueNotified ==
  ASSUME ClockInv, DueInv, NEW st \in Stage, NEW more \in Seq(Nat), more # <<>>,
         Notify(st, more)
  PROVE  DueInv'
<1>1. /\ queue \in [Stage -> Seq(Nat)] /\ pc' = pc
      /\ queue' = [queue EXCEPT ![st] = Enqueued(queue[st], more)]
      /\ due' = [due EXCEPT ![st] = TRUE]
  BY DEF Notify, ClockInv
<1>2. queue'[st] # <<>> /\ \A other \in Stage \ {st} : queue'[other] = queue[other]
  BY <1>1, EnqueuedSize
<1> QED BY <1>1, <1>2 DEF DueInv, NoEventLost

LEMMA DueStep ==
  ASSUME Universe # <<>>, ClockInv, HistoryInv, DueInv, [Next]_vars
  PROVE  DueInv'
<1>1. CASE UNCHANGED <<queue, due, pc>>
  BY <1>1 DEF DueInv, NoEventLost
<1>2. ASSUME NEW s \in Symbol, Messages(s) PROVE DueInv'
  <2>1. /\ stream[s] \in Int /\ \A q \in Held("confirmed") : link = "up" => q <= stream[s]
        /\ stamp["confirmed"] \in Nat /\ stamp["confirmed"] \in Held("confirmed")
    BY HeldTypes DEF ClockInv, HistoryInv, Stage
  <2>2. CASE UNCHANGED loopVars
    BY <1>1, <2>2 DEF loopVars
  <2>3. CASE Notify("confirmed", <<stream[s]>>) /\ link = "up"
    <3>1. <<stream[s]>> \in Seq(Nat) /\ <<stream[s]>> # <<>>
      BY <2>1, <2>3
    <3> QED BY <2>3, <3>1, DueNotified DEF Stage
  <2>4. CASE Notify("emerging", <<Intrabar>>)
    <3>1. <<Intrabar>> \in Seq(Nat) /\ <<Intrabar>> # <<>>
      BY DEF Intrabar
    <3> QED BY <2>4, <3>1, DueNotified DEF Stage
  <2> QED BY <1>2, <2>2, <2>3, <2>4
      DEF Messages, DeliverConfirm, DeliverProvisional, Raise, InTurn
<1>3. CASE Bootstrap
  <2>1. \A s \in Symbol : fetched[s] \in Nat
    BY DEF ClockInv
  <2>2. /\ DOMAIN Universe = 1..Len(Universe) /\ Len(Universe) \in Nat \ {0}
        /\ \A i \in DOMAIN Universe : Universe[i] \in Symbol
    BY QueueAssumption, LenProperties, ElementOfSeq, EmptySeq
  <2>3. BootstrapTimes = [i \in 1..Len(Universe) |-> fetched[Universe[i]]]
    BY <2>1, <2>2, FetchedWhole DEF BootstrapTimes
  <2>4. BootstrapTimes \in Seq(Nat) /\ BootstrapTimes # <<>>
    BY <2>1, <2>2, <2>3
  <2> QED BY <1>3, <2>4, DueNotified DEF Bootstrap, Stage
<1>4. ASSUME NEW st \in Stage, Consume(st) PROVE DueInv'
  BY <1>4 DEF Consume, Get, Drain, StartCycle, EndCycle, CycleFailureLogged,
              DueInv, NoEventLost, ClockInv
<1>5. ASSUME NEW st \in Stage, FailCycle(st) \/ CycleFailureUnlogged(st) PROVE DueInv'
  BY <1>5 DEF FailCycle, CycleFailureUnlogged, DueInv, NoEventLost, ClockInv
<1>6. CASE RestartRun
  BY <1>6 DEF RestartRun, DueInv, NoEventLost
<1> QED BY <1>1, <1>2, <1>3, <1>4, <1>5, <1>6 DEF Next, Supervise, Faults, vars, loopVars

\* An event is never dropped without a cycle to come that reads what it brought:
\* for any queue size, in any interleaving of callbacks, consumers and failures.
THEOREM EventsKept ==
  ASSUME Universe # <<>>
  PROVE  Spec => []NoEventLost
<1>1. HistoryInv /\ ClockInv /\ DueInv /\ [Next]_vars => HistoryInv' /\ ClockInv' /\ DueInv'
  BY HistoryStep, ClockStep, DueStep
<1>2. DueInv => NoEventLost
  BY DEF DueInv
<1> QED BY <1>1, <1>2, HistoryInit, ClockInit, DueInit, PTL DEF Spec

-----------------------------------------------------------------------------
\* Types.

\* Bars are known only once they have closed, but for the one that is open.
FeedBounds ==
  /\ closed \in FirstBars..MaxBar
  /\ link \in Link
  /\ faults \in 0..MaxFaults
  /\ \A s \in Symbol :
       /\ Len(times[s]) <= Window
       /\ \A i \in 1..Len(times[s]) : times[s][i] \in 1..closed
       /\ prov[s] \in 0..(closed + 1)
       /\ stream[s] \in 0..(closed + 1)
       /\ fetched[s] = 0 \/ fetched[s] \in FirstBars..closed

LoopBounds ==
  /\ \A st \in Stage : Len(queue[st]) <= QueueSize
  /\ due \in [Stage -> BOOLEAN]

LEMMA BoundsInit == Init => FeedBounds /\ LoopBounds
BY FeedAssumption, QueueAssumption
   DEF Init, FeedInit, FreshLoops, FeedBounds, LoopBounds, Link, NoCandle, NoStream,
       NothingFetched, Stage

LEMMA AppendedBounds ==
  ASSUME NEW h \in Seq(Int), NEW limit \in Int, NEW bar \in 1..limit,
         \A i \in 1..Len(h) : h[i] \in 1..limit, Len(h) <= Window
  PROVE  /\ Len(Appended(h, bar)) <= Window
         /\ \A i \in 1..Len(Appended(h, bar)) : Appended(h, bar)[i] \in 1..limit
<1> DEFINE longer == Append(h, bar)
<1>1. /\ longer \in Seq(Int) /\ Len(longer) = Len(h) + 1 /\ Len(h) \in Nat
      /\ \A i \in 1..Len(longer) : longer[i] \in 1..limit
  <2>1. /\ longer \in Seq(Int) /\ Len(longer) = Len(h) + 1 /\ Len(h) \in Nat
        /\ \A i \in 1..Len(h) : longer[i] = h[i]
        /\ longer[Len(h) + 1] = bar
    BY AppendProperties, LenProperties
  <2> QED BY <2>1
<1> HIDE DEF longer
<1>2. CASE Len(longer) <= Window
  BY <1>1, <1>2, FeedAssumption DEF Appended, longer
<1>3. CASE Len(longer) > Window
  <2>1. /\ Len(Tail(longer)) = Len(h)
        /\ \A i \in 1..Len(h) : Tail(longer)[i] = longer[i + 1]
    BY <1>1, EmptySeq, HeadTailProperties
  <2>2. \A i \in 1..Len(h) : Tail(longer)[i] \in 1..limit
    BY <1>1, <2>1
  <2> QED BY <1>1, <1>3, <2>1, <2>2, FeedAssumption DEF Appended, longer
<1> QED BY <1>1, <1>2, <1>3, FeedAssumption

LEMMA SeqOfElements ==
  ASSUME NEW S, NEW T, NEW q \in Seq(S), \A i \in 1..Len(q) : q[i] \in T
  PROVE  q \in Seq(T)
OBVIOUS

LEMMA BoundsConfirm ==
  ASSUME HistoryInv, FeedBounds, NEW s \in Symbol, DeliverConfirm(s)
  PROVE  FeedBounds'
<1> DEFINE bar == stream[s]
<1>1. /\ closed' = closed /\ fetched' = fetched /\ faults' = faults /\ bar <= closed
      /\ bar \in 0..(closed + 1) /\ closed \in Nat /\ times[s] # <<>> /\ link = "up"
  BY FeedAssumption DEF DeliverConfirm, InTurn, HistoryInv, FeedBounds
<1>2. link' \in Link /\ \A t \in Symbol : stream'[t] \in 0..(closed + 1)
  <2>1. CASE Sent(s)
    BY <1>1, <2>1 DEF Sent, HistoryInv, FeedBounds
  <2>2. CASE Raise
    BY <1>1, <2>2 DEF Raise, NoStream, Link
  <2> QED BY <2>1, <2>2 DEF DeliverConfirm
<1>3. CASE UNCHANGED <<times, prov>>
  BY <1>1, <1>2, <1>3 DEF FeedBounds
<1>4. CASE ConfirmOutcome(s, bar) = "taken" /\ TakeClose(s, bar)
  <2>1. LastBar(s) \in 1..closed
    <3>1. Len(times[s]) \in 1..Len(times[s]) /\ LastBar(s) = times[s][Len(times[s])]
      BY <1>1, EmptySeq DEF HistoryInv, LastBar, Last
    <3> QED BY <3>1 DEF FeedBounds
  <2>2. bar \in 1..closed
    BY <1>1, <1>4, <2>1 DEF ConfirmOutcome
  <2>3. times' = [times EXCEPT ![s] = Appended(times[s], bar)] /\ times \in [Symbol -> Seq(Int)]
    BY <1>4 DEF TakeClose, HistoryInv
  <2>4. \A t \in Symbol : prov'[t] \in {0, prov[t]}
    BY <1>4 DEF TakeClose, HistoryInv
  <2> HIDE DEF bar
  <2>5. /\ Len(Appended(times[s], bar)) <= Window
        /\ \A i \in 1..Len(Appended(times[s], bar)) : Appended(times[s], bar)[i] \in 1..closed
    BY <1>1, <2>2, <2>3, AppendedBounds DEF FeedBounds
  <2>6. \A t \in Symbol : /\ Len(times'[t]) <= Window
                          /\ \A i \in 1..Len(times'[t]) : times'[t][i] \in 1..closed
    BY <2>3, <2>5 DEF FeedBounds
  <2>7. \A t \in Symbol : prov'[t] \in 0..(closed + 1)
    BY <1>1, <2>4 DEF FeedBounds
  <2> QED BY <1>1, <1>2, <2>6, <2>7 DEF FeedBounds
<1> QED BY <1>3, <1>4 DEF DeliverConfirm, Raise

LEMMA BoundsBootstrap ==
  ASSUME HistoryInv, FeedBounds, ApplyBootstrap
  PROVE  FeedBounds'
<1>1. /\ closed' = closed /\ stream' = stream /\ fetched' = NothingFetched
      /\ faults' = faults /\ link' = "connect"
      /\ prov' = NoCandle /\ times' = [s \in Symbol |-> FetchedHistory(s)]
      /\ \A s \in Symbol : fetched[s] \in FirstBars..closed
  BY DEF ApplyBootstrap, FeedBounds
<1>2. \A s \in Symbol :
        /\ Len(FetchedHistory(s)) = Window
        /\ \A i \in 1..Window : FetchedHistory(s)[i] \in 1..closed
  <2> SUFFICES ASSUME NEW s \in Symbol
               PROVE  /\ Len(FetchedHistory(s)) = Window
                      /\ \A i \in 1..Window : FetchedHistory(s)[i] \in 1..closed
    OBVIOUS
  <2>1. /\ Window \in Nat \ {0} /\ fetched[s] \in Nat /\ closed \in Nat
        /\ fetched[s] >= Window /\ fetched[s] <= closed
    BY <1>1, FeedAssumption DEF FeedBounds
  <2>2. \A i \in 1..Window : fetched[s] - Window + i \in 1..closed
    BY <2>1
  <2>3. FetchedHistory(s) \in Seq(Int) /\ Len(FetchedHistory(s)) = Window
    BY <2>1 DEF FetchedHistory
  <2> QED BY <2>1, <2>2, <2>3 DEF FetchedHistory
<1>3. closed \in Nat
  BY FeedAssumption DEF FeedBounds
<1> QED BY <1>1, <1>2, <1>3, FeedAssumption DEF FeedBounds, NoCandle, NothingFetched, Link

LEMMA FeedBoundsStep ==
  ASSUME HistoryInv, FeedBounds, [Next]_vars
  PROVE  FeedBounds'
<1>0. closed \in Nat /\ closed >= FirstBars /\ closed <= MaxBar
  BY FeedAssumption DEF FeedBounds
<1> USE DEF FeedBounds
<1>1. CASE UNCHANGED feedVars
  BY <1>1 DEF feedVars
<1>2. CASE CloseBar
  <2>1. /\ closed' = closed + 1 /\ closed' \in FirstBars..MaxBar
        /\ UNCHANGED <<times, prov, link, stream, fetched, faults>>
    BY <1>0, <1>2, FeedAssumption DEF CloseBar
  <2>2. 1..closed \subseteq 1..closed' /\ 0..(closed + 1) \subseteq 0..(closed' + 1)
        /\ FirstBars..closed \subseteq FirstBars..closed'
    BY <1>0, <2>1, FeedAssumption
  <2> QED BY <2>1, <2>2
<1>3. ASSUME NEW s \in Symbol, DeliverConfirm(s) PROVE FeedBounds'
  BY <1>3, BoundsConfirm
<1>4. ASSUME NEW s \in Symbol, NEW moved \in BOOLEAN, DeliverProvisional(s, moved)
      PROVE  FeedBounds'
  <2>1. /\ UNCHANGED <<closed, fetched, faults, times>>
        /\ \A t \in Symbol : prov'[t] \in {prov[t], stream[s]}
        /\ stream' \in {stream, NoStream} /\ link' \in {link, "failed"}
    BY <1>4 DEF DeliverProvisional, TakeProvisional, Raise, loopVars, HistoryInv
  <2> QED BY <1>0, <2>1 DEF NoStream, Link
<1>5. CASE Connect
  BY <1>0, <1>5 DEF Connect, Link
<1>6. CASE LogFailure \/ LogFails
  BY <1>6 DEF LogFailure, LogFails, Link
<1>7. CASE FetchFails \/ Disconnect \/ Restart
  <2>1. faults' \in 0..MaxFaults /\ link' \in Link /\ closed' = closed
    BY <1>7, FeedAssumption DEF FetchFails, Disconnect, Restart, Fault, Link
  <2>2. \A s \in Symbol : /\ times'[s] = times[s] \/ times'[s] = <<>>
                          /\ prov'[s] \in {0, prov[s]} /\ stream'[s] \in {0, stream[s]}
                          /\ fetched'[s] \in {0, fetched[s]}
    BY <1>7 DEF FetchFails, Disconnect, Restart, NoCandle, NoStream, NothingFetched
  <2>3. Len(<<>>) = 0
    OBVIOUS
  <2>4. \A s \in Symbol : /\ Len(times'[s]) <= Window
                          /\ \A i \in 1..Len(times'[s]) : times'[s][i] \in 1..closed
    BY <2>2, <2>3, FeedAssumption
  <2> QED BY <1>0, <2>1, <2>2, <2>4
<1>8. ASSUME NEW s \in Symbol, Fetch(s) PROVE FeedBounds'
  <2>1. /\ UNCHANGED <<closed, times, prov, link, stream, faults>>
        /\ \A t \in Symbol : fetched'[t] \in {fetched[t], closed}
    BY <1>8 DEF Fetch, HistoryInv
  <2> QED BY <1>0, <2>1, FeedAssumption
<1>9. ASSUME NEW s \in Symbol, LoseConfirm(s) PROVE FeedBounds'
  <2>1. /\ UNCHANGED <<closed, times, prov, link, fetched>>
        /\ faults' \in 0..MaxFaults
        /\ stream[s] <= closed /\ stream' = [stream EXCEPT ![s] = stream[s] + 1]
    BY <1>9, FeedAssumption DEF LoseConfirm, Fault
  <2>2. \A t \in Symbol : stream'[t] \in 0..(closed + 1)
    BY <1>0, <2>1 DEF HistoryInv
  <2> QED BY <2>1, <2>2
<1>10. CASE Bootstrap
  BY <1>10, BoundsBootstrap DEF Bootstrap
<1>11. ASSUME NEW st \in Stage, FailCycle(st) PROVE FeedBounds'
  BY <1>11, FeedAssumption DEF FailCycle, Fault
<1>12. ASSUME NEW st \in Stage, Consume(st) \/ CycleFailureUnlogged(st) PROVE UNCHANGED feedVars
  BY <1>12 DEF Consume, Get, Drain, StartCycle, EndCycle, CycleFailureLogged, CycleFailureUnlogged
<1> QED
  BY <1>1, <1>2, <1>3, <1>4, <1>5, <1>6, <1>7, <1>8, <1>9, <1>10, <1>11, <1>12
  DEF Next, vars, Messages, Supervise, Faults, RestartRun

LEMMA BoundsNotified ==
  ASSUME ClockInv, LoopBounds, NEW st \in Stage, NEW more \in Seq(Nat), Notify(st, more)
  PROVE  LoopBounds'
<1>1. /\ queue \in [Stage -> Seq(Nat)]
      /\ queue' = [queue EXCEPT ![st] = Enqueued(queue[st], more)]
      /\ due' = [due EXCEPT ![st] = TRUE]
  BY DEF Notify, ClockInv
<1>2. Len(Enqueued(queue[st], more)) <= QueueSize
  BY <1>1, EnqueuedSize
<1> QED BY <1>1, <1>2 DEF LoopBounds

LEMMA LoopBoundsStep ==
  ASSUME ClockInv, HistoryInv, LoopBounds, [Next]_vars
  PROVE  LoopBounds'
<1>1. CASE UNCHANGED <<queue, due>>
  BY <1>1 DEF LoopBounds
<1>2. ASSUME NEW st \in Stage, NEW more, Notify(st, more), more \in Seq(Nat) PROVE LoopBounds'
  BY <1>2, BoundsNotified
<1>3. ASSUME NEW s \in Symbol, Messages(s) PROVE LoopBounds'
  <2>1. CASE UNCHANGED loopVars
    BY <1>1, <2>1 DEF loopVars
  <2>2. CASE Notify("confirmed", <<stream[s]>>) /\ link = "up"
    <3>1. /\ stream[s] \in Int /\ stamp["confirmed"] \in Nat /\ stamp["confirmed"] <= stream[s]
      BY <2>2, HeldTypes DEF ClockInv, HistoryInv, Stage
    <3>2. <<stream[s]>> \in Seq(Nat)
      BY <3>1
    <3> QED BY <1>2, <2>2, <3>2 DEF Stage
  <2>3. CASE Notify("emerging", <<Intrabar>>)
    <3>1. <<Intrabar>> \in Seq(Nat)
      BY DEF Intrabar
    <3> QED BY <1>2, <2>3, <3>1 DEF Stage
  <2> QED BY <1>3, <2>1, <2>2, <2>3
      DEF Messages, DeliverConfirm, DeliverProvisional, Raise, InTurn
<1>4. CASE Bootstrap
  <2>1. \A s \in Symbol : fetched[s] \in Nat
    BY DEF ClockInv
  <2>2. /\ DOMAIN Universe = 1..Len(Universe) /\ Len(Universe) \in Nat
        /\ \A i \in DOMAIN Universe : Universe[i] \in Symbol
    BY QueueAssumption, LenProperties, ElementOfSeq
  <2>3. BootstrapTimes = [i \in 1..Len(Universe) |-> fetched[Universe[i]]]
    BY <2>1, <2>2, FetchedWhole DEF BootstrapTimes
  <2>4. BootstrapTimes \in Seq(Nat)
    BY <2>1, <2>2, <2>3
  <2> QED BY <1>2, <1>4, <2>4 DEF Bootstrap, Stage
<1>5. ASSUME NEW st \in Stage, Get(st) PROVE LoopBounds'
  <2>1. /\ queue[st] \in Seq(Nat) /\ queue[st] # <<>> /\ UNCHANGED due
        /\ queue' = [queue EXCEPT ![st] = Tail(queue[st])]
    BY <1>5 DEF Get, ClockInv
  <2>2. Len(Tail(queue[st])) = Len(queue[st]) - 1 /\ Len(queue[st]) \in Nat
    BY <2>1, HeadTailProperties
  <2> QED BY <2>1, <2>2, QueueAssumption DEF LoopBounds, ClockInv
<1>6. ASSUME NEW st \in Stage, Drain(st) PROVE LoopBounds'
  BY <1>6, QueueAssumption DEF Drain, LoopBounds, ClockInv
<1>7. ASSUME NEW st \in Stage, StartCycle(st) \/ EndCycle(st) \/ CycleFailureLogged(st)
      PROVE  LoopBounds'
  BY <1>7 DEF StartCycle, EndCycle, CycleFailureLogged, LoopBounds
<1>8. ASSUME NEW st \in Stage, FailCycle(st) \/ CycleFailureUnlogged(st) PROVE LoopBounds'
  BY <1>8 DEF FailCycle, CycleFailureUnlogged, LoopBounds
<1>9. CASE RestartRun
  BY <1>9, QueueAssumption DEF RestartRun, LoopBounds
<1> QED BY <1>1, <1>3, <1>4, <1>5, <1>6, <1>7, <1>8, <1>9
    DEF Next, Supervise, Consume, Faults, vars, loopVars

\* Every state of the feed and its consumers is well typed: histories within their
\* window, queues within their size, and no bar known before it is there.
THEOREM RuntimeTypeCorrect == Spec => []TypeOK
<1>1. HistoryInv /\ ClockInv /\ FeedBounds /\ LoopBounds /\ [Next]_vars
        => HistoryInv' /\ ClockInv' /\ FeedBounds' /\ LoopBounds'
  BY HistoryStep, ClockStep, FeedBoundsStep, LoopBoundsStep
<1>2. HistoryInv /\ ClockInv /\ FeedBounds /\ LoopBounds /\ LockInv => TypeOK
  <2> SUFFICES ASSUME HistoryInv, ClockInv, FeedBounds, LoopBounds, LockInv
               PROVE  TypeOK
    OBVIOUS
  <2>1. closed \in FirstBars..MaxBar /\ closed \in Nat /\ MaxBar \in Nat /\ closed <= MaxBar
    BY FeedAssumption DEF FeedBounds
  <2>2. ASSUME NEW s \in Symbol PROVE times[s] \in Seq(1..MaxBar)
    <3>1. times[s] \in Seq(Int) /\ \A i \in 1..Len(times[s]) : times[s][i] \in 1..closed
      BY DEF FeedBounds, HistoryInv
    <3>2. 1..closed \subseteq 1..MaxBar
      BY <2>1
    <3>3. \A i \in 1..Len(times[s]) : times[s][i] \in 1..MaxBar
      BY <3>1, <3>2
    <3> QED BY <3>1, <3>3, SeqOfElements
  <2>3. ASSUME NEW st \in Stage PROVE queue[st] \in Seq(Stamp) /\ stamp[st] \in Stamp
    <3>1. queue[st] \in Seq(Nat) /\ \A q \in Held(st) : q \in Nat /\ q <= closed
      BY HeldTypes DEF ClockInv
    <3>2. \A i \in 1..Len(queue[st]) : queue[st][i] \in Held(st)
      BY <3>1 DEF Held, ToSet
    <3>3. \A q \in Held(st) : q \in Stamp
      BY <2>1, <3>1 DEF Stamp
    <3>4. \A i \in 1..Len(queue[st]) : queue[st][i] \in Stamp
      BY <3>2, <3>3
    <3> QED BY <3>1, <3>3, <3>4, HeldTypes
  <2>4. FeedTypeOK
    BY <2>1, <2>2, FeedAssumption DEF FeedTypeOK, FeedBounds, HistoryInv
  <2>5. IsInjective(turn)
    BY DEF IsInjective, LockInv
  <2> QED BY <2>3, <2>4, <2>5 DEF TypeOK, ClockInv, LoopBounds, LockInv
<1> QED BY <1>1, <1>2, HistoryInit, ClockInit, BoundsInit, LockHolds, PTL DEF Spec
=============================================================================
