------------------------- MODULE SignalEngineProofs ------------------------
(***************************************************************************)
(* What holds of the ladder of signal_engine.py for every universe, every  *)
(* setting of its rungs, windows and cooldowns, and any number of cycles,  *)
(* bars and failed alerts.                                                 *)
(***************************************************************************)
EXTENDS SignalEngine, SequenceTheorems, TLAPS

-----------------------------------------------------------------------------
\* Observations.

LEMMA SettingTypes ==
  /\ MaxRank \in Nat /\ MaxScore \in Nat /\ MaxCycles \in Nat /\ MaxBars \in Nat
  /\ EmergingMinObservations \in Nat \ {0} /\ EntryReadyMinObservations \in Nat \ {0}
  /\ EmergingCooldown \in Nat /\ EntryReadyCooldown \in Nat
BY SignalAssumption

LEMMA WindowType == ObservationWindow \in Nat \ {0}
<1> DEFINE two == {EmergingMinObservations + 2, MinWindow}
<1>1. two \subseteq Nat /\ EmergingMinObservations + 2 > 0
  BY SignalAssumption
<1>2. \E m \in two : \A n \in two : m >= n
  BY <1>1
<1>3. Max(two) \in two /\ \A n \in two : Max(two) >= n
  BY <1>2 DEF Max
<1> QED BY <1>1, <1>3 DEF ObservationWindow

\* Recording keeps the newest at the end, the others in their order, and of the
\* oldest as many as the window has room for.
LEMMA RecordedProperties ==
  ASSUME NEW S, NEW seq \in Seq(S), NEW o \in S, Len(seq) <= ObservationWindow
  PROVE  /\ Recorded(seq, o) \in Seq(S) /\ Recorded(seq, o) # <<>>
         /\ Len(Recorded(seq, o)) \in 1..ObservationWindow
         /\ Last(Recorded(seq, o)) = o
         /\ \A i \in 2..Len(Recorded(seq, o)) :
              Recorded(seq, o)[i] \in {o} \cup {seq[j] : j \in 2..Len(seq)}
         /\ Len(Recorded(seq, o)) >= 2 => seq # <<>>
<1> DEFINE longer == Append(seq, o)
<1>1. /\ longer \in Seq(S) /\ Len(longer) = Len(seq) + 1 /\ Len(seq) \in Nat
      /\ longer # <<>>
      /\ \A i \in 1..Len(seq) : longer[i] = seq[i]
      /\ longer[Len(seq) + 1] = o
      /\ Len(seq) >= 1 => seq # <<>>
  OBVIOUS
<1> HIDE DEF longer
<1>2. CASE Len(longer) <= ObservationWindow
  <2>1. Recorded(seq, o) = longer
    BY <1>2, <1>1, WindowType DEF Recorded, longer
  <2>2. \A i \in 2..Len(longer) : longer[i] = o \/ \E j \in 2..Len(seq) : longer[i] = seq[j]
    BY <1>1
  <2> QED BY <1>1, <1>2, <2>1, <2>2, WindowType DEF Last
<1>3. CASE Len(longer) > ObservationWindow
  <2>1. Recorded(seq, o) = Tail(longer)
    BY <1>3, <1>1, WindowType DEF Recorded, longer
  <2>2. /\ Tail(longer) \in Seq(S) /\ Len(Tail(longer)) = Len(seq)
        /\ \A i \in 1..Len(seq) : Tail(longer)[i] = longer[i + 1]
    BY <1>1, HeadTailProperties
  <2>3. Len(seq) = ObservationWindow /\ Len(seq) >= 1
    BY <1>1, <1>3, WindowType
  <2>4. ASSUME NEW i \in 2..Len(seq)
        PROVE  Tail(longer)[i] = o \/ \E j \in 2..Len(seq) : Tail(longer)[i] = seq[j]
    <3>1. CASE i = Len(seq)
      BY <1>1, <2>2, <3>1
    <3>2. CASE i # Len(seq)
      <4>1. i + 1 \in 2..Len(seq) /\ i + 1 \in 1..Len(seq) /\ i \in 1..Len(seq)
        BY <1>1, <3>2
      <4> QED BY <1>1, <2>2, <4>1
    <3> QED BY <3>1, <3>2
  <2>5. Last(Tail(longer)) = o
    BY <1>1, <2>2, <2>3 DEF Last
  <2>6. Tail(longer) # <<>>
    BY <2>2, <2>3
  <2> QED BY <1>1, <2>1, <2>2, <2>3, <2>4, <2>5, <2>6
<1> QED BY <1>1, <1>2, <1>3, WindowType

-----------------------------------------------------------------------------
\* Types.

LEMMA TypeInit == Init => TypeOK
<1> SUFFICES ASSUME Init PROVE TypeOK
  OBVIOUS
<1>1. /\ 0 \in 0..MaxCycles /\ 0 \in 0..MaxBars /\ 0 \in 0..MaxRank
      /\ MaxScore \in 0..MaxScore /\ Len(<<>>) <= ObservationWindow
  BY SettingTypes, WindowType
<1>2. last \in [rank : 0..MaxRank, score : 0..MaxScore]
  BY <1>1 DEF Init, Top
<1>3. /\ kind \in [Ticker -> Kind] /\ obs \in [Ticker -> Seq(Observation)]
      /\ \A t \in Ticker : Len(obs[t]) <= ObservationWindow
  BY <1>1 DEF Init, Kind
<1>4. lastAlerted \in [Ticker -> [AlertKind -> 0..MaxCycles]]
  BY <1>1 DEF Init
<1>5. bar \in [Ticker -> 0..MaxBars] /\ seen \in [Ticker -> 0..MaxBars]
  BY <1>1 DEF Init, NoBars
<1> QED BY <1>1, <1>2, <1>3, <1>4, <1>5 DEF Init, TypeOK

LEMMA ClassifiedKind == \A seq, rank : Classified(seq, rank) \in Kind
BY DEF Classified, Kind, AlertKind

LEMMA TypeClimb ==
  ASSUME TypeOK, NEW t \in Ticker, NEW rank \in 1..MaxRank, NEW score \in 0..MaxScore,
         Climb(t, rank, score)
  PROVE  TypeOK'
<1> DEFINE o == [rank |-> rank, score |-> score, bar |-> seen[t]]
           seq == Recorded(obs[t], o)
           k == Classified(seq, rank)
<1>1. /\ obs' = [obs EXCEPT ![t] = seq] /\ kind' = [kind EXCEPT ![t] = k]
      /\ pc = "walk" /\ todo' = todo \ {t} /\ last' = [rank |-> rank, score |-> score]
      /\ \/ k \in AlertKind /\ pc' = "send" /\ sending' = <<t, k>>
         \/ UNCHANGED <<pc, sending>>
      /\ UNCHANGED <<lastAlerted, bar, cycle, seen, tradeable, heard>>
  BY DEF Climb, Ranked, Eligible
<1>2. o \in Observation /\ k \in Kind
  BY ClassifiedKind DEF Observation, TypeOK
<1>3. seq \in Seq(Observation) /\ Len(seq) <= ObservationWindow
  <2>1. obs[t] \in Seq(Observation) /\ Len(obs[t]) <= ObservationWindow
    BY DEF TypeOK
  <2> HIDE DEF o
  <2> QED BY <1>2, <2>1, RecordedProperties, WindowType
<1> HIDE DEF seq, k
<1>4. /\ obs' \in [Ticker -> Seq(Observation)]
      /\ \A u \in Ticker : Len(obs'[u]) <= ObservationWindow
      /\ kind' \in [Ticker -> Kind]
  BY <1>1, <1>2, <1>3 DEF TypeOK
<1>5. /\ last' \in [rank : 0..MaxRank, score : 0..MaxScore] /\ todo' \subseteq Ticker
  BY <1>1 DEF TypeOK
<1>6. k \in AlertKind => <<t, k>> \in Ticker \X AlertKind /\ <<t, k>> # NoAlert
  BY SignalAssumption DEF AlertKind
<1> QED BY <1>1, <1>4, <1>5, <1>6 DEF TypeOK

LEMMA ResetTypes ==
  ASSUME TypeOK, NEW t \in Ticker, Reset(t)
  PROVE  /\ kind' \in [Ticker -> Kind] /\ obs' \in [Ticker -> Seq(Observation)]
         /\ \A u \in Ticker : Len(obs'[u]) <= ObservationWindow
<1>1. <<>> \in Seq(Observation) /\ Len(<<>>) <= ObservationWindow
  BY WindowType
<1> QED BY <1>1 DEF Reset, TypeOK, Kind

LEMMA TypeStep == TypeOK /\ [Next]_vars => TypeOK'
<1> SUFFICES ASSUME TypeOK, [Next]_vars PROVE TypeOK'
  OBVIOUS
<1>1. CASE UNCHANGED vars
  BY <1>1 DEF vars, walkVars, TypeOK
<1>2. CASE Begin
  <2>1. last' \in [rank : 0..MaxRank, score : 0..MaxScore]
    BY <1>2, SignalAssumption DEF Begin, Top
  <2>2. tradeable' \in BOOLEAN
    BY <1>2, SignalAssumption DEF Begin, Tradeable
  <2>3. cycle' \in 0..MaxCycles
    BY <1>2, SettingTypes DEF Begin, TypeOK
  <2> QED BY <1>2, <2>1, <2>2, <2>3 DEF Begin, TypeOK
<1>3. ASSUME NEW t \in Ticker, NEW rank \in 1..MaxRank, NEW score \in 0..MaxScore,
             Drop(t, rank, score)
      PROVE  TypeOK'
  <2>1. last' \in [rank : 0..MaxRank, score : 0..MaxScore]
    BY <1>3 DEF Drop, Ranked
  <2>2. Reset(t)
    BY <1>3 DEF Drop
  <2> QED BY <1>3, <2>1, <2>2, ResetTypes DEF Drop, Ranked, TypeOK
<1>4. ASSUME NEW t \in Ticker, NEW rank \in 1..MaxRank, NEW score \in 0..MaxScore,
             Climb(t, rank, score)
      PROVE  TypeOK'
  BY <1>4, TypeClimb
<1>5. ASSUME NEW delivered \in BOOLEAN, FinishAlert(delivered) PROVE TypeOK'
  BY <1>5 DEF FinishAlert, Remembered, TypeOK
<1>6. CASE End
  <2>1. last' \in [rank : 0..MaxRank, score : 0..MaxScore]
    BY <1>6, SignalAssumption DEF End, Top
  <2>2. seen' \in [Ticker -> 0..MaxBars]
    BY <1>6, SettingTypes DEF End, NoBars
  <2> QED BY <1>6, <2>1, <2>2 DEF End, TypeOK
<1>7. ASSUME NEW t \in Ticker, AppendClose(t) PROVE TypeOK'
  <2>1. bar' \in [Ticker -> 0..MaxBars]
    <3>1. bar[t] + 1 \in 0..MaxBars
      BY <1>7, SettingTypes DEF AppendClose, TypeOK
    <3> QED BY <1>7, <3>1 DEF AppendClose, TypeOK
  <2> QED BY <1>7, <2>1, ResetTypes DEF AppendClose, walkVars, TypeOK
<1> QED BY <1>1, <1>2, <1>3, <1>4, <1>5, <1>6, <1>7 DEF Next, Done

\* The observations, counts and alert times stay within their domains, whatever the
\* order of closes, cycles and failed alerts.
THEOREM TypeCorrect == Spec => []TypeOK
BY TypeInit, TypeStep, PTL DEF Spec

-----------------------------------------------------------------------------
\* Which bar an observation is of.

\* A ticker that is still to be walked and has closed a bar since the cycle began
\* was reset by that close, and nothing has been recorded of it since.
WalkInv ==
  \A t \in Ticker :
    pc \in {"walk", "send"} /\ t \in todo => seen[t] = bar[t] \/ obs[t] = <<>>

LEMMA BarInit == Init => WalkInv /\ OneBarBehindAtMost
BY DEF Init, WalkInv, OneBarBehindAtMost

LEMMA BarStep ==
  ASSUME TypeOK, WalkInv, OneBarBehindAtMost, [Next]_vars
  PROVE  WalkInv' /\ OneBarBehindAtMost'
<1> USE DEF WalkInv, OneBarBehindAtMost
<1>1. CASE UNCHANGED <<obs, bar>> /\ UNCHANGED <<pc, todo, seen>>
  BY <1>1
<1>2. CASE Begin
  BY <1>2 DEF Begin
<1>3. ASSUME NEW t \in Ticker, NEW rank \in 1..MaxRank, NEW score \in 0..MaxScore,
             Drop(t, rank, score)
      PROVE  WalkInv' /\ OneBarBehindAtMost'
  <2>1. /\ obs' = [obs EXCEPT ![t] = <<>>] /\ obs \in [Ticker -> Seq(Observation)]
        /\ UNCHANGED <<bar, seen, pc>> /\ todo' \subseteq todo
    BY <1>3 DEF Drop, Ranked, Reset, TypeOK
  <2>2. obs'[t] = <<>> /\ \A u \in Ticker \ {t} : obs'[u] = obs[u]
    BY <2>1
  <2>3. WalkInv'
    BY <2>1, <2>2
  <2>4. OneBarBehindAtMost'
    BY <2>1, <2>2 DEF OneBarBehindAtMost
  <2> QED BY <2>3, <2>4
<1>4. ASSUME NEW t \in Ticker, NEW rank \in 1..MaxRank, NEW score \in 0..MaxScore,
             Climb(t, rank, score)
      PROVE  WalkInv' /\ OneBarBehindAtMost'
  <2> DEFINE o == [rank |-> rank, score |-> score, bar |-> seen[t]]
             seq == Recorded(obs[t], o)
  <2>1. /\ obs' = [obs EXCEPT ![t] = seq]
        /\ pc = "walk" /\ t \in todo /\ todo' = todo \ {t} /\ pc' \in {"walk", "send"}
        /\ UNCHANGED <<bar, seen>>
    BY <1>4 DEF Climb, Ranked
  <2>2. /\ obs[t] \in Seq(Observation) /\ Len(obs[t]) <= ObservationWindow /\ o \in Observation
    BY DEF TypeOK, Observation
  <2>3. seen[t] = bar[t] \/ obs[t] = <<>>
    BY <2>1
  <2>4. /\ \A i \in 2..Len(seq) : seq[i] \in {o} \cup {obs[t][j] : j \in 2..Len(obs[t])}
        /\ Len(seq) \in Nat /\ (Len(seq) >= 2 => obs[t] # <<>>)
    <3> HIDE DEF o
    <3>1. Len(Recorded(obs[t], o)) \in 1..ObservationWindow
      BY <2>2, RecordedProperties
    <3>2. \A i \in 2..Len(Recorded(obs[t], o)) :
            Recorded(obs[t], o)[i] \in {o} \cup {obs[t][j] : j \in 2..Len(obs[t])}
      BY <2>2, RecordedProperties, Zenon
    <3>3. Len(Recorded(obs[t], o)) >= 2 => obs[t] # <<>>
      BY <2>2, RecordedProperties, Zenon
    <3> QED BY <3>1, <3>2, <3>3, WindowType
  <2> HIDE DEF seq
  <2>5. \A i \in 2..Len(seq) : seq[i].bar = bar[t]
    <3> SUFFICES ASSUME NEW i \in 2..Len(seq) PROVE seq[i].bar = bar[t]
      OBVIOUS
    <3>1. seen[t] = bar[t]
      BY <2>3, <2>4
    <3>2. CASE seq[i] = o
      BY <3>1, <3>2
    <3>3. CASE \E j \in 2..Len(obs[t]) : seq[i] = obs[t][j]
      BY <3>3
    <3> QED BY <2>4, <3>2, <3>3
  <2> QED BY <2>1, <2>5 DEF TypeOK
<1>5. ASSUME NEW delivered \in BOOLEAN, FinishAlert(delivered)
      PROVE  WalkInv' /\ OneBarBehindAtMost'
  BY <1>5 DEF FinishAlert
<1>6. CASE End
  BY <1>6 DEF End
<1>7. ASSUME NEW t \in Ticker, AppendClose(t) PROVE WalkInv' /\ OneBarBehindAtMost'
  BY <1>7 DEF AppendClose, Reset, walkVars, TypeOK
<1> QED BY <1>1, <1>2, <1>3, <1>4, <1>5, <1>6, <1>7 DEF Next, Done, vars, walkVars

\* Only the oldest observation kept of a ticker can be of an earlier bar: a cycle
\* that a close overtakes files its old ranking in the new bar at most once.
THEOREM OneBarBehindHolds == Spec => []OneBarBehindAtMost
<1>1. TypeOK /\ WalkInv /\ OneBarBehindAtMost /\ [Next]_vars =>
        WalkInv' /\ OneBarBehindAtMost'
  BY BarStep
<1> QED BY <1>1, BarInit, TypeCorrect, PTL DEF Spec

-----------------------------------------------------------------------------
\* Alerts.

\* What the engine remembers of an alert is that it was delivered, and when.
MemoryInv == heard = lastAlerted

LEMMA MemoryStep == MemoryInv /\ [Next]_vars => MemoryInv'
BY DEF MemoryInv, Next, Begin, Drop, Climb, FinishAlert, Remembered, End, AppendClose, Done, vars

LEMMA AlertStep ==
  ASSUME TypeOK, MemoryInv, Next, NEW t \in Ticker, NEW k \in AlertKind,
         kind[t] # k, kind'[t] = k
  PROVE  sending' = <<t, k>> <=> heard[t][k] = 0 \/ cycle - heard[t][k] >= Cooldown[k]
<1>1. ASSUME NEW u \in Ticker, Reset(u) PROVE FALSE
  BY <1>1 DEF Reset, TypeOK, AlertKind
<1>2. ASSUME NEW u \in Ticker, NEW rank \in 1..MaxRank, NEW score \in 0..MaxScore,
             Climb(u, rank, score)
      PROVE  sending' = <<t, k>> <=> heard[t][k] = 0 \/ cycle - heard[t][k] >= Cooldown[k]
  <2> DEFINE o == [rank |-> rank, score |-> score, bar |-> seen[u]]
             rung == Classified(Recorded(obs[u], o), rank)
  <2>1. /\ kind' = [kind EXCEPT ![u] = rung]
        /\ IF Eligible(u, rung) THEN sending' = <<u, rung>> ELSE sending' = sending
        /\ sending = NoAlert
    BY <1>2 DEF Climb, Ranked, TypeOK
  <2> HIDE DEF rung
  <2>2. u = t /\ rung = k
    BY <2>1 DEF TypeOK
  <2>3. Eligible(t, k) <=> heard[t][k] = 0 \/ cycle - heard[t][k] >= Cooldown[k]
    BY DEF Eligible, MemoryInv
  <2>4. <<t, k>> # NoAlert
    BY SignalAssumption DEF AlertKind
  <2> QED BY <2>1, <2>2, <2>3, <2>4
<1>3. CASE kind' = kind
  BY <1>3
<1> QED BY <1>1, <1>2, <1>3 DEF Next, Begin, Drop, FinishAlert, End, AppendClose, Done, vars

\* A move to emerging or entry_ready is alerted exactly if no alert of that rung
\* was delivered within its cooldown, whatever failed or was reset before.
THEOREM AlertsHold == Spec => AlertsAsSpecified
<1>1. Init => MemoryInv
  BY DEF Init, MemoryInv
<1>2. TypeOK /\ MemoryInv /\ [Next]_vars =>
        [\A t \in Ticker, k \in AlertKind :
           kind[t] # k /\ kind'[t] = k =>
             (sending' = <<t, k>> <=> heard[t][k] = 0 \/ cycle - heard[t][k] >= Cooldown[k])]_vars
  BY AlertStep
<1> QED BY <1>1, <1>2, MemoryStep, TypeCorrect, PTL DEF Spec, AlertsAsSpecified

-----------------------------------------------------------------------------
\* Rungs.

\* With at least two observations to a rung, the last of them improved on the one
\* before.
LEMMA StrengtheningLast ==
  ASSUME NEW seq \in Seq(Observation), NEW n \in Nat, n >= 2, NEW rankGain, NEW scoreGain,
         Strengthening(seq, n, rankGain, scoreGain)
  PROVE  /\ seq[Len(seq)].score > seq[Len(seq) - 1].score
         /\ seq[Len(seq)].rank <= seq[Len(seq) - 1].rank
<1> DEFINE first == Len(seq) - n + 1
           recent == SubSeq(seq, first, Len(seq))
<1>1. /\ Len(seq) \in Nat /\ Len(seq) >= n
      /\ \A i \in 2..n : recent[i].rank <= recent[i - 1].rank /\ recent[i].score > recent[i - 1].score
  BY LenProperties DEF Strengthening
<1>2. first \in Int /\ Len(seq) - first + 1 = n /\ \A i \in first..Len(seq) : seq[i] \in Observation
  BY <1>1, ElementOfSeq
<1>3. \A i \in 1..n : recent[i] = seq[first + i - 1]
  <2> HIDE DEF first
  <2> QED BY <1>1, <1>2, SubSeqProperties
<1>4. recent[n] = seq[Len(seq)] /\ recent[n - 1] = seq[Len(seq) - 1]
  <2>1. n \in 1..n /\ n - 1 \in 1..n /\ first + n - 1 = Len(seq) /\ first + (n - 1) - 1 = Len(seq) - 1
    BY <1>1
  <2> HIDE DEF first, recent
  <2> QED BY <1>3, <2>1
<1>5. n \in 2..n
  OBVIOUS
<1> HIDE DEF recent
<1> QED BY <1>1, <1>4, <1>5

\* What is said of one ticker.
RungEarned(rung, seq) ==
  /\ rung = "neutral" <=> seq = <<>>
  /\ rung = "entry_ready" => EarnsEntryReady(seq, Last(seq).rank)
  /\ rung = "emerging" => EarnsEmerging(seq, Last(seq).rank)

LEMMA RungStep ==
  ASSUME TypeOK, \A t \in Ticker : RungEarned(kind[t], obs[t]), [Next]_vars
  PROVE  \A t \in Ticker : RungEarned(kind'[t], obs'[t])
<1>1. ASSUME NEW t \in Ticker, Reset(t) PROVE \A u \in Ticker : RungEarned(kind'[u], obs'[u])
  <2>1. RungEarned("neutral", <<>>)
    BY DEF RungEarned
  <2> QED BY <1>1, <2>1 DEF Reset, TypeOK
<1>2. ASSUME NEW t \in Ticker, NEW rank \in 1..MaxRank, NEW score \in 0..MaxScore,
             Climb(t, rank, score)
      PROVE  \A u \in Ticker : RungEarned(kind'[u], obs'[u])
  <2> DEFINE o == [rank |-> rank, score |-> score, bar |-> seen[t]]
             seq == Recorded(obs[t], o)
             rung == Classified(seq, rank)
  <2>1. kind' = [kind EXCEPT ![t] = rung] /\ obs' = [obs EXCEPT ![t] = seq]
    BY <1>2 DEF Climb
  <2>2. seq # <<>> /\ Last(seq).rank = rank
    <3>1. obs[t] \in Seq(Observation) /\ Len(obs[t]) <= ObservationWindow /\ o \in Observation
      BY DEF TypeOK, Observation
    <3>2. Recorded(obs[t], o) # <<>> /\ Last(Recorded(obs[t], o)) = o
      <4> HIDE DEF o
      <4> QED BY <3>1, RecordedProperties, Zenon
    <3> QED BY <3>2
  <2> HIDE DEF seq
  <2>3. RungEarned(rung, seq)
    BY <2>2 DEF RungEarned, Classified
  <2> HIDE DEF rung
  <2> QED BY <2>1, <2>3 DEF TypeOK
<1>3. CASE UNCHANGED <<kind, obs>>
  BY <1>3
<1> QED BY <1>1, <1>2, <1>3 DEF Next, Begin, Drop, FinishAlert, End, AppendClose, Done, vars

\* A ticker stands on a rung only while what is kept of it earns that rung, for
\* every setting that asks for at least two observations of each.
THEOREM KindsEarned ==
  ASSUME EmergingMinObservations >= 2, EntryReadyMinObservations >= 2
  PROVE  Spec => []KindEarned
<1> DEFINE AllEarned == \A t \in Ticker : RungEarned(kind[t], obs[t])
<1>1. Init => AllEarned
  BY DEF Init, RungEarned
<1>2. TypeOK /\ AllEarned /\ [Next]_vars => AllEarned'
  BY RungStep
<1>3. TypeOK /\ AllEarned => KindEarned
  <2> SUFFICES ASSUME TypeOK, AllEarned, NEW t \in Ticker
               PROVE  /\ RungEarned(kind[t], obs[t])
                      /\ kind[t] \in AlertKind =>
                           /\ obs[t][Len(obs[t])].score > obs[t][Len(obs[t]) - 1].score
                           /\ obs[t][Len(obs[t])].rank <= obs[t][Len(obs[t]) - 1].rank
    BY DEF KindEarned, RungEarned, Last
  <2>1. obs[t] \in Seq(Observation) /\ RungEarned(kind[t], obs[t])
    BY DEF TypeOK
  <2>2. CASE kind[t] = "entry_ready"
    BY <2>1, <2>2, StrengtheningLast, SettingTypes DEF RungEarned, EarnsEntryReady
  <2>3. CASE kind[t] = "emerging"
    BY <2>1, <2>3, StrengtheningLast, SettingTypes DEF RungEarned, EarnsEmerging
  <2> QED BY <2>1, <2>2, <2>3 DEF AlertKind
<1> QED BY <1>1, <1>2, <1>3, TypeCorrect, PTL DEF Spec
=============================================================================
