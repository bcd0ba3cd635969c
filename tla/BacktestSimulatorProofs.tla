---------------------- MODULE BacktestSimulatorProofs ----------------------
(***************************************************************************)
(* What holds of the minute replay for every universe, every series of     *)
(* candles and signals, every length, ladder and limit.                    *)
(***************************************************************************)
EXTENDS BacktestSimulator, SequenceTheorems, FiniteSetTheorems, WellFoundedInduction, TLAPS

-----------------------------------------------------------------------------
\* Sums over finite sets, as SumFunctionOnSet of the community modules defines them.

\* Induction over the subsets of a finite set: a set that holds what holds of no
\* least counter-example holds the whole.
LEMMA SubsetInduction ==
  ASSUME NEW S, IsFiniteSet(S), NEW Good,
         \A s \in SUBSET S : (\A u \in SUBSET s : u # s => u \in Good) => s \in Good
  PROVE  S \in Good
<1> SUFFICES ASSUME S \notin Good PROVE FALSE
  OBVIOUS
<1> DEFINE Bad == {s \in SUBSET S : s \notin Good}
<1>1. IsWellFoundedOn(StrictSubsetOrdering(S), SUBSET S)
  <2>1. FiniteSubsetsOf(S) = SUBSET S
    BY FS_FiniteSubsetsOfFinite
  <2>2. IsWellFoundedOn(StrictSubsetOrdering(S), FiniteSubsetsOf(S))
    BY FS_StrictSubsetOrderingWellFounded
  <2> QED BY <2>1, <2>2
<1>2. Bad \subseteq SUBSET S /\ Bad # {}
  OBVIOUS
<1> HIDE DEF Bad
<1>3. PICK s \in Bad : \A u \in Bad : ~(<<u, s>> \in StrictSubsetOrdering(S))
  BY <1>1, <1>2, WFMin
<1>4. \A u \in SUBSET s : u # s => u \in Good
  BY <1>2, <1>3 DEF StrictSubsetOrdering, Bad
<1> QED BY <1>3, <1>4 DEF Bad

Pick(s) == CHOOSE x \in s : TRUE

\* g adds up f over every subset of S.
AddsUp(g, f, S) ==
  g = [s \in SUBSET S |-> IF s = {} THEN 0 ELSE f[Pick(s)] + g[s \ {Pick(s)}]]

Picked(s, x) == x = Pick(s) /\ x \in s

LEMMA PickIsIn == \A s : s # {} => Picked(s, Pick(s))
BY DEF Pick, Picked

LEMMA AddsUpValue ==
  ASSUME NEW g, NEW f, NEW S, AddsUp(g, f, S), NEW s \in SUBSET S
  PROVE  /\ s = {} => g[s] = 0
         /\ s # {} => \E x \in s : Picked(s, x) /\ g[s] = f[x] + g[s \ {x}]
<1>1. g[s] = IF s = {} THEN 0 ELSE f[Pick(s)] + g[s \ {Pick(s)}]
  BY DEF AddsUp
<1> QED BY <1>1, PickIsIn DEF Picked

LEMMA AddsUpOnce ==
  ASSUME NEW S, IsFiniteSet(S), NEW f, NEW g, NEW h, NEW T, S \subseteq T,
         AddsUp(g, f, T), AddsUp(h, f, S)
  PROVE  g[S] = h[S]
<1> DEFINE Good == {s \in SUBSET S : g[s] = h[s]}
<1>1. ASSUME NEW s \in SUBSET S, \A u \in SUBSET s : u # s => u \in Good
      PROVE  s \in Good
  <2>1. CASE s = {}
    BY <2>1, AddsUpValue
  <2>2. CASE s # {}
    <3>1. PICK x \in s : Picked(s, x) /\ g[s] = f[x] + g[s \ {x}]
      BY <2>2, AddsUpValue
    <3>2. PICK y \in s : Picked(s, y) /\ h[s] = f[y] + h[s \ {y}]
      BY <2>2, AddsUpValue
    <3>3. x = y /\ s \ {x} \in Good
      BY <1>1, <3>1, <3>2 DEF Picked
    <3> QED BY <3>1, <3>2, <3>3
  <2> QED BY <2>1, <2>2
<1> HIDE DEF Good
<1>2. S \in Good
  BY <1>1, SubsetInduction
<1> QED BY <1>2 DEF Good

LEMMA AddsUpExists ==
  ASSUME NEW S, IsFiniteSet(S), NEW f
  PROVE  \E g : AddsUp(g, f, S)
<1> DEFINE Good == {s \in SUBSET S : \E g : AddsUp(g, f, s)}
<1>1. ASSUME NEW s \in SUBSET S, \A u \in SUBSET s : u # s => u \in Good
      PROVE  s \in Good
  <2> DEFINE For(u) == CHOOSE g : AddsUp(g, f, u)
             total == [u \in SUBSET s |->
                         IF u = {} THEN 0 ELSE f[Pick(u)] + For(u \ {Pick(u)})[u \ {Pick(u)}]]
  <2>1. \A u \in SUBSET s : u # s => AddsUp(For(u), f, u)
    BY <1>1
  <2> HIDE DEF For
  <2>2. ASSUME NEW u \in SUBSET s, u # s
        PROVE  total[u] = For(u)[u]
    <3>1. AddsUp(For(u), f, u)
      BY <2>1, <2>2
    <3>2. CASE u = {}
      BY <3>1, <3>2, AddsUpValue
    <3>3. CASE u # {}
      <4>1. PICK x \in u : Picked(u, x) /\ For(u)[u] = f[x] + For(u)[u \ {x}]
        BY <3>1, <3>3, AddsUpValue
      <4>2. AddsUp(For(u \ {x}), f, u \ {x})
        BY <2>1, <2>2, <4>1
      <4>3. IsFiniteSet(u \ {x})
        BY FS_Subset
      <4>4. For(u)[u \ {x}] = For(u \ {x})[u \ {x}]
        BY <3>1, <4>2, <4>3, AddsUpOnce
      <4>5. total[u] = f[x] + For(u \ {x})[u \ {x}]
        BY <3>3, <4>1 DEF Picked
      <4> QED BY <4>1, <4>4, <4>5
    <3> QED BY <3>2, <3>3
  <2>3. \A u \in SUBSET s : u # {} => For(u \ {Pick(u)})[u \ {Pick(u)}] = total[u \ {Pick(u)}]
    BY <2>2, PickIsIn DEF Picked
  <2>4. AddsUp(total, f, s)
    BY <2>3 DEF AddsUp
  <2> QED BY <2>4
<1> HIDE DEF Good
<1>2. S \in Good
  BY <1>1, SubsetInduction
<1> QED BY <1>2 DEF Good

LEMMA SumAddsUp ==
  ASSUME NEW S, IsFiniteSet(S), NEW f
  PROVE  \E g : AddsUp(g, f, S) /\ SumFunctionOnSet(f, S) = g[S]
<1> DEFINE g == CHOOSE g : AddsUp(g, f, S)
<1>1. AddsUp(g, f, S)
  BY AddsUpExists
<1>2. SumFunctionOnSet(f, S) = g[S]
  BY DEF SumFunctionOnSet, FoldFunctionOnSet, MapThenFoldSet, AddsUp, Pick
<1> QED BY <1>1, <1>2

\* The sum over the empty set, and over a set by one of its elements.
LEMMA SumEmpty == \A f : SumFunctionOnSet(f, {}) = 0
<1> SUFFICES ASSUME NEW f PROVE SumFunctionOnSet(f, {}) = 0
  OBVIOUS
<1>1. PICK g : AddsUp(g, f, {}) /\ SumFunctionOnSet(f, {}) = g[{}]
  BY SumAddsUp, FS_EmptySet
<1> QED BY <1>1, AddsUpValue

LEMMA SumPicked ==
  ASSUME NEW S, IsFiniteSet(S), S # {}, NEW f
  PROVE  \E x \in S : SumFunctionOnSet(f, S) = f[x] + SumFunctionOnSet(f, S \ {x})
<1>1. PICK g : AddsUp(g, f, S) /\ SumFunctionOnSet(f, S) = g[S]
  BY SumAddsUp
<1>2. PICK x \in S : g[S] = f[x] + g[S \ {x}]
  BY <1>1, AddsUpValue
<1>3. IsFiniteSet(S \ {x})
  BY FS_Subset
<1>4. PICK h : AddsUp(h, f, S \ {x}) /\ SumFunctionOnSet(f, S \ {x}) = h[S \ {x}]
  BY <1>3, SumAddsUp
<1>5. g[S \ {x}] = h[S \ {x}]
  BY <1>1, <1>3, <1>4, AddsUpOnce
<1> QED BY <1>1, <1>2, <1>4, <1>5

LEMMA SumIsInt ==
  ASSUME NEW S, IsFiniteSet(S), NEW f, \A x \in S : f[x] \in Int
  PROVE  SumFunctionOnSet(f, S) \in Int
<1> DEFINE Good == {s \in SUBSET S : SumFunctionOnSet(f, s) \in Int}
<1>1. ASSUME NEW s \in SUBSET S, \A u \in SUBSET s : u # s => u \in Good
      PROVE  s \in Good
  <2>1. CASE s = {}
    BY <2>1, SumEmpty
  <2>2. CASE s # {}
    <3>1. IsFiniteSet(s)
      BY FS_Subset
    <3>2. PICK x \in s : SumFunctionOnSet(f, s) = f[x] + SumFunctionOnSet(f, s \ {x})
      BY <2>2, <3>1, SumPicked
    <3>3. SumFunctionOnSet(f, s \ {x}) \in Int
      BY <1>1
    <3> QED BY <3>2, <3>3
  <2> QED BY <2>1, <2>2
<1> HIDE DEF Good
<1>2. S \in Good
  BY <1>1, SubsetInduction
<1> QED BY <1>2 DEF Good

\* Any element may be taken out first.
LEMMA SumWithout ==
  ASSUME NEW S, IsFiniteSet(S), NEW f, \A x \in S : f[x] \in Int, NEW e \in S
  PROVE  SumFunctionOnSet(f, S) = f[e] + SumFunctionOnSet(f, S \ {e})
<1> DEFINE Total(s) == SumFunctionOnSet(f, s)
           Good == {s \in SUBSET S : \A y \in s : Total(s) = f[y] + Total(s \ {y})}
<1>1. ASSUME NEW s \in SUBSET S, \A u \in SUBSET s : u # s => u \in Good, NEW y \in s
      PROVE  Total(s) = f[y] + Total(s \ {y})
  <2>1. IsFiniteSet(s) /\ s # {}
    BY FS_Subset
  <2>2. PICK x \in s : Total(s) = f[x] + Total(s \ {x})
    BY <2>1, SumPicked
  <2>3. CASE x = y
    BY <2>2, <2>3
  <2>4. CASE x # y
    <3>1. s \ {x} \in Good /\ s \ {y} \in Good
      BY <1>1
    <3>2. Total(s \ {x}) = f[y] + Total((s \ {x}) \ {y})
      BY <2>4, <3>1
    <3>3. Total(s \ {y}) = f[x] + Total((s \ {y}) \ {x})
      BY <2>4, <3>1
    <3>4. (s \ {x}) \ {y} = (s \ {y}) \ {x}
      OBVIOUS
    <3>5. Total((s \ {y}) \ {x}) \in Int
      BY FS_Subset, SumIsInt
    <3>6. f[x] \in Int /\ f[y] \in Int
      OBVIOUS
    <3>7. /\ Total(s) = f[x] + (f[y] + Total((s \ {y}) \ {x}))
          /\ Total(s \ {y}) = f[x] + Total((s \ {y}) \ {x})
      BY <2>2, <3>2, <3>3, <3>4
    <3> HIDE DEF Total
    <3> QED BY <3>5, <3>6, <3>7
  <2> QED BY <2>3, <2>4
<1>2. \A s \in SUBSET S : (\A u \in SUBSET s : u # s => u \in Good) => s \in Good
  BY <1>1
<1> HIDE DEF Good
<1>3. S \in Good
  BY <1>2, SubsetInduction
<1> QED BY <1>3 DEF Good

\* Equal summands add up to equal sums.
LEMMA SumsEqual ==
  ASSUME NEW S, IsFiniteSet(S), NEW f, NEW g,
         \A x \in S : f[x] \in Int /\ f[x] = g[x]
  PROVE  SumFunctionOnSet(f, S) = SumFunctionOnSet(g, S)
<1> DEFINE Good == {s \in SUBSET S : SumFunctionOnSet(f, s) = SumFunctionOnSet(g, s)}
<1>1. ASSUME NEW s \in SUBSET S, \A u \in SUBSET s : u # s => u \in Good
      PROVE  s \in Good
  <2>1. CASE s = {}
    BY <2>1, SumEmpty
  <2>2. CASE s # {}
    <3>1. IsFiniteSet(s)
      BY FS_Subset
    <3>2. PICK x \in s : SumFunctionOnSet(f, s) = f[x] + SumFunctionOnSet(f, s \ {x})
      BY <2>2, <3>1, SumPicked
    <3>3. SumFunctionOnSet(g, s) = g[x] + SumFunctionOnSet(g, s \ {x})
      BY <3>1, SumWithout
    <3>4. s \ {x} \in Good
      BY <1>1
    <3> QED BY <3>2, <3>3, <3>4
  <2> QED BY <2>1, <2>2
<1> HIDE DEF Good
<1>2. S \in Good
  BY <1>1, SubsetInduction
<1> QED BY <1>2 DEF Good

\* Nothing adds up to nothing.
LEMMA SumOfZeros ==
  ASSUME NEW S, IsFiniteSet(S), NEW f, \A x \in S : f[x] = 0
  PROVE  SumFunctionOnSet(f, S) = 0
<1> DEFINE Good == {s \in SUBSET S : SumFunctionOnSet(f, s) = 0}
<1>1. ASSUME NEW s \in SUBSET S, \A u \in SUBSET s : u # s => u \in Good
      PROVE  s \in Good
  <2>1. CASE s = {}
    BY <2>1, SumEmpty
  <2>2. CASE s # {}
    <3>1. IsFiniteSet(s)
      BY FS_Subset
    <3>2. PICK x \in s : SumFunctionOnSet(f, s) = f[x] + SumFunctionOnSet(f, s \ {x})
      BY <2>2, <3>1, SumPicked
    <3> QED BY <1>1, <3>2
  <2> QED BY <2>1, <2>2
<1> HIDE DEF Good
<1>2. S \in Good
  BY <1>1, SubsetInduction
<1> QED BY <1>2 DEF Good

\* f added up over S class by class, where class is in D.
ByClass(f, S, class, D) ==
  SumFunctionOnSet([d \in D |-> SumFunctionOnSet(f, {x \in S : class[x] = d})], D)

\* A sum taken class by class is the sum.
LEMMA SumByClass ==
  ASSUME NEW S, IsFiniteSet(S), NEW D, IsFiniteSet(D), NEW f, NEW class,
         \A x \in S : f[x] \in Int /\ class[x] \in D
  PROVE  ByClass(f, S, class, D) = SumFunctionOnSet(f, S)
<1> DEFINE In(s, d) == {x \in s : class[x] = d}
           Part(s) == [d \in D |-> SumFunctionOnSet(f, In(s, d))]
           Good == {s \in SUBSET S : SumFunctionOnSet(Part(s), D) = SumFunctionOnSet(f, s)}
<1>1. \A s \in SUBSET S : IsFiniteSet(s) /\ \A d : IsFiniteSet(In(s, d))
  BY FS_Subset
<1>2. \A s \in SUBSET S : \A d \in D : Part(s)[d] \in Int
  BY <1>1, SumIsInt
<1>3. ASSUME NEW s \in SUBSET S, \A u \in SUBSET s : u # s => u \in Good
      PROVE  s \in Good
  <2>1. CASE s = {}
    <3>1. \A d \in D : In(s, d) = {}
      BY <2>1
    <3>2. \A d \in D : Part(s)[d] = 0
      BY <3>1, SumEmpty
    <3>3. SumFunctionOnSet(Part(s), D) = 0
      BY <3>2, SumOfZeros
    <3> QED BY <2>1, <3>3, SumEmpty
  <2>2. CASE s # {}
    <3>1. PICK x \in s : TRUE
      BY <2>2
    <3> DEFINE rest == s \ {x}
               d0 == class[x]
    <3>2. rest \in SUBSET S /\ rest \in Good /\ d0 \in D
      BY <1>3
    <3>3. SumFunctionOnSet(f, s) = f[x] + SumFunctionOnSet(f, rest)
      BY <1>1, SumWithout
    <3>4. \A d \in D \ {d0} : Part(s)[d] = Part(rest)[d]
      <4> SUFFICES ASSUME NEW d \in D \ {d0} PROVE Part(s)[d] = Part(rest)[d]
        OBVIOUS
      <4>1. In(s, d) = In(rest, d)
        OBVIOUS
      <4> QED BY <4>1
    <3>5. Part(s)[d0] = f[x] + Part(rest)[d0]
      <4>1. x \in In(s, d0) /\ In(s, d0) \ {x} = In(rest, d0)
        OBVIOUS
      <4>2. SumFunctionOnSet(f, In(s, d0)) = f[x] + SumFunctionOnSet(f, In(s, d0) \ {x})
        <5> HIDE DEF In
        <5>1. IsFiniteSet(In(s, d0)) /\ \A y \in In(s, d0) : f[y] \in Int
          BY <1>1 DEF In
        <5> QED BY <4>1, <5>1, SumWithout
      <4> QED BY <3>2, <4>1, <4>2
    <3> HIDE DEF Part, In
    <3>6. SumFunctionOnSet(Part(s), D) = Part(s)[d0] + SumFunctionOnSet(Part(s), D \ {d0})
      BY <1>2, <3>2, SumWithout
    <3>7. SumFunctionOnSet(Part(rest), D) = Part(rest)[d0] + SumFunctionOnSet(Part(rest), D \ {d0})
      BY <1>2, <3>2, SumWithout
    <3>8. SumFunctionOnSet(Part(s), D \ {d0}) = SumFunctionOnSet(Part(rest), D \ {d0})
      <4>1. IsFiniteSet(D \ {d0})
        BY FS_Subset
      <4> QED BY <1>2, <3>4, <4>1, SumsEqual
    <3>9. SumFunctionOnSet(Part(rest), D \ {d0}) \in Int
      <4>1. IsFiniteSet(D \ {d0})
        BY FS_Subset
      <4> QED BY <1>2, <3>2, <4>1, SumIsInt
    <3>10. SumFunctionOnSet(Part(s), D) = f[x] + SumFunctionOnSet(Part(rest), D)
      BY <1>2, <3>2, <3>5, <3>6, <3>7, <3>8, <3>9
    <3>11. SumFunctionOnSet(Part(rest), D) = SumFunctionOnSet(f, rest)
      BY <3>2
    <3> QED BY <3>3, <3>10, <3>11
  <2> QED BY <2>1, <2>2
<1>4. \A s \in SUBSET S : (\A u \in SUBSET s : u # s => u \in Good) => s \in Good
  BY <1>3
<1> HIDE DEF Good
<1>5. S \in Good
  BY <1>4, SubsetInduction
<1> QED BY <1>5 DEF Good, ByClass

-----------------------------------------------------------------------------
\* Positions.

\* What the replay relies on of one position, whatever its size and cluster.
IsPosition(p) ==
  /\ DOMAIN p = {"lots", "opened", "since", "lifted", "cluster", "target", "stop", "step", "armed"}
  /\ p.opened \in Nat /\ p.since \in Nat /\ p.lifted \in Nat
  /\ p.step \in Nat /\ p.armed \in BOOLEAN

OnLadder(p) ==
  \/ /\ p.step = 0
     /\ p.target = InitialTakeProfit
     /\ p.stop = IF p.armed THEN Entry ELSE InitialStopLoss
  \/ /\ p.step > 0 /\ p.armed
     /\ p.target = RatchetTakeProfit(p.step)
     /\ p.stop = RatchetStopLoss(p.step)

\* Its stop is at the configured loss or, once lifted, at the entry or above, and
\* below its target.
LEMMA Levels ==
  ASSUME NEW p, IsPosition(p), OnLadder(p)
  PROVE  /\ p.stop \in Int /\ p.target \in Int
         /\ p.target >= TakeProfitPct /\ p.stop < p.target
         /\ p.armed => p.stop >= Entry
         /\ ~p.armed => p.stop = InitialStopLoss
<1>1. CASE p.step = 0
  BY <1>1, TradeSettingsAssumption
  DEF IsPosition, OnLadder, Entry, InitialTakeProfit, InitialStopLoss
<1>2. CASE p.step > 0
  <2>1. /\ p.target = TakeProfitPct * (p.step + 1) /\ p.stop = TakeProfitPct * (p.step - 1)
        /\ p.armed /\ p.step \in Nat
    BY <1>2 DEF IsPosition, OnLadder, RatchetTakeProfit, RatchetStopLoss
  <2>2. /\ TakeProfitPct * (p.step + 1) = TakeProfitPct * (p.step - 1) + 2 * TakeProfitPct
        /\ TakeProfitPct * (p.step - 1) \in Nat
    BY <1>2, <2>1, TradeSettingsAssumption
  <2> QED BY <2>1, <2>2, TradeSettingsAssumption DEF Entry
<1> QED BY <1>1, <1>2 DEF IsPosition

\* What the candles of a minute make of a position is a position on the ladder
\* whose stop is not lower.
ClimbedPosition(p, at) ==
  [p EXCEPT !.target = RatchetTakeProfit(p.step + 1),
            !.stop = RatchetStopLoss(p.step + 1),
            !.armed = TRUE, !.step = p.step + 1, !.since = at, !.lifted = at]

LEMMA ArmedKept ==
  ASSUME NEW p, IsPosition(p), OnLadder(p), NEW close, minute \in Nat
  PROVE  /\ IsPosition(Armed(p, close)) /\ OnLadder(Armed(p, close))
         /\ Armed(p, close).stop >= p.stop
         /\ Armed(p, close).opened = p.opened /\ Armed(p, close).since = p.since
         /\ Armed(p, close).lifted \in {p.lifted, minute}
<1>1. CASE Armed(p, close) = p
  BY <1>1, Levels DEF IsPosition
<1>2. CASE ~p.armed /\ Armed(p, close) = [p EXCEPT !.armed = TRUE, !.stop = Entry, !.lifted = minute]
  <2>1. p.step = 0 /\ p.stop < Entry /\ p.target = InitialTakeProfit
    BY <1>2, Levels, TradeSettingsAssumption DEF OnLadder, InitialStopLoss, Entry
  <2>2. /\ DOMAIN Armed(p, close) = DOMAIN p
        /\ Armed(p, close).opened = p.opened /\ Armed(p, close).since = p.since
        /\ Armed(p, close).lifted = minute /\ Armed(p, close).target = p.target
        /\ Armed(p, close).stop = Entry /\ Armed(p, close).step = p.step
        /\ Armed(p, close).armed = TRUE
    BY <1>2 DEF IsPosition
  <2> DEFINE q == Armed(p, close)
  <2> HIDE DEF q
  <2>3. IsPosition(q)
    BY <2>2 DEF IsPosition, q
  <2>4. OnLadder(q)
    BY <2>1, <2>2 DEF OnLadder, q
  <2>5. q.stop >= p.stop
    BY <2>1, <2>2, Levels DEF Entry, q
  <2> QED BY <2>2, <2>3, <2>4, <2>5 DEF q
<1> QED BY <1>1, <1>2 DEF Armed, ArmedBy

LEMMA ClimbKept ==
  ASSUME NEW p, IsPosition(p), OnLadder(p), NEW at \in Nat
  PROVE  /\ IsPosition(ClimbedPosition(p, at)) /\ OnLadder(ClimbedPosition(p, at))
         /\ ClimbedPosition(p, at).stop >= p.stop
         /\ ClimbedPosition(p, at).opened = p.opened
         /\ ClimbedPosition(p, at).since = at /\ ClimbedPosition(p, at).lifted = at
<1> DEFINE q == ClimbedPosition(p, at)
<1>1. /\ DOMAIN q = DOMAIN p
      /\ q.opened = p.opened /\ q.since = at /\ q.lifted = at
      /\ q.target = RatchetTakeProfit(p.step + 1) /\ q.stop = RatchetStopLoss(p.step + 1)
      /\ q.step = p.step + 1 /\ q.armed = TRUE
  BY DEF IsPosition, ClimbedPosition
<1>2. p.step \in Nat /\ RatchetStopLoss(p.step + 1) = TakeProfitPct * p.step
  BY TradeSettingsAssumption DEF IsPosition, RatchetStopLoss
<1>3. RatchetStopLoss(p.step + 1) >= p.stop
  <2>1. CASE p.step = 0
    <3>1. TakeProfitPct * p.step = 0
      BY <2>1, TradeSettingsAssumption
    <3>2. p.stop <= 0
      BY <2>1, TradeSettingsAssumption DEF OnLadder, Entry, InitialStopLoss
    <3> QED BY <1>2, <3>1, <3>2, Levels
  <2>2. CASE p.step > 0
    <3>1. p.stop = TakeProfitPct * (p.step - 1)
      BY <2>2 DEF OnLadder, RatchetStopLoss
    <3>2. TakeProfitPct * (p.step - 1) = TakeProfitPct * p.step - TakeProfitPct
      BY <1>2, TradeSettingsAssumption
    <3>3. TakeProfitPct * p.step \in Int
      BY <1>2, TradeSettingsAssumption
    <3> QED BY <1>2, <3>1, <3>2, <3>3, TradeSettingsAssumption
  <2> QED BY <1>2, <2>1, <2>2
<1> HIDE DEF q
<1>4. p.step + 1 \in Nat /\ p.step + 1 > 0
  BY <1>2
<1>5. IsPosition(q)
  BY <1>1, <1>4 DEF IsPosition
<1>6. OnLadder(q)
  BY <1>1, <1>4 DEF OnLadder
<1> QED BY <1>1, <1>3, <1>5, <1>6 DEF q

LEMMA OpenedKept ==
  ASSUME NEW t, minute \in Nat
  PROVE  /\ IsPosition(OpenedPosition(t)) /\ OnLadder(OpenedPosition(t))
         /\ OpenedPosition(t).stop = InitialStopLoss
         /\ OpenedPosition(t).opened = minute /\ OpenedPosition(t).since = minute
         /\ OpenedPosition(t).lifted = 0
BY DEF IsPosition, OnLadder, OpenedPosition

-----------------------------------------------------------------------------
\* The book from minute to minute.

InPast(p, now) == p.opened <= p.since /\ p.since <= now /\ p.lifted <= now

Fresh(p) == StaleMinutes > 0 => minute - p.since < StaleMinutes

\* What a loop has yet to look at is open, and was open before this minute's
\* candle; what the exits have looked at is not stale.
BookInv ==
  /\ minute \in Nat
  /\ Open \subseteq Ticker /\ IsFiniteSet(Open)
  /\ \A t \in Open :
       IsPosition(positions[t]) /\ OnLadder(positions[t]) /\ InPast(positions[t], minute)
  /\ mark \in [Ticker -> Int]
  /\ RawEntry > -StopLossPct => \A t \in Ticker : mark[t] > -StopLossPct
  /\ pc \in {"exits", "force"} => todo \subseteq Open
  /\ pc = "exits" =>
       /\ \A t \in todo : positions[t].opened < minute /\ positions[t].lifted < minute
       /\ \A t \in Open \ todo : Fresh(positions[t])
  /\ pc = "entries" => \A t \in Open : Fresh(positions[t])

\* A position is kept as q, or it is sold.
Kept(t, q, close) ==
  /\ Reviewed(t)
  /\ positions' = [positions EXCEPT ![t] = q]
  /\ mark' = [mark EXCEPT ![t] = close]
  /\ UNCHANGED <<minute, pc, trades>>

Sold(t) ==
  /\ t \in todo /\ todo' = todo \ {t}
  /\ positions' = [u \in Open \ {t} |-> positions[u]]
  /\ mark' = [mark EXCEPT ![t] = 0]
  /\ UNCHANGED <<minute, pc>>

\* What the exits look at.
LEMMA ReviewedInOrder ==
  ASSUME BookInv, NEW t \in Ticker, Reviewed(t)
  PROVE  /\ t \in Open /\ minute \in Nat
         /\ IsPosition(positions[t]) /\ OnLadder(positions[t]) /\ InPast(positions[t], minute)
         /\ positions[t].opened < minute /\ positions[t].lifted < minute
         /\ positions[t].stop \in Int /\ positions[t].stop >= -StopLossPct
<1>1. t \in Open /\ minute \in Nat
  BY DEF BookInv, Reviewed
<1>2. IsPosition(positions[t]) /\ OnLadder(positions[t])
  BY <1>1 DEF BookInv
<1>3. /\ InPast(positions[t], minute)
      /\ positions[t].opened < minute /\ positions[t].lifted < minute
  BY <1>1 DEF BookInv, Reviewed
<1>4. /\ positions[t].stop \in Int /\ positions[t].armed \in BOOLEAN
      /\ positions[t].armed => positions[t].stop >= 0
      /\ ~positions[t].armed => positions[t].stop = -StopLossPct
  BY <1>2, Levels DEF IsPosition, Entry, InitialStopLoss
<1> QED BY <1>1, <1>2, <1>3, <1>4, TradeSettingsAssumption

\* What is kept is on the ladder with a stop that is not lower, and not stale.
LEMMA KeptInOrder ==
  ASSUME BookInv, NEW t \in Ticker, NEW low \in Price, NEW close \in Price, low <= close,
         Climb(t, low, close) \/ Hold(t, low, close)
  PROVE  \E q : /\ Kept(t, q, close)
                /\ IsPosition(q) /\ OnLadder(q) /\ InPast(q, minute) /\ Fresh(q)
                /\ q.stop >= positions[t].stop
                /\ close > -StopLossPct
<1> DEFINE p == positions[t]
<1>0. Reviewed(t) /\ low > p.stop
  BY DEF Climb, Hold
<1>1. /\ t \in Open /\ minute \in Nat /\ p.opened < minute
      /\ IsPosition(p) /\ OnLadder(p) /\ InPast(p, minute)
  BY <1>0, ReviewedInOrder
<1>2. close > -StopLossPct
  BY <1>0, ReviewedInOrder, BacktestAssumption, TradeSettingsAssumption
<1>3. p.opened \in Nat /\ p.since \in Nat /\ p.lifted \in Nat
  BY <1>1 DEF IsPosition
<1>4. CASE Climb(t, low, close)
  <2> DEFINE q == ClimbedPosition(p, minute)
  <2>1. Kept(t, q, close)
    BY <1>4 DEF Climb, Kept, ClimbedPosition, minuteVars
  <2>2. /\ IsPosition(q) /\ OnLadder(q) /\ q.stop >= p.stop
        /\ q.opened = p.opened /\ q.since = minute /\ q.lifted = minute
    BY <1>1, ClimbKept
  <2> HIDE DEF q
  <2>3. InPast(q, minute) /\ Fresh(q)
    BY <1>1, <1>3, <2>2, BacktestAssumption DEF InPast, Fresh
  <2> QED BY <1>2, <2>1, <2>2, <2>3
<1>5. CASE Hold(t, low, close)
  <2> DEFINE q == Armed(p, close)
  <2>1. Kept(t, q, close) /\ ~TimedOut(p)
    BY <1>5 DEF Hold, Kept, minuteVars
  <2>2. /\ IsPosition(q) /\ OnLadder(q) /\ q.stop >= p.stop
        /\ q.opened = p.opened /\ q.since = p.since /\ q.lifted \in {p.lifted, minute}
    BY <1>1, ArmedKept
  <2> HIDE DEF q
  <2>3. InPast(q, minute)
    BY <1>1, <1>3, <2>2 DEF InPast
  <2>4. Fresh(q)
    BY <1>1, <1>3, <2>1, <2>2, BacktestAssumption DEF Fresh, TimedOut
  <2> QED BY <1>2, <2>1, <2>2, <2>3, <2>4
<1> QED BY <1>4, <1>5

LEMMA KeptBook ==
  ASSUME BookInv, NEW t \in Ticker, NEW q, NEW close \in Int, Kept(t, q, close),
         IsPosition(q), OnLadder(q), InPast(q, minute), Fresh(q), close > -StopLossPct
  PROVE  BookInv'
<1>1. /\ pc = "exits" /\ pc' = pc /\ minute' = minute /\ t \in todo /\ todo' = todo \ {t}
      /\ Open' = Open /\ t \in Open
      /\ positions'[t] = q
      /\ \A u \in Open \ {t} : positions'[u] = positions[u]
      /\ mark' = [mark EXCEPT ![t] = close]
  BY DEF Kept, Reviewed, BookInv, Open
<1>2. mark' \in [Ticker -> Int]
  BY <1>1 DEF BookInv
<1>3. RawEntry > -StopLossPct => \A u \in Ticker : mark'[u] > -StopLossPct
  BY <1>1 DEF BookInv
<1>4. \A u \in Open :
        IsPosition(positions'[u]) /\ OnLadder(positions'[u]) /\ InPast(positions'[u], minute)
  BY <1>1 DEF BookInv
<1>5. \A u \in Open' \ todo' : Fresh(positions'[u])
  BY <1>1 DEF BookInv
<1>6. \A u \in todo' : positions'[u].opened < minute /\ positions'[u].lifted < minute
  BY <1>1 DEF BookInv
<1> QED BY <1>1, <1>2, <1>3, <1>4, <1>5, <1>6 DEF BookInv, Fresh

LEMMA SoldBook ==
  ASSUME BookInv, NEW t \in Ticker, Sold(t), pc \in {"exits", "force"}
  PROVE  BookInv'
<1>1. /\ pc' = pc /\ minute' = minute /\ t \in todo /\ todo' = todo \ {t} /\ todo \subseteq Open
      /\ Open' = Open \ {t}
      /\ \A u \in Open' : positions'[u] = positions[u]
      /\ mark' = [mark EXCEPT ![t] = 0]
  BY DEF Sold, BookInv, Open
<1>2. mark' \in [Ticker -> Int]
  BY <1>1 DEF BookInv
<1>3. RawEntry > -StopLossPct => \A u \in Ticker : mark'[u] > -StopLossPct
  BY <1>1, TradeSettingsAssumption DEF BookInv
<1>4. IsFiniteSet(Open')
  BY <1>1, FS_RemoveElement DEF BookInv
<1>5. \A u \in Open' \ todo' : u \in Open \ todo
  BY <1>1
<1> QED BY <1>1, <1>2, <1>3, <1>4, <1>5 DEF BookInv, Fresh

LEMMA EnterBook ==
  ASSUME BookInv, NEW t \in Ticker, Enter(t)
  PROVE  /\ BookInv'
         /\ Open' = Open \cup {t} /\ t \notin Open
         /\ positions'[t] = OpenedPosition(t)
         /\ \A u \in Open : positions'[u] = positions[u]
<1>1. /\ pc = "entries" /\ pc' = pc /\ minute' = minute /\ minute \in Nat
      /\ positions' = [u \in Open \cup {t} |-> IF u = t THEN OpenedPosition(t) ELSE positions[u]]
      /\ mark' = [mark EXCEPT ![t] = RawEntry] /\ t \notin Open
  BY DEF Enter, Admitted, BookInv, minuteVars
<1>2. /\ Open' = Open \cup {t}
      /\ positions'[t] = OpenedPosition(t)
      /\ \A u \in Open : positions'[u] = positions[u]
  BY <1>1 DEF Open
<1>3. RawEntry \in Int
  BY BacktestAssumption DEF RawEntry
<1>4. /\ mark' \in [Ticker -> Int]
      /\ RawEntry > -StopLossPct => \A u \in Ticker : mark'[u] > -StopLossPct
  BY <1>1, <1>3 DEF BookInv
<1>5. IsFiniteSet(Open')
  BY <1>2, FS_AddElement DEF BookInv
<1> DEFINE q == OpenedPosition(t)
<1>6. /\ IsPosition(q) /\ OnLadder(q)
      /\ q.opened = minute /\ q.since = minute /\ q.lifted = 0
  BY <1>1, OpenedKept
<1> HIDE DEF q
<1>7. InPast(q, minute) /\ Fresh(q)
  BY <1>1, <1>6, BacktestAssumption DEF InPast, Fresh
<1>8. positions'[t] = q
  BY <1>2 DEF q
<1>9. \A u \in Open' :
        /\ IsPosition(positions'[u]) /\ OnLadder(positions'[u]) /\ InPast(positions'[u], minute)
        /\ Fresh(positions'[u])
  BY <1>1, <1>2, <1>6, <1>7, <1>8 DEF BookInv
<1>10. BookInv'
  BY <1>1, <1>2, <1>4, <1>5, <1>9 DEF BookInv, Fresh
<1> QED BY <1>1, <1>2, <1>10

\* A step of the replay keeps a position, sells one, buys one, or leaves them.
LEMMA BookSteps ==
  ASSUME BookInv, [Next]_vars
  PROVE  \/ \E t \in Ticker, low, close \in Price :
              low <= close /\ (Climb(t, low, close) \/ Hold(t, low, close))
         \/ \E t \in Ticker : Sold(t) /\ pc \in {"exits", "force"}
         \/ \E t \in Ticker : Enter(t)
         \/ \E t \in Ticker : Skip(t)
         \/ StartMinute \/ EndExits \/ EndMinute \/ Finish
         \/ UNCHANGED vars
<1>1. ASSUME NEW t \in Ticker, NEW low, NEW close,
             StopOut(t, low, close) \/ TakeProfit(t, low, close) \/ TimeOut(t, low, close)
      PROVE  Sold(t) /\ pc \in {"exits", "force"}
  BY <1>1 DEF StopOut, TakeProfit, TimeOut, Reviewed, Close, Sold, minuteVars
<1>2. ASSUME NEW t \in Ticker, ForceClose(t)
      PROVE  Sold(t) /\ pc \in {"exits", "force"}
  BY <1>2 DEF ForceClose, Close, Sold, minuteVars
<1> QED BY <1>1, <1>2 DEF Next, Done

LEMMA BookInit == Init => BookInv
<1> SUFFICES ASSUME Init PROVE BookInv
  OBVIOUS
<1>1. positions = <<>> /\ minute = 0 /\ pc = "minute" /\ mark = [t \in Ticker |-> 0]
  BY DEF Init
<1>2. Open = {}
  BY <1>1 DEF Open
<1> QED BY <1>1, <1>2, FS_EmptySet, TradeSettingsAssumption DEF BookInv

LEMMA BookStep == BookInv /\ [Next]_vars => BookInv'
<1> SUFFICES ASSUME BookInv, [Next]_vars PROVE BookInv'
  OBVIOUS
<1>1. ASSUME NEW t \in Ticker, NEW low \in Price, NEW close \in Price, low <= close,
             Climb(t, low, close) \/ Hold(t, low, close)
      PROVE  BookInv'
  <2>1. PICK q : /\ Kept(t, q, close)
                 /\ IsPosition(q) /\ OnLadder(q) /\ InPast(q, minute) /\ Fresh(q)
                 /\ close > -StopLossPct
    BY <1>1, KeptInOrder
  <2> QED BY <2>1, KeptBook, BacktestAssumption
<1>2. ASSUME NEW t \in Ticker, Sold(t), pc \in {"exits", "force"}
      PROVE  BookInv'
  BY <1>2, SoldBook
<1>3. ASSUME NEW t \in Ticker, Enter(t)
      PROVE  BookInv'
  BY <1>3, EnterBook
<1>4. ASSUME NEW t \in Ticker, Skip(t)
      PROVE  BookInv'
  BY <1>4 DEF Skip, BookInv, Fresh, bookVars, minuteVars, Open
<1>5. CASE StartMinute
  <2>1. /\ minute' = minute + 1 /\ pc' = "exits" /\ todo' = Open /\ positions' = positions
        /\ mark' = [t \in Ticker |-> 0] /\ minute \in Nat
    BY <1>5 DEF StartMinute, bookVars, BookInv
  <2>2. \A t \in Open : InPast(positions[t], minute + 1)
                        /\ positions[t].opened < minute + 1 /\ positions[t].lifted < minute + 1
    <3> SUFFICES ASSUME NEW t \in Open
                 PROVE  InPast(positions[t], minute + 1)
                        /\ positions[t].opened < minute + 1 /\ positions[t].lifted < minute + 1
      OBVIOUS
    <3>1. IsPosition(positions[t]) /\ InPast(positions[t], minute)
      BY DEF BookInv
    <3> QED BY <2>1, <3>1 DEF IsPosition, InPast
  <2>3. \A t \in Ticker : mark'[t] > -StopLossPct
    BY <2>1, TradeSettingsAssumption
  <2>4. mark' \in [Ticker -> Int]
    BY <2>1
  <2> QED BY <2>1, <2>2, <2>3, <2>4 DEF BookInv, Open
<1>6. CASE EndExits
  BY <1>6 DEF EndExits, BookInv, Fresh, bookVars, minuteVars, Open
<1>7. CASE EndMinute
  BY <1>7 DEF EndMinute, BookInv, Fresh, bookVars, Open
<1>8. CASE Finish
  BY <1>8 DEF Finish, BookInv, Fresh, bookVars, minuteVars, Open
<1>9. CASE UNCHANGED vars
  BY <1>9 DEF vars, BookInv, Fresh, bookVars, minuteVars, Open
<1> QED BY <1>1, <1>2, <1>3, <1>4, <1>5, <1>6, <1>7, <1>8, <1>9, BookSteps

LEMMA BookHolds == Spec => []BookInv
BY BookInit, BookStep, PTL DEF Spec

\* Once the exits of a minute are through, no position is past its deadline.
THEOREM NeverStaleHolds == Spec => []NeverStale
<1>1. BookInv => NeverStale
  BY DEF BookInv, NeverStale, Fresh
<1> QED BY <1>1, BookHolds, PTL

-----------------------------------------------------------------------------
\* The trades.

\* What one trade says of its price and of its minutes.
TellsPrice(x) ==
  /\ x.price >= -StopLossPct
  /\ x.reason = "stop_loss_exit" <=> x.price = -StopLossPct
  /\ x.reason = "break_even_stop_exit" => x.price = Entry
  /\ x.reason = "profit_ratchet_stop_exit" => x.price > Entry
  /\ x.reason = "take_profit_exit" => x.price >= TakeProfitPct
  /\ x.reason = "stale_timeout_exit" => x.closed - x.opened >= StaleMinutes
  /\ x.reason \in SummaryReasons

JudgedLater(x) ==
  x.reason # "end_of_backtest" =>
    /\ x.closed > x.opened
    /\ x.reason \in {"break_even_stop_exit", "profit_ratchet_stop_exit"} => x.closed > x.lifted

TradeInv ==
  /\ \E S : trades \in Seq(S)
  /\ \A i \in DOMAIN trades : JudgedLater(trades[i])
  /\ RawEntry > -StopLossPct => \A i \in DOMAIN trades : TellsPrice(trades[i])

\* The trade list grows by x.
Filed(x) ==
  /\ trades' = Append(trades, x)
  /\ JudgedLater(x)
  /\ RawEntry > -StopLossPct => TellsPrice(x)

LEMMA FiledTrade ==
  ASSUME TradeInv, NEW x, Filed(x)
  PROVE  TradeInv'
<1>1. PICK S : trades \in Seq(S)
  BY DEF TradeInv
<1> DEFINE T == S \cup {x}
<1>2. trades \in Seq(T) /\ x \in T
  <2>1. \A i \in 1..Len(trades) : trades[i] \in S
    BY <1>1
  <2>2. trades = [i \in 1..Len(trades) |-> trades[i]] /\ Len(trades) \in Nat
    BY <1>1
  <2> QED BY <2>1, <2>2, IsASeq
<1> HIDE DEF T
<1>3. /\ Append(trades, x) \in Seq(T)
      /\ DOMAIN Append(trades, x) = DOMAIN trades \cup {Len(trades) + 1}
      /\ \A i \in DOMAIN trades : Append(trades, x)[i] = trades[i]
      /\ Append(trades, x)[Len(trades) + 1] = x
  BY <1>2
<1> QED BY <1>3 DEF TradeInv, Filed

\* The reason a stop gives is that of its level.
LEMMA StopTellsPrice ==
  ASSUME NEW p, IsPosition(p), OnLadder(p)
  PROVE  LET event == InferExitEvent(p.stop, p.target, p.armed, p.stop, "none") IN
         /\ event = "stop_loss_exit" <=> p.stop = -StopLossPct
         /\ event = "break_even_stop_exit" => p.stop = Entry
         /\ event = "profit_ratchet_stop_exit" => p.stop > Entry
         /\ event \in {"stop_loss_exit", "break_even_stop_exit", "profit_ratchet_stop_exit"}
BY Levels, TradeSettingsAssumption
   DEF InferExitEvent, StopExitEvent, Entry, InitialStopLoss, IsPosition

\* Every closing files a trade in order.
LEMMA StopOutFiles ==
  ASSUME BookInv, NEW t \in Ticker, NEW low, NEW close, StopOut(t, low, close)
  PROVE  \E x : Filed(x)
<1> DEFINE p == positions[t]
           event == InferExitEvent(p.stop, p.target, p.armed, p.stop, "none")
<1>1. /\ IsPosition(p) /\ OnLadder(p)
      /\ p.opened < minute /\ p.lifted < minute /\ p.stop >= -StopLossPct
  BY ReviewedInOrder DEF StopOut
<1>2. /\ event = "stop_loss_exit" <=> p.stop = -StopLossPct
      /\ event = "break_even_stop_exit" => p.stop = Entry
      /\ event = "profit_ratchet_stop_exit" => p.stop > Entry
      /\ event \in {"stop_loss_exit", "break_even_stop_exit", "profit_ratchet_stop_exit"}
  BY <1>1, StopTellsPrice
<1>3. PICK x : /\ trades' = Append(trades, x)
               /\ x.opened = p.opened /\ x.closed = minute /\ x.lifted = p.lifted
               /\ x.reason = event /\ x.price = p.stop
  BY DEF StopOut, Close, AsFound
<1> HIDE DEF event
<1>4. JudgedLater(x)
  BY <1>1, <1>3 DEF JudgedLater
<1>5. TellsPrice(x)
  BY <1>1, <1>2, <1>3 DEF TellsPrice, SummaryReasons
<1> QED BY <1>3, <1>4, <1>5 DEF Filed

LEMMA TakeProfitFiles ==
  ASSUME BookInv, NEW t \in Ticker, NEW low \in Price, NEW close \in Price,
         TakeProfit(t, low, close)
  PROVE  \E x : Filed(x)
<1> DEFINE p == positions[t]
           price == IF RatchetEnabled THEN close ELSE p.target
<1>1. IsPosition(p) /\ OnLadder(p) /\ p.opened < minute /\ p.lifted < minute
  BY ReviewedInOrder DEF TakeProfit
<1>2. price \in Int /\ price >= TakeProfitPct
  <2>1. p.target \in Int /\ p.target >= TakeProfitPct
    BY <1>1, Levels
  <2>2. close \in Int /\ close >= p.target
    BY BacktestAssumption DEF TakeProfit
  <2> QED BY <2>1, <2>2, TradeSettingsAssumption
<1>3. PICK x : /\ trades' = Append(trades, x)
               /\ x.opened = p.opened /\ x.closed = minute /\ x.lifted = p.lifted
               /\ x.reason = "take_profit_exit" /\ x.price = price
  BY DEF TakeProfit, Close
<1> HIDE DEF price
<1>4. JudgedLater(x)
  BY <1>1, <1>3 DEF JudgedLater
<1>5. TellsPrice(x)
  BY <1>2, <1>3, TradeSettingsAssumption DEF TellsPrice, SummaryReasons
<1> QED BY <1>3, <1>4, <1>5 DEF Filed

LEMMA TimeOutFiles ==
  ASSUME BookInv, NEW t \in Ticker, NEW low \in Price, NEW close \in Price, low <= close,
         TimeOut(t, low, close)
  PROVE  \E x : Filed(x)
<1> DEFINE p == positions[t]
<1>1. /\ IsPosition(p) /\ InPast(p, minute) /\ minute \in Nat
      /\ p.opened < minute /\ p.lifted < minute
      /\ p.stop \in Int /\ p.stop >= -StopLossPct
  BY ReviewedInOrder DEF TimeOut
<1>2. close \in Int /\ close > -StopLossPct
  BY <1>1, BacktestAssumption, TradeSettingsAssumption DEF TimeOut
<1>3. minute - p.opened >= StaleMinutes
  BY <1>1, BacktestAssumption DEF TimeOut, TimedOut, InPast, IsPosition
<1>4. PICK x : /\ trades' = Append(trades, x)
               /\ x.opened = p.opened /\ x.closed = minute /\ x.lifted = p.lifted
               /\ x.reason = "stale_timeout_exit" /\ x.price = close
  BY DEF TimeOut, Close
<1>5. JudgedLater(x)
  BY <1>1, <1>4 DEF JudgedLater
<1>6. TellsPrice(x)
  BY <1>2, <1>3, <1>4, TradeSettingsAssumption DEF TellsPrice, SummaryReasons
<1> QED BY <1>4, <1>5, <1>6 DEF Filed

\* At the end the mark is what the last candle left, or the entry itself.
LEMMA ForceCloseFiles ==
  ASSUME BookInv, NEW t \in Ticker, ForceClose(t)
  PROVE  \E x : Filed(x)
<1>1. mark[t] \in Int /\ (RawEntry > -StopLossPct => mark[t] > -StopLossPct)
  BY DEF BookInv
<1>2. PICK x : /\ trades' = Append(trades, x)
               /\ x.reason = "end_of_backtest" /\ x.price = mark[t]
  BY DEF ForceClose, Close
<1>3. JudgedLater(x)
  BY <1>2 DEF JudgedLater
<1>4. RawEntry > -StopLossPct => TellsPrice(x)
  BY <1>1, <1>2, TradeSettingsAssumption DEF TellsPrice, SummaryReasons
<1> QED BY <1>2, <1>3, <1>4 DEF Filed

LEMMA TradeInit == Init => TradeInv
<1> SUFFICES ASSUME Init PROVE TradeInv
  OBVIOUS
<1>1. trades = <<>> /\ trades \in Seq({}) /\ DOMAIN trades = {}
  BY DEF Init
<1> QED BY <1>1 DEF TradeInv

LEMMA TradeStep == BookInv /\ TradeInv /\ [Next]_vars => TradeInv'
<1> SUFFICES ASSUME BookInv, TradeInv, [Next]_vars PROVE TradeInv'
  OBVIOUS
<1>1. CASE UNCHANGED trades
  BY <1>1 DEF TradeInv
<1>2. ASSUME NEW t \in Ticker, NEW low \in Price, NEW close \in Price, low <= close,
             StopOut(t, low, close) \/ TakeProfit(t, low, close) \/ TimeOut(t, low, close)
      PROVE  TradeInv'
  BY <1>2, StopOutFiles, TakeProfitFiles, TimeOutFiles, FiledTrade
<1>3. ASSUME NEW t \in Ticker, ForceClose(t)
      PROVE  TradeInv'
  BY <1>3, ForceCloseFiles, FiledTrade
<1>4. ASSUME NEW t \in Ticker, NEW low, NEW close, Climb(t, low, close) \/ Hold(t, low, close)
      PROVE  UNCHANGED trades
  BY <1>4 DEF Climb, Hold
<1>5. ASSUME NEW t \in Ticker, Enter(t) \/ Skip(t)
      PROVE  UNCHANGED trades
  BY <1>5 DEF Enter, Skip, bookVars
<1>6. CASE StartMinute \/ EndExits \/ EndMinute \/ Finish \/ UNCHANGED vars
  BY <1>1, <1>6 DEF StartMinute, EndExits, EndMinute, Finish, vars, bookVars
<1> QED BY <1>1, <1>2, <1>3, <1>4, <1>5, <1>6 DEF Next, Done

LEMMA TradesHold == Spec => []TradeInv
BY BookInit, BookStep, TradeInit, TradeStep, PTL DEF Spec

\* No trade is judged by a candle of the minute it was entered in, nor by one of the
\* minute its stop was lifted in.
THEOREM LaterCandlesHold == Spec => []LaterCandlesOnly
<1>1. TradeInv => LaterCandlesOnly
  BY DEF TradeInv, LaterCandlesOnly, JudgedLater
<1> QED BY <1>1, TradesHold, PTL

\* Where the slippage of an entry is less than the stop distance, no trade loses more
\* than that distance and every trade's reason tells the price it was sold at.
THEOREM ReasonsHold ==
  ASSUME RawEntry > -StopLossPct
  PROVE  Spec => []ReasonTellsPrice
<1>1. TradeInv => ReasonTellsPrice
  BY DEF TradeInv, ReasonTellsPrice, TellsPrice
<1> QED BY <1>1, TradesHold, PTL

-----------------------------------------------------------------------------
\* The abstract life of positions.

\* The stop under each position, as the refinement maps it.
Floor == [t \in Ticker |-> IF t \in Open THEN positions[t].stop ELSE InitialStopLoss]

LEMMA KeptLife ==
  ASSUME BookInv, NEW t \in Ticker, NEW q, NEW close, Kept(t, q, close),
         q.stop >= positions[t].stop
  PROVE  Life!RaiseStop(t)
<1>1. /\ t \in Open /\ Open' = Open /\ positions'[t] = q
      /\ \A u \in Open \ {t} : positions'[u] = positions[u]
  BY DEF Kept, Reviewed, BookInv, Open
<1>2. Floor'[t] >= Floor[t] /\ Floor' = [Floor EXCEPT ![t] = Floor'[t]]
  BY <1>1 DEF Floor
<1> QED BY <1>1, <1>2 DEF Life!RaiseStop, Floor

LEMMA SoldLife ==
  ASSUME BookInv, NEW t \in Ticker, Sold(t), pc \in {"exits", "force"}
  PROVE  Life!Leave(t)
<1>1. /\ t \in Open /\ Open' = Open \ {t}
      /\ \A u \in Open' : positions'[u] = positions[u]
  BY DEF Sold, BookInv, Open
<1>2. Floor' = [Floor EXCEPT ![t] = InitialStopLoss]
  BY <1>1 DEF Floor
<1> QED BY <1>1, <1>2 DEF Life!Leave, Floor

LEMMA EnterLife ==
  ASSUME BookInv, NEW t \in Ticker, Enter(t)
  PROVE  Life!Enter(t)
<1>1. /\ Open' = Open \cup {t} /\ t \notin Open
      /\ positions'[t] = OpenedPosition(t)
      /\ \A u \in Open : positions'[u] = positions[u]
  BY EnterBook
<1>2. OpenedPosition(t).stop = InitialStopLoss
  BY DEF OpenedPosition
<1>3. Floor' = Floor
  BY <1>1, <1>2 DEF Floor
<1>4. MaxOpenPositions > 0 => Cardinality(Open) < MaxOpenPositions
  <2>1. Cardinality(Open) \in Nat /\ MaxOpenPositions \in Nat
    BY FS_CardinalityType, BacktestAssumption DEF BookInv
  <2>2. ~AtLimit(Cardinality(Open), MaxOpenPositions)
    BY DEF Enter, Admitted
  <2> QED BY <2>1, <2>2 DEF AtLimit
<1>5. Life!Cardinality(Open) = Cardinality(Open)
  BY Zenon DEF Life!Cardinality, Cardinality
<1> QED BY <1>1, <1>3, <1>4, <1>5 DEF Life!Enter, Floor

LEMMA LifeStep == BookInv /\ [Next]_vars => [Life!LifeNext]_(Life!lifeVars)
<1> SUFFICES ASSUME BookInv, [Next]_vars
             PROVE  Life!LifeNext \/ UNCHANGED <<Open, Floor>>
  BY DEF Life!lifeVars, Floor
<1>1. ASSUME NEW t \in Ticker, NEW low \in Price, NEW close \in Price, low <= close,
             Climb(t, low, close) \/ Hold(t, low, close)
      PROVE  Life!LifeNext
  BY <1>1, KeptInOrder, KeptLife DEF Life!LifeNext
<1>2. ASSUME NEW t \in Ticker, Sold(t), pc \in {"exits", "force"}
      PROVE  Life!LifeNext
  BY <1>2, SoldLife DEF Life!LifeNext
<1>3. ASSUME NEW t \in Ticker, Enter(t)
      PROVE  Life!LifeNext
  BY <1>3, EnterLife DEF Life!LifeNext
<1>4. CASE UNCHANGED positions
  BY <1>4 DEF Open, Floor
<1>5. ASSUME NEW t \in Ticker, Skip(t)
      PROVE  UNCHANGED positions
  BY <1>5 DEF Skip, bookVars
<1>6. CASE StartMinute \/ EndExits \/ EndMinute \/ Finish \/ UNCHANGED vars
  BY <1>4, <1>6 DEF StartMinute, EndExits, EndMinute, Finish, vars, bookVars
<1> QED BY <1>1, <1>2, <1>3, <1>4, <1>5, <1>6, BookSteps

\* The backtest implements the abstract life of positions, as local execution does.
THEOREM BacktestImplementsLifecycle == Spec => ImplementsLifecycle
<1>1. Init => Life!LifeInit
  <2> SUFFICES ASSUME Init PROVE Life!LifeInit
    OBVIOUS
  <2>1. Open = {}
    BY DEF Init, Open
  <2> QED BY <2>1 DEF Life!LifeInit
<1> QED
  BY <1>1, BookInit, BookStep, LifeStep, PTL
  DEF Spec, ImplementsLifecycle, Life!LifeSpec

-----------------------------------------------------------------------------
\* The candles after an exit.

\* The bars since trade i was closed.
BarsSince(i) == minute - trades[i].closed

\* The trades still followed, and how the tracker of one of them stands.
Unfinished == {i \in DOMAIN trades : BarsSince(i) < PostExitBars}
TrackerOf(i) == [trade |-> i, left |-> PostExitBars - BarsSince(i)]

\* Until the replay ends, every trade younger than PostExitBars has its one
\* tracker, which has the bars left that its age leaves it, and every older one is
\* followed.
FollowInv ==
  /\ \A i \in DOMAIN trades : trades[i].closed \in Nat /\ trades[i].closed <= minute
  /\ IF pc = "done"
     THEN \A i \in DOMAIN trades :
            i \in followed <=> PostExitBars > 0 /\ BarsSince(i) >= Min({PostExitBars, 2})
     ELSE /\ \A k : k \in trackers <=> \E i \in Unfinished : k = TrackerOf(i)
          /\ \A i : i \in followed <=>
               i \in DOMAIN trades /\ PostExitBars > 0 /\ BarsSince(i) >= PostExitBars

LEMMA LeastBars ==
  /\ PostExitBars \in Nat
  /\ PostExitBars <= 2 => Min({PostExitBars, 2}) = PostExitBars
  /\ PostExitBars >= 2 => Min({PostExitBars, 2}) = 2
<1>1. PostExitBars \in Nat
  BY BacktestAssumption
<1>2. CASE PostExitBars <= 2
  <2>1. \A x \in {PostExitBars, 2} :
          (\A y \in {PostExitBars, 2} : x <= y) <=> x = PostExitBars
    BY <1>1, <1>2
  <2> QED BY <1>1, <1>2, <2>1 DEF Min
<1>3. CASE PostExitBars > 2
  <2>1. \A x \in {PostExitBars, 2} : (\A y \in {PostExitBars, 2} : x <= y) <=> x = 2
    BY <1>1, <1>3
  <2> QED BY <1>1, <1>3, <2>1 DEF Min
<1> QED BY <1>1, <1>2, <1>3

\* A closing gives its trade a tracker of all the bars.
Tracked(x) ==
  /\ trades' = Append(trades, x) /\ x.closed = minute
  /\ trackers' = IF PostExitBars > 0
                 THEN trackers \cup {[trade |-> Len(trades) + 1, left |-> PostExitBars]}
                 ELSE trackers
  /\ UNCHANGED <<followed, minute, pc>> /\ pc # "done"

\* What a step does to trades and trackers.
LEMMA FollowSteps ==
  ASSUME [Next]_vars
  PROVE  \/ \E x : Tracked(x)
         \/ StartMinute \/ Finish
         \/ UNCHANGED <<trades, minute, trackers, followed>> /\ (pc' = "done" <=> pc = "done")
<1>1. ASSUME NEW t \in Ticker, NEW low, NEW close,
             StopOut(t, low, close) \/ TakeProfit(t, low, close) \/ TimeOut(t, low, close)
      PROVE  \E x : Tracked(x)
  BY <1>1 DEF StopOut, TakeProfit, TimeOut, Reviewed, Close, Tracked, minuteVars
<1>2. ASSUME NEW t \in Ticker, ForceClose(t)
      PROVE  \E x : Tracked(x)
  BY <1>2 DEF ForceClose, Close, Tracked, minuteVars
<1>3. ASSUME NEW t \in Ticker, NEW low, NEW close, Climb(t, low, close) \/ Hold(t, low, close)
      PROVE  UNCHANGED <<trades, minute, trackers, followed, pc>>
  BY <1>3 DEF Climb, Hold, followVars, minuteVars
<1>4. ASSUME NEW t \in Ticker, Enter(t) \/ Skip(t)
      PROVE  UNCHANGED <<trades, minute, trackers, followed, pc>>
  BY <1>4 DEF Enter, Skip, bookVars, followVars, minuteVars
<1>5. CASE EndExits \/ EndMinute \/ UNCHANGED vars
  BY <1>5 DEF EndExits, EndMinute, vars, bookVars, followVars, minuteVars
<1> QED BY <1>1, <1>2, <1>3, <1>4, <1>5 DEF Next, Done

LEMMA FollowInit == Init => FollowInv
<1> SUFFICES ASSUME Init PROVE FollowInv
  OBVIOUS
<1>1. DOMAIN trades = {} /\ trackers = {} /\ followed = {} /\ pc # "done"
  BY DEF Init
<1> QED BY <1>1 DEF FollowInv, Unfinished

LEMMA FollowStep == BookInv /\ TradeInv /\ FollowInv /\ [Next]_vars => FollowInv'
<1> SUFFICES ASSUME BookInv, TradeInv, FollowInv, [Next]_vars PROVE FollowInv'
  OBVIOUS
<1>a. minute \in Nat /\ PostExitBars \in Nat
  BY LeastBars DEF BookInv
<1>b. \A i \in DOMAIN trades : trades[i].closed \in Nat /\ BarsSince(i) \in Nat
  BY <1>a DEF FollowInv, BarsSince
<1>1. CASE UNCHANGED <<trades, minute, trackers, followed>> /\ (pc' = "done" <=> pc = "done")
  BY <1>1 DEF FollowInv, Unfinished, TrackerOf, BarsSince
<1>2. ASSUME NEW x, Tracked(x)
      PROVE  FollowInv'
  <2>0. PICK n : n = Len(trades) + 1
    OBVIOUS
  <2>1. /\ DOMAIN trades' = DOMAIN trades \cup {n} /\ n \notin DOMAIN trades
        /\ \A i \in DOMAIN trades : trades'[i] = trades[i]
        /\ trades'[n] = x
    <3>1. PICK S : trades \in Seq(S)
      BY DEF TradeInv
    <3>2. DOMAIN trades = 1..Len(trades) /\ Len(trades) \in Nat
      BY <3>1
    <3> QED BY <1>2, <2>0, <3>1, <3>2 DEF Tracked
  <2>2. /\ x.closed = minute /\ minute' = minute /\ pc' = pc /\ pc # "done"
        /\ followed' = followed
        /\ trackers' = IF PostExitBars > 0
                       THEN trackers \cup {[trade |-> n, left |-> PostExitBars]} ELSE trackers
    BY <1>2, <2>0 DEF Tracked
  <2>3. /\ \A i \in DOMAIN trades : BarsSince(i)' = BarsSince(i)
        /\ BarsSince(n)' = 0
    BY <1>a, <2>1, <2>2 DEF BarsSince
  <2>4. /\ \A i \in DOMAIN trades : TrackerOf(i)' = TrackerOf(i)
        /\ TrackerOf(n)' = [trade |-> n, left |-> PostExitBars]
    BY <1>a, <2>3 DEF TrackerOf
  <2>5. \A i : i \in Unfinished' <=> i \in Unfinished \/ (i = n /\ PostExitBars > 0)
    BY <1>a, <2>1, <2>3 DEF Unfinished
  <2>6. \A k : k \in trackers' <=> \E i \in Unfinished' : k = TrackerOf(i)'
    <3>1. \A k : k \in trackers <=> \E i \in Unfinished : k = TrackerOf(i)
      BY <2>2 DEF FollowInv
    <3>2. Unfinished \subseteq DOMAIN trades
      BY DEF Unfinished
    <3> QED BY <2>2, <2>4, <2>5, <3>1, <3>2
  <2>7. \A i : i \in followed' <=>
          i \in DOMAIN trades' /\ PostExitBars > 0 /\ BarsSince(i)' >= PostExitBars
    <3>1. \A i : i \in followed <=>
            i \in DOMAIN trades /\ PostExitBars > 0 /\ BarsSince(i) >= PostExitBars
      BY <2>2 DEF FollowInv
    <3> QED BY <1>a, <2>1, <2>2, <2>3, <3>1
  <2>8. \A i \in DOMAIN trades' : trades'[i].closed \in Nat /\ trades'[i].closed <= minute'
    BY <1>a, <2>1, <2>2 DEF FollowInv
  <2> QED BY <2>2, <2>6, <2>7, <2>8 DEF FollowInv
<1>3. CASE StartMinute
  <2> DEFINE seen == {[k EXCEPT !.left = @ - 1] : k \in trackers}
  <2>1. /\ minute' = minute + 1 /\ trades' = trades /\ pc # "done" /\ pc' # "done"
        /\ trackers' = {k \in seen : ~Spent(k.left)}
        /\ followed' = followed \cup {k.trade : k \in {j \in seen : Spent(j.left)}}
    BY <1>3 DEF StartMinute, FollowUp, bookVars
  <2>2. \A i \in DOMAIN trades : BarsSince(i)' = BarsSince(i) + 1
    BY <1>a, <1>b, <2>1 DEF BarsSince
  <2>3. /\ \A k : k \in trackers <=> \E i \in Unfinished : k = TrackerOf(i)
        /\ \A i : i \in followed <=>
             i \in DOMAIN trades /\ PostExitBars > 0 /\ BarsSince(i) >= PostExitBars
    BY <2>1 DEF FollowInv
  <2>4. \A i \in DOMAIN trades :
          TrackerOf(i)' = [trade |-> i, left |-> PostExitBars - (BarsSince(i) + 1)]
    BY <2>2 DEF TrackerOf
  <2>5. \A k : k \in seen <=> \E i \in Unfinished : k = TrackerOf(i)'
    <3>1. \A i \in Unfinished :
            i \in DOMAIN trades /\ [TrackerOf(i) EXCEPT !.left = @ - 1] = TrackerOf(i)'
      BY <1>a, <1>b, <2>4 DEF TrackerOf, Unfinished
    <3> QED BY <2>3, <3>1
  <2> HIDE DEF seen
  <2>6. \A i : i \in Unfinished' <=> i \in Unfinished /\ ~Spent(TrackerOf(i)'.left)
    BY <1>a, <1>b, <2>1, <2>2, <2>4 DEF Unfinished, Spent
  <2>7. \A k : k \in trackers' <=> \E i \in Unfinished' : k = TrackerOf(i)'
    BY <2>1, <2>5, <2>6
  <2>8. \A i : i \in followed' <=>
          i \in followed \/ (i \in Unfinished /\ Spent(TrackerOf(i)'.left))
    <3>1. \A i \in Unfinished : TrackerOf(i)'.trade = i
      BY <2>4 DEF Unfinished
    <3> QED BY <2>1, <2>5, <3>1
  <2>9. \A i : i \in followed' <=>
          i \in DOMAIN trades' /\ PostExitBars > 0 /\ BarsSince(i)' >= PostExitBars
    BY <1>a, <1>b, <2>1, <2>2, <2>3, <2>4, <2>8 DEF Unfinished, Spent
  <2>10. \A i \in DOMAIN trades' : trades'[i].closed \in Nat /\ trades'[i].closed <= minute'
    BY <1>a, <2>1 DEF FollowInv
  <2> QED BY <2>1, <2>7, <2>9, <2>10 DEF FollowInv
<1>4. CASE Finish
  <2>1. /\ minute' = minute /\ trades' = trades /\ pc # "done" /\ pc' = "done"
        /\ followed' = followed \cup {k.trade : k \in {j \in trackers : EnoughSeen(j)}}
    BY <1>4 DEF Finish, bookVars, minuteVars
  <2>2. /\ \A k : k \in trackers <=> \E i \in Unfinished : k = TrackerOf(i)
        /\ \A i : i \in followed <=>
             i \in DOMAIN trades /\ PostExitBars > 0 /\ BarsSince(i) >= PostExitBars
    BY <2>1 DEF FollowInv
  <2>3. \A i \in Unfinished :
          TrackerOf(i).trade = i /\ (EnoughSeen(TrackerOf(i)) <=> BarsSince(i) > 1)
    BY <1>a, <1>b DEF TrackerOf, Unfinished, EnoughSeen
  <2>4. \A i : i \in followed' <=> i \in followed \/ (i \in Unfinished /\ BarsSince(i) > 1)
    BY <2>1, <2>2, <2>3
  <2>5. \A i \in DOMAIN trades :
          i \in followed' <=> PostExitBars > 0 /\ BarsSince(i) >= Min({PostExitBars, 2})
    BY <1>a, <1>b, <2>2, <2>4, LeastBars DEF Unfinished
  <2> QED BY <2>1, <2>5 DEF FollowInv, BarsSince
<1> QED BY <1>1, <1>2, <1>3, <1>4, FollowSteps

\* Every trade is followed for the PostExitBars candles after its exit and not one
\* more, whenever it was closed and whatever else is followed; a replay that ends
\* sooner keeps what at least two of them showed.
THEOREM FollowedHolds == Spec => []FollowedToTheBar
<1>1. BookInv /\ FollowInv => FollowedToTheBar
  <2> SUFFICES ASSUME BookInv, FollowInv, NEW i \in DOMAIN trades
               PROVE  IF pc = "done"
                      THEN i \in followed <=>
                             PostExitBars > 0 /\ BarsSince(i) >= Min({PostExitBars, 2})
                      ELSE /\ i \in followed <=> PostExitBars > 0 /\ BarsSince(i) >= PostExitBars
                           /\ {k.left : k \in {j \in trackers : j.trade = i}} =
                                {left \in 1..PostExitBars : left = PostExitBars - BarsSince(i)}
    BY DEF FollowedToTheBar, BarsSince
  <2>1. PostExitBars \in Nat /\ BarsSince(i) \in Nat
    BY LeastBars DEF BookInv, FollowInv, BarsSince
  <2>2. ASSUME pc # "done"
        PROVE  {k.left : k \in {j \in trackers : j.trade = i}} =
                 {left \in 1..PostExitBars : left = PostExitBars - BarsSince(i)}
    <3>1. \A k : k \in trackers <=> \E j \in Unfinished : k = TrackerOf(j)
      BY <2>2 DEF FollowInv
    <3>2. \A j : TrackerOf(j).trade = j /\ TrackerOf(j).left = PostExitBars - BarsSince(j)
      BY DEF TrackerOf
    <3>3. \A k : k \in trackers /\ k.trade = i <=> i \in Unfinished /\ k = TrackerOf(i)
      BY <3>1, <3>2
    <3>4. i \in Unfinished <=> PostExitBars - BarsSince(i) \in 1..PostExitBars
      BY <2>1 DEF Unfinished
    <3> QED BY <3>2, <3>3, <3>4
  <2> QED BY <2>2 DEF FollowInv
<1> QED BY <1>1, FollowInit, FollowStep, BookHolds, TradesHold, PTL DEF Spec

-----------------------------------------------------------------------------
\* The money.

LEMMA Division ==
  ASSUME NEW n \in Int, NEW b \in Nat \ {0}
  PROVE  n \div b \in Int /\ b * (n \div b) <= n /\ n < b * ((n \div b) + 1)
OBVIOUS

LEMMA DivisionGrows ==
  ASSUME NEW m \in Int, NEW n \in Int, m <= n, NEW b \in Nat \ {0}
  PROVE  m \div b <= n \div b
<1> DEFINE p == m \div b
           q == n \div b
<1>1. p \in Int /\ q \in Int /\ b * p <= m /\ n < b * (q + 1)
  BY Division
<1> HIDE DEF p, q
<1>2. b * p < b * (q + 1)
  BY <1>1
<1>3. p < q + 1
  BY <1>1, <1>2
<1> QED BY <1>1, <1>3 DEF p, q

LEMMA AmountTypes ==
  ASSUME NEW lots \in Int, NEW price \in Int
  PROVE  /\ RawEntry \in Int /\ ExitFill(price) \in Int
         /\ EntryFee(lots) \in Int /\ ExitFee(lots, price) \in Int /\ Gross(lots, price) \in Int
<1>1. /\ Scale \in Nat \ {0} /\ SlippageUnits \in Nat /\ FeeUnits \in Nat
      /\ Scale * Scale \in Int /\ Scale + SlippageUnits \in Nat \ {0}
      /\ (Scale + price) * (Scale - SlippageUnits) \in Int
  BY BacktestAssumption
<1>2. RawEntry \in Int
  BY <1>1, Division DEF RawEntry
<1>3. ExitFill(price) \in Int
  BY <1>1, Division DEF ExitFill
<1>4. EntryFee(lots) \in Int
  BY <1>1 DEF EntryFee
<1>5. ExitFee(lots, price) \in Int
  BY <1>1, <1>3 DEF ExitFee
<1>6. Gross(lots, price) \in Int
  BY <1>1, <1>3 DEF Gross
<1> QED BY <1>2, <1>3, <1>4, <1>5, <1>6

\* g is f with one summand more.
Extends(g, f, x) ==
  /\ x \notin DOMAIN f /\ DOMAIN g = DOMAIN f \cup {x}
  /\ \A y \in DOMAIN f : g[y] = f[y]

LEMMA SumExtended ==
  ASSUME NEW f, NEW g, NEW x, Extends(g, f, x), IsFiniteSet(DOMAIN f),
         \A y \in DOMAIN g : g[y] \in Int
  PROVE  SumFunction(g) = g[x] + SumFunction(f)
<1>1. IsFiniteSet(DOMAIN g) /\ x \in DOMAIN g /\ (DOMAIN g) \ {x} = DOMAIN f
  BY FS_AddElement DEF Extends
<1>2. SumFunctionOnSet(g, DOMAIN g) = g[x] + SumFunctionOnSet(g, DOMAIN f)
  BY <1>1, SumWithout
<1>3. SumFunctionOnSet(g, DOMAIN f) = SumFunctionOnSet(f, DOMAIN f)
  BY <1>1, SumsEqual DEF Extends
<1> QED BY <1>2, <1>3 DEF SumFunction

EntryFees == [t \in Open |-> EntryFee(positions[t].lots)]
Nets == [i \in DOMAIN trades |-> trades[i].net]

\* The ledger, with the types and places it needs: what is left of the last loop is
\* what is open, and no trade is dated after the end.
LedgerInv ==
  /\ realizedGross \in Int /\ totalFees \in Int
  /\ \A t \in Open : positions[t].lots \in Nat \ {0}
  /\ \A i \in DOMAIN trades : trades[i].net \in Int /\ trades[i].closed \in 0..Minutes
  /\ minute <= Minutes
  /\ pc = "force" => todo = Open
  /\ pc = "done" => Open = {}
  /\ Wallet + SumFunction(EntryFees) = StartingEquity + SumFunction(Nets)

LEMMA LedgerSums ==
  ASSUME BookInv, TradeInv, LedgerInv
  PROVE  /\ \A t \in Open : EntryFees[t] \in Int
         /\ SumFunction(EntryFees) \in Int /\ SumFunction(Nets) \in Int
         /\ IsFiniteSet(DOMAIN EntryFees) /\ IsFiniteSet(DOMAIN Nets)
         /\ Wallet \in Int /\ StartingEquity \in Int
<1>1. \A t \in Open : EntryFees[t] \in Int
  <2>1. \A lots \in Int : EntryFee(lots) \in Int
    BY AmountTypes
  <2>2. \A t \in Open : positions[t].lots \in Int
    BY DEF LedgerInv
  <2> QED BY <2>1, <2>2 DEF EntryFees
<1>2. IsFiniteSet(DOMAIN EntryFees)
  BY DEF EntryFees, BookInv
<1>3. IsFiniteSet(DOMAIN Nets)
  <2>1. PICK S : trades \in Seq(S)
    BY DEF TradeInv
  <2>2. DOMAIN Nets = 1..Len(trades) /\ Len(trades) \in Nat
    BY <2>1 DEF Nets
  <2> QED BY <2>2, FS_Interval
<1>4. SumFunction(EntryFees) \in Int
  BY <1>1, <1>2, SumIsInt DEF SumFunction, EntryFees
<1>5. SumFunction(Nets) \in Int
  BY <1>3, SumIsInt DEF SumFunction, Nets, LedgerInv
<1> QED BY <1>1, <1>2, <1>3, <1>4, <1>5, BacktestAssumption DEF LedgerInv, Wallet

\* The gross exposure allowed leaves room for what is bought.
LEMMA Sized ==
  ASSUME BookInv, TradeInv, LedgerInv
  PROVE  /\ Exposure \in Int /\ Lots \in Nat
         /\ Lots > 0 => (Exposure + Lots * LotCost) * 100 <= Wallet * MaxExposurePercent
<1>1. /\ Wallet \in Int /\ RiskPct \in Nat /\ StopLossPct \in Nat \ {0}
      /\ MaxExposurePercent \in Nat /\ LotCost \in Nat \ {0}
  <2>1. \A n \in Nat \ {0} : n * n \in Nat \ {0}
    OBVIOUS
  <2> QED BY <2>1, LedgerSums, BacktestAssumption, TradeSettingsAssumption DEF LotCost
<1>2. Exposure \in Int
  <2> DEFINE f == [t \in Open |-> positions[t].lots * Scale * (Scale + mark[t])]
  <2>1. \A t \in Open : f[t] \in Int
    BY BacktestAssumption DEF BookInv, LedgerInv
  <2>2. IsFiniteSet(DOMAIN f)
    BY DEF BookInv
  <2>3. SumFunction(f) \in Int
    BY <2>1, <2>2, SumIsInt DEF SumFunction
  <2> QED BY <2>3 DEF Exposure
<1> DEFINE risk == (Wallet * RiskPct) \div StopLossPct
           cap == (Wallet * MaxExposurePercent) \div 100
<1>3. risk \in Int /\ cap \in Int /\ 100 * cap <= Wallet * MaxExposurePercent
  <2>1. Wallet * RiskPct \in Int /\ Wallet * MaxExposurePercent \in Int
    BY <1>1
  <2> QED BY <1>1, <2>1, Division
<1> HIDE DEF risk, cap
<1>4. Target \in Int /\ Target <= cap - Exposure
  <2> DEFINE two == {risk, cap - Exposure}
  <2>1. \E m \in two : \A n \in two : m <= n
    BY <1>2, <1>3
  <2>2. Min(two) \in two /\ \A n \in two : Min(two) <= n
    BY <2>1 DEF Min
  <2>3. Target = Min(two)
    BY DEF Target, risk, cap
  <2> QED BY <1>2, <1>3, <2>2, <2>3
<1>5. Lots \in Nat /\ (Lots > 0 => Lots * LotCost <= Target)
  <2>1. CASE Target <= 0
    BY <2>1 DEF Lots
  <2>2. CASE Target > 0
    <3> DEFINE q == Target \div LotCost
    <3>1. q \in Int /\ LotCost * q <= Target /\ Target < LotCost * (q + 1)
      BY <1>1, <1>4, Division
    <3>2. Lots = q
      BY <1>4, <2>2 DEF Lots
    <3> HIDE DEF q
    <3>3. q >= 0
      BY <1>1, <1>4, <2>2, <3>1
    <3> QED BY <1>1, <3>1, <3>2, <3>3
  <2> QED BY <1>4, <2>1, <2>2
<1>6. Lots * LotCost \in Int
  BY <1>1, <1>5
<1> HIDE DEF Lots, LotCost, Target, Exposure, Wallet
<1>7. ASSUME Lots > 0
      PROVE  (Exposure + Lots * LotCost) * 100 <= Wallet * MaxExposurePercent
  <2> DEFINE cost == Lots * LotCost
             allowed == Wallet * MaxExposurePercent
  <2>1. cost \in Int /\ cost <= Target /\ allowed \in Int /\ 100 * cap <= allowed
    BY <1>1, <1>3, <1>5, <1>6, <1>7
  <2> HIDE DEF cost, allowed
  <2>2. (Exposure + cost) * 100 <= allowed
    BY <1>2, <1>3, <1>4, <2>1
  <2> QED BY <2>2 DEF cost, allowed
<1> QED BY <1>2, <1>5, <1>7

\* A closing, whatever led to it.
ClosedAt(t, price, reason) ==
  /\ t \in todo /\ todo' = todo \ {t} /\ t \in Open
  /\ Close(t, positions[t], price, reason)
  /\ price \in Int /\ (price >= -StopLossPct \/ price = mark[t])
  /\ reason \in ExitReason
  /\ pc \in {"exits", "force"} /\ UNCHANGED <<minuteVars, pc>>

LEMMA Closings ==
  ASSUME BookInv, NEW t \in Ticker
  PROVE  /\ \A low, close \in Price :
              /\ low <= close
              /\ StopOut(t, low, close) \/ TakeProfit(t, low, close) \/ TimeOut(t, low, close)
              => \E price, reason : ClosedAt(t, price, reason) /\ closed' = closed \cup {t}
         /\ ForceClose(t) =>
              \E price, reason : ClosedAt(t, price, reason) /\ closed' = closed
<1>1. ASSUME NEW low \in Price, NEW close \in Price, low <= close, StopOut(t, low, close)
      PROVE  \E price, reason : ClosedAt(t, price, reason) /\ closed' = closed \cup {t}
  <2> DEFINE p == positions[t]
             event == InferExitEvent(p.stop, p.target, p.armed, p.stop, "none")
  <2>1. Reviewed(t) /\ Close(t, p, p.stop, event)
    BY <1>1 DEF StopOut, AsFound
  <2>2. t \in Open /\ p.stop \in Int /\ p.stop >= -StopLossPct /\ IsPosition(p) /\ OnLadder(p)
    BY <2>1, ReviewedInOrder
  <2>3. event \in ExitReason
    BY <2>2, StopTellsPrice DEF ExitReason, ExitEvents
  <2> HIDE DEF event
  <2>4. ClosedAt(t, p.stop, event) /\ closed' = closed \cup {t}
    BY <1>1, <2>1, <2>2, <2>3 DEF ClosedAt, Reviewed, StopOut
  <2> QED BY <2>4
<1>2. ASSUME NEW low \in Price, NEW close \in Price, low <= close, TakeProfit(t, low, close)
      PROVE  \E price, reason : ClosedAt(t, price, reason) /\ closed' = closed \cup {t}
  <2> DEFINE p == positions[t]
             price == IF RatchetEnabled THEN close ELSE p.target
  <2>1. Reviewed(t) /\ Close(t, p, price, "take_profit_exit") /\ close >= p.target
    BY <1>2 DEF TakeProfit
  <2>2. t \in Open /\ IsPosition(p) /\ OnLadder(p)
    BY <2>1, ReviewedInOrder
  <2>3. price \in Int /\ price >= -StopLossPct
    <3>1. p.target \in Int /\ p.target >= TakeProfitPct
      BY <2>2, Levels
    <3> QED BY <2>1, <3>1, BacktestAssumption, TradeSettingsAssumption
  <2> HIDE DEF price
  <2>4. ClosedAt(t, price, "take_profit_exit") /\ closed' = closed \cup {t}
    BY <1>2, <2>1, <2>2, <2>3 DEF ClosedAt, Reviewed, TakeProfit, ExitReason, ExitEvents
  <2> QED BY <2>4
<1>3. ASSUME NEW low \in Price, NEW close \in Price, low <= close, TimeOut(t, low, close)
      PROVE  \E price, reason : ClosedAt(t, price, reason) /\ closed' = closed \cup {t}
  <2>1. Reviewed(t) /\ Close(t, positions[t], close, "stale_timeout_exit")
    BY <1>3 DEF TimeOut
  <2>2. t \in Open /\ positions[t].stop \in Int /\ positions[t].stop >= -StopLossPct
    BY <2>1, ReviewedInOrder
  <2>3. close \in Int /\ close >= -StopLossPct
    BY <1>3, <2>2, BacktestAssumption, TradeSettingsAssumption DEF TimeOut
  <2>4. ClosedAt(t, close, "stale_timeout_exit") /\ closed' = closed \cup {t}
    BY <1>3, <2>1, <2>2, <2>3 DEF ClosedAt, Reviewed, TimeOut, ExitReason, ExitEvents
  <2> QED BY <2>4
<1>4. ASSUME ForceClose(t)
      PROVE  \E price, reason : ClosedAt(t, price, reason) /\ closed' = closed
  <2>1. pc = "force" /\ t \in todo /\ Close(t, positions[t], mark[t], "end_of_backtest")
    BY <1>4 DEF ForceClose
  <2>2. t \in Open /\ mark[t] \in Int
    BY <2>1 DEF BookInv
  <2>3. ClosedAt(t, mark[t], "end_of_backtest") /\ closed' = closed
    BY <1>4, <2>1, <2>2 DEF ClosedAt, ForceClose, ExitReason
  <2> QED BY <2>3
<1> QED BY <1>1, <1>2, <1>3, <1>4

\* What a step does to the book and the ledger.
LEMMA LedgerSteps ==
  ASSUME BookInv, [Next]_vars
  PROVE  \/ \E t \in Ticker : \E price, reason : ClosedAt(t, price, reason)
         \/ \E t \in Ticker : Enter(t)
         \/ /\ Open' = Open
            /\ \A t \in Open : /\ positions'[t].lots = positions[t].lots
                               /\ positions'[t].cluster = positions[t].cluster
            /\ UNCHANGED <<trades, realizedGross, totalFees, stopLossesOf>>
            /\ minute' = minute \/ (minute < Minutes /\ minute' = minute + 1)
            /\ pc' = "force" => \/ todo' = Open
                                \/ pc = "force" /\ todo' = todo
            /\ pc' = "done" => pc = "done" \/ (pc = "force" /\ todo = {})
<1>1. ASSUME NEW t \in Ticker, NEW low \in Price, NEW close \in Price, low <= close,
             Climb(t, low, close) \/ Hold(t, low, close)
      PROVE  /\ Open' = Open
             /\ \A u \in Open : /\ positions'[u].lots = positions[u].lots
                                /\ positions'[u].cluster = positions[u].cluster
             /\ pc' = pc /\ pc = "exits" /\ minute' = minute
             /\ UNCHANGED <<trades, realizedGross, totalFees, stopLossesOf>>
  <2>1. t \in Open /\ pc' = pc /\ pc = "exits" /\ minute' = minute
    BY <1>1 DEF Climb, Hold, Reviewed, BookInv, minuteVars
  <2>2. PICK q : /\ positions' = [positions EXCEPT ![t] = q]
                 /\ q.lots = positions[t].lots /\ q.cluster = positions[t].cluster
    <3> DEFINE p == positions[t]
    <3>1. ASSUME Climb(t, low, close)
          PROVE  positions' = [positions EXCEPT ![t] = ClimbedPosition(p, minute)]
      BY <3>1 DEF Climb, ClimbedPosition
    <3>2. ASSUME Hold(t, low, close)
          PROVE  positions' = [positions EXCEPT ![t] = Armed(p, close)]
      BY <3>2 DEF Hold
    <3>3. /\ ClimbedPosition(p, minute).lots = p.lots
          /\ ClimbedPosition(p, minute).cluster = p.cluster
      BY DEF ClimbedPosition
    <3>4. Armed(p, close).lots = p.lots /\ Armed(p, close).cluster = p.cluster
      BY DEF Armed
    <3> QED BY <1>1, <3>1, <3>2, <3>3, <3>4
  <2>3. UNCHANGED <<trades, realizedGross, totalFees, stopLossesOf>>
    BY <1>1 DEF Climb, Hold
  <2> QED BY <2>1, <2>2, <2>3 DEF Open
<1>2. ASSUME NEW t \in Ticker, NEW low \in Price, NEW close \in Price, low <= close,
             StopOut(t, low, close) \/ TakeProfit(t, low, close) \/ TimeOut(t, low, close)
      PROVE  \E price, reason : ClosedAt(t, price, reason)
  BY <1>2, Closings
<1>3. ASSUME NEW t \in Ticker, ForceClose(t)
      PROVE  \E price, reason : ClosedAt(t, price, reason)
  BY <1>3, Closings
<1>4. ASSUME NEW t \in Ticker, Skip(t)
      PROVE  UNCHANGED <<bookVars, minute, pc>> /\ pc = "entries"
  BY <1>4 DEF Skip, minuteVars
<1>5. CASE StartMinute
  BY <1>5 DEF StartMinute, bookVars, Open
<1>6. CASE EndExits
  BY <1>6 DEF EndExits, bookVars, minuteVars, Open
<1>7. CASE EndMinute
  BY <1>7 DEF EndMinute, bookVars, Open
<1>8. CASE Finish
  BY <1>8 DEF Finish, bookVars, minuteVars, Open
<1>9. CASE UNCHANGED vars
  BY <1>9 DEF vars, bookVars, minuteVars, Open
<1>10. ASSUME NEW t \in Ticker, Skip(t)
       PROVE  /\ Open' = Open /\ positions' = positions /\ minute' = minute
              /\ pc' = pc /\ pc = "entries"
              /\ UNCHANGED <<trades, realizedGross, totalFees, stopLossesOf>>
  BY <1>10, <1>4 DEF bookVars, Open
<1> QED BY <1>1, <1>2, <1>3, <1>5, <1>6, <1>7, <1>8, <1>9, <1>10 DEF Next, Done

LEMMA LedgerInit == Init => LedgerInv
<1> SUFFICES ASSUME Init PROVE LedgerInv
  OBVIOUS
<1>1. /\ realizedGross = 0 /\ totalFees = 0 /\ minute = 0 /\ pc = "minute"
      /\ Open = {} /\ DOMAIN trades = {}
  BY DEF Init, Open
<1>2. SumFunction(EntryFees) = 0 /\ SumFunction(Nets) = 0
  BY <1>1, SumEmpty DEF SumFunction, EntryFees, Nets
<1> QED BY <1>1, <1>2, BacktestAssumption DEF LedgerInv, Wallet

\* A closing moves the entry fee of the position and what it was sold for into the
\* net result of its trade.
LEMMA LedgerClosed ==
  ASSUME BookInv, TradeInv, LedgerInv, BookInv', TradeInv',
         NEW t \in Ticker, NEW price, NEW reason, ClosedAt(t, price, reason)
  PROVE  LedgerInv'
<1> DEFINE lots == positions[t].lots
           n == Len(trades) + 1
<1>1. /\ t \in Open /\ lots \in Nat \ {0} /\ price \in Int
      /\ todo' = todo \ {t} /\ minute' = minute /\ pc' = pc /\ pc \in {"exits", "force"}
      /\ positions' = [u \in Open \ {t} |-> positions[u]]
      /\ realizedGross' = realizedGross + Gross(lots, price)
      /\ totalFees' = totalFees + ExitFee(lots, price)
  BY DEF ClosedAt, Close, FeesBooked, LedgerInv, minuteVars
<1>2. PICK x : /\ trades' = Append(trades, x) /\ x.closed = minute
               /\ x.net = Gross(lots, price) - EntryFee(lots) - ExitFee(lots, price)
  BY DEF ClosedAt, Close
<1>3. PICK S : trades \in Seq(S)
  BY DEF TradeInv
<1>4. /\ n \notin DOMAIN trades /\ DOMAIN trades' = DOMAIN trades \cup {n}
      /\ trades'[n] = x /\ \A i \in DOMAIN trades : trades'[i] = trades[i]
  BY <1>2, <1>3
<1>5. /\ EntryFee(lots) \in Int /\ ExitFee(lots, price) \in Int /\ Gross(lots, price) \in Int
  <2>1. lots \in Int /\ price \in Int
    BY <1>1
  <2> HIDE DEF lots
  <2> QED BY <2>1, AmountTypes
<1> HIDE DEF lots, n
<1>6. /\ Open' = Open \ {t} /\ \A u \in Open' : positions'[u] = positions[u]
  BY <1>1 DEF Open
<1>7. SumFunction(EntryFees) = EntryFee(lots) + SumFunction(EntryFees')
  <2>1. Extends(EntryFees, EntryFees', t) /\ EntryFees[t] = EntryFee(lots)
    BY <1>1, <1>6 DEF Extends, EntryFees, lots
  <2>2. IsFiniteSet(DOMAIN EntryFees')
    BY DEF BookInv, EntryFees
  <2>3. \A u \in DOMAIN EntryFees : EntryFees[u] \in Int
    BY LedgerSums DEF EntryFees
  <2> QED BY <2>1, <2>2, <2>3, SumExtended
<1>8. \A i \in DOMAIN trades' : trades'[i].net \in Int /\ trades'[i].closed \in 0..Minutes
  <2>1. x.net \in Int
    BY <1>2, <1>5
  <2>2. x.closed \in 0..Minutes
    BY <1>2, BacktestAssumption DEF LedgerInv, BookInv
  <2>3. \A i \in DOMAIN trades : trades'[i].net \in Int /\ trades'[i].closed \in 0..Minutes
    BY <1>4 DEF LedgerInv
  <2> QED BY <1>4, <2>1, <2>2, <2>3
<1>9. SumFunction(Nets') = x.net + SumFunction(Nets)
  <2>1. Extends(Nets', Nets, n) /\ Nets'[n] = x.net
    BY <1>4 DEF Extends, Nets
  <2>2. \A i \in DOMAIN Nets' : Nets'[i] \in Int
    BY <1>8 DEF Nets
  <2> QED BY <2>1, <2>2, LedgerSums, SumExtended
<1>10. /\ SumFunction(EntryFees') \in Int
  <2>1. \A u \in Open' : EntryFees'[u] = EntryFees[u]
    BY <1>6 DEF EntryFees
  <2>2. \A u \in DOMAIN EntryFees' : EntryFees'[u] \in Int
    BY <1>6, <2>1, LedgerSums DEF EntryFees
  <2>3. IsFiniteSet(DOMAIN EntryFees')
    BY DEF BookInv, EntryFees
  <2> QED BY <2>2, <2>3, SumIsInt DEF SumFunction
<1>11. SumFunction(EntryFees)' = SumFunction(EntryFees') /\ SumFunction(Nets)' = SumFunction(Nets')
  OBVIOUS
<1>12. Wallet' + SumFunction(EntryFees)' = StartingEquity + SumFunction(Nets)'
  <2> DEFINE gross == Gross(lots, price)
             entryFee == EntryFee(lots)
             exitFee == ExitFee(lots, price)
             fees == SumFunction(EntryFees')
             nets == SumFunction(Nets)
  <2>1. /\ Wallet = StartingEquity + realizedGross - totalFees
        /\ Wallet' = StartingEquity + (realizedGross + gross) - (totalFees + exitFee)
    BY <1>1 DEF Wallet
  <2>2. Wallet + (entryFee + fees) = StartingEquity + nets
    BY <1>7 DEF LedgerInv
  <2>3. x.net = gross - entryFee - exitFee
    BY <1>2
  <2>4. /\ gross \in Int /\ entryFee \in Int /\ exitFee \in Int /\ fees \in Int /\ nets \in Int
        /\ StartingEquity \in Int /\ realizedGross \in Int /\ totalFees \in Int
    BY <1>5, <1>10, LedgerSums DEF LedgerInv
  <2> HIDE DEF gross, entryFee, exitFee, fees, nets
  <2>5. Wallet' + fees = StartingEquity + (x.net + nets)
    BY <2>1, <2>2, <2>3, <2>4
  <2> QED BY <1>9, <1>11, <2>5 DEF fees, nets
<1>13. /\ realizedGross' \in Int /\ totalFees' \in Int
       /\ \A u \in Open' : positions'[u].lots \in Nat \ {0}
  BY <1>1, <1>5, <1>6 DEF LedgerInv
<1>14. pc' = "force" => todo' = Open'
  BY <1>1, <1>6 DEF LedgerInv
<1> QED BY <1>1, <1>8, <1>12, <1>13, <1>14 DEF LedgerInv

\* An entry is charged its fee.
LEMMA LedgerEntered ==
  ASSUME BookInv, TradeInv, LedgerInv, BookInv', NEW t \in Ticker, Enter(t)
  PROVE  LedgerInv'
<1>1. /\ Open' = Open \cup {t} /\ t \notin Open /\ positions'[t].lots = Lots
      /\ \A u \in Open : positions'[u] = positions[u]
  <2>1. OpenedPosition(t).lots = Lots
    BY DEF OpenedPosition
  <2> QED BY <2>1, EnterBook
<1>2. /\ Lots > 0 /\ totalFees' = totalFees + EntryFee(Lots)
      /\ pc = "entries" /\ UNCHANGED <<pc, minute, trades, realizedGross>>
  BY DEF Enter, minuteVars
<1>3. Lots \in Nat \ {0} /\ EntryFee(Lots) \in Int
  BY <1>2, Sized, AmountTypes
<1> HIDE DEF Lots
<1>4. SumFunction(EntryFees') = EntryFee(Lots) + SumFunction(EntryFees)
  <2>1. Extends(EntryFees', EntryFees, t) /\ EntryFees'[t] = EntryFee(Lots)
    BY <1>1 DEF Extends, EntryFees
  <2>2. \A u \in Open : EntryFees'[u] = EntryFees[u]
    BY <1>1 DEF EntryFees
  <2>3. \A u \in DOMAIN EntryFees' : EntryFees'[u] \in Int
    BY <1>1, <1>3, <2>1, <2>2, LedgerSums DEF EntryFees
  <2> QED BY <2>1, <2>3, LedgerSums, SumExtended
<1>5. SumFunction(EntryFees)' = SumFunction(EntryFees') /\ SumFunction(Nets)' = SumFunction(Nets)
  BY <1>2 DEF Nets
<1>6. Wallet' + SumFunction(EntryFees)' = StartingEquity + SumFunction(Nets)'
  BY <1>2, <1>3, <1>4, <1>5, LedgerSums DEF LedgerInv, Wallet
<1>7. \A u \in Open' : positions'[u].lots \in Nat \ {0}
  BY <1>1, <1>3 DEF LedgerInv
<1> QED BY <1>2, <1>3, <1>6, <1>7 DEF LedgerInv

LEMMA LedgerStep == BookInv /\ TradeInv /\ LedgerInv /\ [Next]_vars => LedgerInv'
<1> SUFFICES ASSUME BookInv, TradeInv, LedgerInv, [Next]_vars PROVE LedgerInv'
  OBVIOUS
<1>1. BookInv' /\ TradeInv'
  BY BookStep, TradeStep
<1>2. ASSUME Open' = Open, \A t \in Open : positions'[t].lots = positions[t].lots,
             UNCHANGED <<trades, realizedGross, totalFees>>,
             minute' = minute \/ (minute < Minutes /\ minute' = minute + 1),
             pc' = "force" => todo' = Open \/ (pc = "force" /\ todo' = todo),
             pc' = "done" => pc = "done" \/ (pc = "force" /\ todo = {})
      PROVE  LedgerInv'
  <2>1. EntryFees' = EntryFees /\ Nets' = Nets
    BY <1>2 DEF EntryFees, Nets
  <2>2. minute' <= Minutes
    BY <1>2, BacktestAssumption DEF LedgerInv, BookInv
  <2>3. Wallet' + SumFunction(EntryFees)' = StartingEquity + SumFunction(Nets)'
    BY <1>2, <2>1 DEF LedgerInv, Wallet
  <2> QED BY <1>2, <2>2, <2>3 DEF LedgerInv
<1> QED BY <1>1, <1>2, LedgerSteps, LedgerClosed, LedgerEntered

LEMMA LedgerHolds == Spec => []LedgerInv
BY BookInit, BookStep, TradeInit, TradeStep, LedgerInit, LedgerStep, PTL DEF Spec

\* Whatever is bought, sold and charged, and in whatever order, the wallet is the
\* starting equity with the net result of every trade and without the entry fees of
\* what is open; at the end nothing is open and the days of the summary add up to it.
THEOREM LedgerBalanced == Spec => []LedgerBalances
<1>1. BookInv /\ TradeInv /\ LedgerInv => LedgerBalances
  <2> SUFFICES ASSUME BookInv, TradeInv, LedgerInv PROVE LedgerBalances
    OBVIOUS
  <2>1. Wallet + SumFunction(EntryFees) = StartingEquity + SumFunction(Nets)
    BY DEF LedgerInv
  <2>2. ASSUME pc = "done"
        PROVE  Open = {} /\ Wallet = StartingEquity + SumFunction(Nets)
    <3>1. Open = {}
      BY <2>2 DEF LedgerInv
    <3>2. SumFunction(EntryFees) = 0
      BY <3>1, SumEmpty DEF SumFunction, EntryFees
    <3> QED BY <2>1, <3>1, <3>2, LedgerSums
  <2>3. SumFunction([d \in 0..Day(Minutes) |-> DayNet(d)]) = SumFunction(Nets)
    <3> DEFINE D == 0..Day(Minutes)
               day == [i \in DOMAIN trades |-> Day(trades[i].closed)]
    <3>1. IsFiniteSet(D) /\ \A i \in DOMAIN trades : day[i] \in D
      <4>1. Day(Minutes) \in Int
        BY Division, BacktestAssumption DEF Day
      <4>2. ASSUME NEW m \in 0..Minutes PROVE Day(m) \in D
        <5>1. /\ Day(m) \in Int /\ Day(m) <= Day(Minutes)
              /\ Day(0) \in Int /\ Day(0) <= Day(m)
          BY <4>1, Division, DivisionGrows, BacktestAssumption DEF Day
        <5>2. Day(0) = 0
          BY BacktestAssumption DEF Day
        <5> QED BY <4>1, <5>1, <5>2
      <4>3. \A i \in DOMAIN trades : trades[i].closed \in 0..Minutes
        BY DEF LedgerInv
      <4>4. IsFiniteSet(D)
        BY <4>1, FS_Interval
      <4>5. \A i \in DOMAIN trades : day[i] = Day(trades[i].closed)
        OBVIOUS
      <4> HIDE DEF D, day
      <4> QED BY <4>2, <4>3, <4>4, <4>5
    <3>2. \A i \in DOMAIN trades : Nets[i] \in Int
      BY DEF Nets, LedgerInv
    <3>3. ByClass(Nets, DOMAIN trades, day, D) = SumFunctionOnSet(Nets, DOMAIN trades)
      <4>1. IsFiniteSet(DOMAIN trades)
        BY LedgerSums DEF Nets
      <4> HIDE DEF D, day
      <4> QED BY <3>1, <3>2, <4>1, SumByClass
    <3>4. \A d : {i \in DOMAIN trades : day[i] = d} = {i \in DOMAIN trades : Day(trades[i].closed) = d}
      OBVIOUS
    <3>5. [d \in D |-> DayNet(d)] =
            [d \in D |-> SumFunctionOnSet(Nets, {i \in DOMAIN trades : day[i] = d})]
      BY <3>4 DEF DayNet, Nets
    <3>6. /\ SumFunction([d \in D |-> DayNet(d)]) = ByClass(Nets, DOMAIN trades, day, D)
          /\ SumFunction(Nets) = SumFunctionOnSet(Nets, DOMAIN trades)
      BY <3>5 DEF SumFunction, ByClass, Nets
    <3> QED BY <3>3, <3>6
  <2> QED BY <2>1, <2>2, <2>3 DEF LedgerBalances, EntryFees, Nets
<1> QED BY <1>1, BookHolds, TradesHold, LedgerHolds, PTL

-----------------------------------------------------------------------------
\* The limits of an entry.

\* The stop losses of a day, as the trade list shows them.
StopsOn(d) ==
  {i \in DOMAIN trades : trades[i].reason = "stop_loss_exit" /\ Day(trades[i].closed) = d}

\* The breaker's counter is what the trade list shows.
BreakerInv ==
  /\ stopLossesOf = [d \in 0..Day(Minutes) |-> stopLossesOf[d]]
  /\ \A d \in 0..Day(Minutes) : stopLossesOf[d] = Cardinality(StopsOn(d))

LEMMA DaysInReach ==
  ASSUME NEW m \in 0..Minutes
  PROVE  Day(m) \in 0..Day(Minutes) /\ Day(Minutes) \in Nat
<1>1. /\ Day(m) \in Int /\ Day(m) <= Day(Minutes)
      /\ Day(0) \in Int /\ Day(0) <= Day(m)
      /\ Day(Minutes) \in Int
  BY Division, DivisionGrows, BacktestAssumption DEF Day
<1>2. Day(0) = 0
  BY BacktestAssumption DEF Day
<1> QED BY <1>1, <1>2

LEMMA StopsFinite ==
  ASSUME TradeInv
  PROVE  \A d : IsFiniteSet(StopsOn(d)) /\ Cardinality(StopsOn(d)) \in Nat
<1>1. PICK S : trades \in Seq(S)
  BY DEF TradeInv
<1>2. IsFiniteSet(DOMAIN trades)
  BY <1>1, FS_Interval
<1>3. \A d : StopsOn(d) \in SUBSET DOMAIN trades
  BY DEF StopsOn
<1> QED BY <1>2, <1>3, FS_Subset, FS_CardinalityType

LEMMA BreakerInit == Init => BreakerInv
<1> SUFFICES ASSUME Init PROVE BreakerInv
  OBVIOUS
<1>1. DOMAIN trades = {} /\ stopLossesOf = [d \in 0..Day(Minutes) |-> 0]
  BY DEF Init
<1>2. \A d : StopsOn(d) = {}
  BY <1>1 DEF StopsOn
<1> QED BY <1>1, <1>2, FS_EmptySet DEF BreakerInv

LEMMA BreakerStep ==
  BookInv /\ TradeInv /\ LedgerInv /\ BreakerInv /\ [Next]_vars => BreakerInv'
<1> SUFFICES ASSUME BookInv, TradeInv, LedgerInv, BreakerInv, [Next]_vars PROVE BreakerInv'
  OBVIOUS
<1>1. ASSUME NEW t \in Ticker, NEW price, NEW reason, ClosedAt(t, price, reason)
      PROVE  BreakerInv'
  <2> DEFINE n == Len(trades) + 1
             today == Day(minute)
  <2>1. PICK x : /\ trades' = Append(trades, x) /\ x.closed = minute /\ x.reason = reason
    BY <1>1 DEF ClosedAt, Close
  <2>2. PICK S : trades \in Seq(S)
    BY DEF TradeInv
  <2>3. /\ n \notin DOMAIN trades /\ DOMAIN trades' = DOMAIN trades \cup {n}
        /\ trades'[n] = x /\ \A i \in DOMAIN trades : trades'[i] = trades[i]
    BY <2>1, <2>2
  <2>4. /\ today \in 0..Day(Minutes)
        /\ stopLossesOf' = IF reason = "stop_loss_exit"
                           THEN [stopLossesOf EXCEPT ![today] = @ + 1] ELSE stopLossesOf
    <3>1. minute \in 0..Minutes
      BY BacktestAssumption DEF BookInv, LedgerInv
    <3> QED BY <1>1, <3>1, DaysInReach DEF ClosedAt, Close, BreakerDay
  <2> HIDE DEF n, today
  <2>5. \A d : StopsOn(d)' = IF reason = "stop_loss_exit" /\ d = today
                             THEN StopsOn(d) \cup {n} ELSE StopsOn(d)
    <3>1. Day(x.closed) = today
      BY <2>1 DEF today
    <3> QED BY <2>1, <2>3, <3>1 DEF StopsOn
  <2>6. n \notin StopsOn(today)
    BY <2>3 DEF StopsOn
  <2>7. Cardinality(StopsOn(today) \cup {n}) = Cardinality(StopsOn(today)) + 1
    BY <2>6, StopsFinite, FS_AddElement
  <2>8. stopLossesOf' = [d \in 0..Day(Minutes) |-> stopLossesOf'[d]]
    BY <2>4 DEF BreakerInv
  <2>9. \A d \in 0..Day(Minutes) : stopLossesOf'[d] = Cardinality(StopsOn(d)')
    BY <2>4, <2>5, <2>7 DEF BreakerInv
  <2>10. \A d : Cardinality(StopsOn(d))' = Cardinality(StopsOn(d)')
    OBVIOUS
  <2> QED BY <2>8, <2>9 DEF BreakerInv
<1>2. ASSUME UNCHANGED <<trades, stopLossesOf>>
      PROVE  BreakerInv'
  BY <1>2 DEF BreakerInv, StopsOn
<1>3. ASSUME NEW t \in Ticker, Enter(t)
      PROVE  UNCHANGED <<trades, stopLossesOf>>
  BY <1>3 DEF Enter
<1> QED BY <1>1, <1>2, <1>3, LedgerSteps

LEMMA BreakerHolds == Spec => []BreakerInv
BY BookInit, BookStep, TradeInit, TradeStep, LedgerInit, LedgerStep, BreakerInit, BreakerStep, PTL
DEF Spec

\* A lot bought costs no more than LotCost, as the slippage only raises the price
\* that a unit is bought for.
LEMMA BoughtAtRaw ==
  ASSUME NEW lots \in Nat
  PROVE  lots * Scale * (Scale + RawEntry) <= lots * LotCost
<1> DEFINE raw == (Scale * Scale) \div (Scale + SlippageUnits)
<1>1. /\ Scale \in Nat \ {0} /\ SlippageUnits \in Nat /\ Scale + SlippageUnits \in Nat \ {0}
      /\ Scale * Scale \in Int
  BY BacktestAssumption
<1>2. raw \in Int /\ (Scale + SlippageUnits) * raw <= Scale * Scale
  BY <1>1, Division
<1> HIDE DEF raw
<1>3. raw <= Scale
  BY <1>1, <1>2
<1>4. Scale + RawEntry = raw
  BY <1>1, <1>2 DEF RawEntry, raw
<1>5. lots * Scale \in Nat
  BY <1>1
<1>6. (lots * Scale) * raw <= (lots * Scale) * Scale
  BY <1>1, <1>2, <1>3, <1>5
<1>7. (lots * Scale) * Scale = lots * (Scale * Scale)
  BY <1>1
<1> QED BY <1>4, <1>6, <1>7 DEF LotCost

LEMMA EntryKeepsLimits ==
  ASSUME BookInv, TradeInv, LedgerInv, BreakerInv, BookInv', NEW t \in Ticker, Enter(t)
  PROVE  /\ Open' = Open \cup {t}
         /\ MaxDailyStopLosses > 0 => Cardinality(StopsOn(Day(minute))) < MaxDailyStopLosses
         /\ Exposure' * 100 <= Wallet * MaxExposurePercent
         /\ MaxPerCluster > 0 =>
              Cardinality({u \in Open' : positions'[u].cluster = label[t]}) <= MaxPerCluster
         /\ t \notin closed
<1>1. /\ Open' = Open \cup {t} /\ t \notin Open
      /\ positions'[t] = OpenedPosition(t)
      /\ \A u \in Open : positions'[u] = positions[u]
  BY EnterBook
<1>2. /\ Admitted(t) /\ Lots > 0 /\ mark' = [mark EXCEPT ![t] = RawEntry]
  BY DEF Enter
<1>3. MaxDailyStopLosses > 0 => Cardinality(StopsOn(Day(minute))) < MaxDailyStopLosses
  <2>1. minute \in 0..Minutes
    BY BacktestAssumption DEF BookInv, LedgerInv
  <2>2. stopLossesOf[Day(minute)] = Cardinality(StopsOn(Day(minute)))
    BY <2>1, DaysInReach DEF BreakerInv
  <2>3. Cardinality(StopsOn(Day(minute))) \in Nat
    BY StopsFinite
  <2> QED BY <1>2, <2>2, <2>3, BacktestAssumption DEF Admitted, AtLimit, BreakerDay
<1>4. MaxPerCluster > 0 =>
        Cardinality({u \in Open' : positions'[u].cluster = label[t]}) <= MaxPerCluster
  <2> DEFINE before == {u \in Open : positions[u].cluster = label[t]}
             after == {u \in Open' : positions'[u].cluster = label[t]}
  <2>1. OpenedPosition(t).cluster = label[t]
    BY DEF OpenedPosition
  <2>2. after = before \cup {t} /\ t \notin before
    BY <1>1, <2>1
  <2>3. IsFiniteSet(before)
    BY FS_Subset DEF BookInv
  <2>4. ~AtLimit(Cardinality(before), MaxPerCluster)
    BY <1>2 DEF Admitted
  <2> HIDE DEF before, after
  <2>5. Cardinality(before) \in Nat /\ Cardinality(after) = Cardinality(before) + 1
    BY <2>2, <2>3, FS_AddElement, FS_CardinalityType
  <2>6. MaxPerCluster > 0 => Cardinality(after) <= MaxPerCluster
    BY <2>4, <2>5, BacktestAssumption DEF AtLimit
  <2> QED BY <2>6 DEF after
<1>5. Exposure' * 100 <= Wallet * MaxExposurePercent
  <2> DEFINE value == [u \in Open |-> positions[u].lots * Scale * (Scale + mark[u])]
  <2>1. Lots \in Nat /\ RawEntry \in Int
    BY Sized, AmountTypes
  <2>2. OpenedPosition(t).lots = Lots
    BY DEF OpenedPosition
  <2> HIDE DEF Lots
  <2>3. /\ \A u \in Open : mark'[u] = mark[u]
        /\ mark'[t] = RawEntry
    BY <1>1, <1>2 DEF BookInv
  <2>4. /\ Extends(value', value, t) /\ value'[t] = Lots * Scale * (Scale + RawEntry)
    BY <1>1, <2>2, <2>3 DEF Extends
  <2>5. \A u \in DOMAIN value' : value'[u] \in Int
    <3>1. \A u \in Open : value[u] \in Int
      BY BacktestAssumption DEF BookInv, LedgerInv
    <3>2. Lots * Scale * (Scale + RawEntry) \in Int
      BY <2>1, BacktestAssumption
    <3> QED BY <2>4, <3>1, <3>2 DEF Extends
  <2>6. IsFiniteSet(DOMAIN value)
    BY DEF BookInv
  <2>7. Exposure = SumFunction(value) /\ Exposure' = SumFunction(value')
    BY DEF Exposure
  <2> HIDE DEF value
  <2>8. Exposure' = Lots * Scale * (Scale + RawEntry) + Exposure
    BY <2>4, <2>5, <2>6, <2>7, SumExtended
  <2>9. Lots * Scale * (Scale + RawEntry) <= Lots * LotCost
    BY <2>1, BoughtAtRaw
  <2>10. /\ Exposure \in Int
         /\ (Exposure + Lots * LotCost) * 100 <= Wallet * MaxExposurePercent
    BY <1>2, Sized
  <2>11. /\ Lots * Scale * (Scale + RawEntry) \in Int /\ Lots * LotCost \in Int
         /\ Wallet * MaxExposurePercent \in Int
    BY <2>1, LedgerSums, BacktestAssumption DEF LotCost
  <2> DEFINE bought == Lots * Scale * (Scale + RawEntry)
             cost == Lots * LotCost
             allowed == Wallet * MaxExposurePercent
             held == Exposure
  <2> HIDE DEF bought, cost, allowed, held
  <2>12. /\ bought \in Int /\ cost \in Int /\ allowed \in Int /\ held \in Int
         /\ bought <= cost /\ (held + cost) * 100 <= allowed
    BY <2>9, <2>10, <2>11 DEF bought, cost, allowed, held
  <2>13. (bought + held) * 100 <= allowed
    BY <2>12
  <2> QED BY <2>8, <2>13 DEF bought, allowed, held
<1> QED BY <1>1, <1>2, <1>3, <1>4, <1>5 DEF Admitted

\* Every entry keeps the limits of the moment, for every series of candles and
\* signals and every labelling: the breaker, counted by the trade list, the gross
\* exposure, summed over what is open, the cluster, and no ticker sold this minute.
THEOREM EntriesKeepLimits == Spec => EntriesWithinLimits
<1>1. BookInv /\ TradeInv /\ LedgerInv /\ BreakerInv /\ [Next]_vars =>
        [\A t \in Open' \ Open :
           /\ MaxDailyStopLosses > 0 =>
                Cardinality({i \in DOMAIN trades : /\ trades[i].reason = "stop_loss_exit"
                                                   /\ Day(trades[i].closed) = Day(minute)})
                  < MaxDailyStopLosses
           /\ Exposure' * 100 <= Wallet * MaxExposurePercent
           /\ MaxPerCluster > 0 =>
                Cardinality({u \in Open' : positions'[u].cluster = label[t]}) <= MaxPerCluster
           /\ t \notin closed]_vars
  <2> SUFFICES ASSUME BookInv, TradeInv, LedgerInv, BreakerInv, [Next]_vars,
                      NEW t \in Open' \ Open
               PROVE  /\ MaxDailyStopLosses > 0 =>
                           Cardinality(StopsOn(Day(minute))) < MaxDailyStopLosses
                      /\ Exposure' * 100 <= Wallet * MaxExposurePercent
                      /\ MaxPerCluster > 0 =>
                           Cardinality({u \in Open' : positions'[u].cluster = label[t]})
                             <= MaxPerCluster
                      /\ t \notin closed
    BY DEF StopsOn
  <2>1. BookInv'
    BY BookStep
  <2>2. ASSUME NEW u \in Ticker, NEW price, NEW reason, ClosedAt(u, price, reason)
        PROVE  Open' \subseteq Open
    BY <2>2 DEF ClosedAt, Close, Open
  <2>3. PICK u \in Ticker : Enter(u)
    BY <2>2, LedgerSteps
  <2>4. u = t
    BY <2>1, <2>3, EntryKeepsLimits
  <2> QED BY <2>1, <2>3, <2>4, EntryKeepsLimits
<1> QED
  BY <1>1, BookHolds, TradesHold, LedgerHolds, BreakerHolds, PTL DEF Spec, EntriesWithinLimits

-----------------------------------------------------------------------------
\* Types.

TypeInv ==
  /\ pc \in {"minute", "exits", "entries", "force", "done"}
  /\ label \in Labelling /\ ready \subseteq Ticker /\ todo \subseteq Ticker /\ closed \subseteq Ticker
  /\ pc # "minute" => minute >= 1
  /\ \A t \in Open : positions[t] \in Position
  /\ trades \in Seq(Trade)
  /\ trackers \subseteq [trade : DOMAIN trades, left : 1..PostExitBars]
  /\ followed \subseteq DOMAIN trades

LEMMA TypeInit == Init => TypeInv
<1> SUFFICES ASSUME Init PROVE TypeInv
  OBVIOUS
<1>1. /\ pc = "minute" /\ label \in Labelling /\ ready = {} /\ todo = {} /\ closed = {}
      /\ Open = {} /\ trades = <<>> /\ trackers = {} /\ followed = {}
  BY DEF Init, Open
<1> QED BY <1>1 DEF TypeInv

\* The fields a candle may set.
LEMMA PositionUpdated ==
  ASSUME NEW p \in Position, NEW target \in Nat, NEW stop \in Int, NEW step \in Nat,
         NEW since \in 1..Minutes, NEW lifted \in 0..Minutes
  PROVE  /\ [p EXCEPT !.target = target, !.stop = stop, !.armed = TRUE, !.step = step,
                      !.since = since, !.lifted = lifted] \in Position
         /\ [p EXCEPT !.armed = TRUE, !.stop = stop, !.lifted = lifted] \in Position
<1> DEFINE q == [p EXCEPT !.target = target, !.stop = stop, !.armed = TRUE, !.step = step,
                          !.since = since, !.lifted = lifted]
           r == [p EXCEPT !.armed = TRUE, !.stop = stop, !.lifted = lifted]
<1>1. q \in Position
  BY DEF Position
<1>2. r \in Position
  BY DEF Position
<1> QED BY <1>1, <1>2

LEMMA TypeKept ==
  ASSUME BookInv, LedgerInv, TypeInv, NEW t \in Ticker, NEW low \in Price, NEW close \in Price,
         low <= close, Climb(t, low, close) \/ Hold(t, low, close)
  PROVE  TypeInv'
<1> DEFINE p == positions[t]
<1>1. /\ t \in Open /\ p \in Position /\ minute \in 1..Minutes /\ pc = "exits"
      /\ todo' = todo \ {t}
      /\ UNCHANGED <<pc, label, ready, closed, minute, trades, trackers, followed>>
  BY BacktestAssumption
  DEF Climb, Hold, Reviewed, BookInv, LedgerInv, TypeInv, minuteVars, followVars
<1>2. ClimbedPosition(p, minute) \in Position
  <2>1. p.step \in Nat
    BY <1>1 DEF Position
  <2>2. /\ RatchetTakeProfit(p.step + 1) \in Nat /\ RatchetStopLoss(p.step + 1) \in Int
        /\ p.step + 1 \in Nat
    BY <2>1, TradeSettingsAssumption DEF RatchetTakeProfit, RatchetStopLoss
  <2>3. minute \in 0..Minutes
    BY <1>1, BacktestAssumption
  <2> QED BY <1>1, <2>2, <2>3, PositionUpdated DEF ClimbedPosition
<1>3. Armed(p, close) \in Position
  <2>1. minute \in 0..Minutes
    BY <1>1, BacktestAssumption
  <2>2. Entry \in Int /\ p \in Position
    BY <1>1 DEF Entry
  <2>3. [p EXCEPT !.armed = TRUE, !.stop = Entry, !.lifted = minute] \in Position
    BY <1>1, <2>1, <2>2, PositionUpdated
  <2> QED BY <1>1, <2>3 DEF Armed
<1>4. \E q \in Position : positions' = [positions EXCEPT ![t] = q]
  <2>1. ASSUME Climb(t, low, close)
        PROVE  positions' = [positions EXCEPT ![t] = ClimbedPosition(p, minute)]
    BY <2>1 DEF Climb, ClimbedPosition
  <2>2. ASSUME Hold(t, low, close)
        PROVE  positions' = [positions EXCEPT ![t] = Armed(p, close)]
    BY <2>2 DEF Hold
  <2> QED BY <1>2, <1>3, <2>1, <2>2
<1>5. \A u \in Open' : positions'[u] \in Position
  BY <1>4 DEF TypeInv, Open
<1> QED BY <1>1, <1>5 DEF TypeInv

LEMMA TypeClosed ==
  ASSUME BookInv, LedgerInv, TypeInv, NEW t \in Ticker, NEW price, NEW reason,
         ClosedAt(t, price, reason), closed' \in {closed, closed \cup {t}}
  PROVE  TypeInv'
<1> DEFINE p == positions[t]
           n == Len(trades) + 1
           x == [opened |-> p.opened, closed |-> minute, lifted |-> p.lifted, reason |-> reason,
                 price |-> price, lots |-> p.lots,
                 net |-> Gross(p.lots, price) - EntryFee(p.lots) - ExitFee(p.lots, price)]
<1>1. /\ t \in Open /\ p \in Position /\ minute \in 1..Minutes
      /\ price \in Int /\ reason \in ExitReason /\ todo' = todo \ {t}
      /\ UNCHANGED <<pc, label, ready, minute, followed>>
  <2>1. t \in Open /\ pc # "minute" /\ UNCHANGED <<minuteVars, pc, followed>>
    BY DEF ClosedAt, Close
  <2>2. minute \in 1..Minutes /\ p \in Position
    BY <2>1, BacktestAssumption DEF BookInv, LedgerInv, TypeInv
  <2> QED BY <2>1, <2>2 DEF ClosedAt, minuteVars
<1>2. x \in Trade
  <2>1. p.lots \in Nat \ {0}
    BY <1>1 DEF Position
  <2>2. /\ EntryFee(p.lots) \in Int /\ ExitFee(p.lots, price) \in Int /\ Gross(p.lots, price) \in Int
    <3>1. p.lots \in Int
      BY <2>1
    <3> QED BY <1>1, <3>1, AmountTypes
  <2>3. Gross(p.lots, price) - EntryFee(p.lots) - ExitFee(p.lots, price) \in Int
    BY <2>2
  <2> QED BY <1>1, <2>1, <2>3 DEF Trade, Position
<1>3. trades' = Append(trades, x)
  BY DEF ClosedAt, Close
<1> HIDE DEF x, n
<1>4. /\ trades' \in Seq(Trade) /\ DOMAIN trades' = DOMAIN trades \cup {n}
  BY <1>2, <1>3 DEF TypeInv, n
<1>5. trackers' \subseteq [trade : DOMAIN trades', left : 1..PostExitBars]
  <2>1. trackers' = IF PostExitBars > 0
                    THEN trackers \cup {[trade |-> n, left |-> PostExitBars]} ELSE trackers
    BY DEF ClosedAt, Close, n
  <2>2. trackers \subseteq [trade : DOMAIN trades', left : 1..PostExitBars]
    BY <1>4 DEF TypeInv
  <2> QED BY <1>4, <2>1, <2>2, BacktestAssumption
<1>6. \A u \in Open' : positions'[u] \in Position
  BY DEF ClosedAt, Close, Open, TypeInv
<1> QED BY <1>1, <1>4, <1>5, <1>6 DEF TypeInv

LEMMA TypeEntered ==
  ASSUME BookInv, TradeInv, LedgerInv, TypeInv, NEW t \in Ticker, Enter(t)
  PROVE  TypeInv'
<1>1. /\ Open' = Open \cup {t} /\ t \notin Open
      /\ positions'[t] = OpenedPosition(t)
      /\ \A u \in Open : positions'[u] = positions[u]
  BY EnterBook
<1>2. /\ pc = "entries" /\ minute \in 1..Minutes /\ todo' = todo \ {t} /\ Lots > 0
      /\ UNCHANGED <<pc, minute, label, ready, closed, trades, trackers, followed>>
  BY BacktestAssumption DEF Enter, BookInv, LedgerInv, TypeInv, minuteVars, followVars
<1>3. Lots \in Nat \ {0}
  BY <1>2, Sized
<1> HIDE DEF Lots
<1>4. OpenedPosition(t) \in Position
  <2>1. label[t] \in Cluster /\ minute \in 1..Minutes
    BY <1>2 DEF TypeInv, Cluster
  <2>2. InitialTakeProfit \in Nat /\ InitialStopLoss \in Int /\ 0 \in 0..Minutes
    BY TradeSettingsAssumption, BacktestAssumption DEF InitialTakeProfit, InitialStopLoss
  <2> QED BY <1>3, <2>1, <2>2 DEF OpenedPosition, Position
<1>5. \A u \in Open' : positions'[u] \in Position
  BY <1>1, <1>4 DEF TypeInv
<1> QED BY <1>2, <1>5 DEF TypeInv

LEMMA TypeStep == BookInv /\ TradeInv /\ LedgerInv /\ TypeInv /\ [Next]_vars => TypeInv'
<1> SUFFICES ASSUME BookInv, TradeInv, LedgerInv, TypeInv, [Next]_vars PROVE TypeInv'
  OBVIOUS
<1>1. ASSUME NEW t \in Ticker, NEW low \in Price, NEW close \in Price, low <= close,
             StopOut(t, low, close) \/ TakeProfit(t, low, close) \/ TimeOut(t, low, close)
      PROVE  TypeInv'
  BY <1>1, Closings, TypeClosed
<1>2. ASSUME NEW t \in Ticker, ForceClose(t)
      PROVE  TypeInv'
  BY <1>2, Closings, TypeClosed
<1>3. ASSUME NEW t \in Ticker, Skip(t)
      PROVE  TypeInv'
  BY <1>3 DEF Skip, TypeInv, bookVars, followVars, minuteVars, Open
<1>4. CASE StartMinute
  <2>1. /\ minute' = minute + 1 /\ pc' = "exits" /\ todo' = Open /\ closed' = {}
        /\ ready' \subseteq Ticker /\ label' \in Labelling
        /\ UNCHANGED bookVars /\ FollowUp
    BY <1>4 DEF StartMinute
  <2>2. trackers' \subseteq [trade : DOMAIN trades, left : 1..PostExitBars]
    <3> SUFFICES ASSUME NEW k \in trackers, ~Spent([k EXCEPT !.left = @ - 1].left)
                 PROVE  [k EXCEPT !.left = @ - 1] \in [trade : DOMAIN trades, left : 1..PostExitBars]
      BY <2>1 DEF FollowUp
    <3>1. k \in [trade : DOMAIN trades, left : 1..PostExitBars]
      BY DEF TypeInv
    <3>2. k.left - 1 > 0
      BY <3>1, BacktestAssumption DEF Spent
    <3> QED BY <3>1, <3>2, BacktestAssumption
  <2>3. followed' \subseteq DOMAIN trades
    <3>1. \A k \in trackers : [k EXCEPT !.left = @ - 1].trade \in DOMAIN trades
      BY DEF TypeInv
    <3> QED BY <2>1, <3>1 DEF FollowUp, TypeInv
  <2>4. minute' >= 1 /\ todo' \subseteq Ticker
    BY <2>1 DEF BookInv
  <2> QED BY <2>1, <2>2, <2>3, <2>4 DEF TypeInv, bookVars, Open
<1>5. CASE EndExits
  BY <1>5 DEF EndExits, TypeInv, bookVars, followVars, minuteVars, Open
<1>6. CASE EndMinute
  <2>1. /\ pc = "entries" /\ pc' \in {"minute", "force"} /\ todo' \in {{}, Open}
        /\ closed' = {} /\ ready' = {}
        /\ UNCHANGED <<positions, trades, trackers, followed, minute, label>>
    BY <1>6 DEF EndMinute, bookVars, followVars
  <2> QED BY <2>1 DEF TypeInv, Open, BookInv
<1>7. CASE Finish
  <2>1. /\ pc = "force" /\ pc' = "done" /\ trackers' = {}
        /\ followed' = followed \cup {k.trade : k \in {j \in trackers : EnoughSeen(j)}}
        /\ UNCHANGED <<positions, trades, minute, label, ready, todo, closed>>
    BY <1>7 DEF Finish, bookVars, minuteVars
  <2>2. \A k \in trackers : k.trade \in DOMAIN trades
    BY DEF TypeInv
  <2>3. followed' \subseteq DOMAIN trades
    BY <2>1, <2>2 DEF TypeInv
  <2> QED BY <2>1, <2>3 DEF TypeInv, Open
<1>8. CASE UNCHANGED vars
  BY <1>8 DEF vars, TypeInv, bookVars, followVars, minuteVars, Open
<1>9. ASSUME NEW t \in Ticker, NEW low \in Price, NEW close \in Price, low <= close,
             Climb(t, low, close) \/ Hold(t, low, close)
      PROVE  TypeInv'
  BY <1>9, TypeKept
<1>10. ASSUME NEW t \in Ticker, Enter(t)
       PROVE  TypeInv'
  BY <1>10, TypeEntered
<1> QED BY <1>1, <1>2, <1>3, <1>4, <1>5, <1>6, <1>7, <1>8, <1>9, <1>10 DEF Next, Done

\* What a sale is charged is not negative where neither the stop nor the slippage is
\* more than the whole price.
LEMMA ExitFeeIsCharged ==
  ASSUME SlippageUnits <= Scale, NEW lots \in Nat, NEW price \in Int, price >= -Scale
  PROVE  EntryFee(lots) \in Nat /\ ExitFee(lots, price) \in Nat
<1>1. /\ Scale \in Nat \ {0} /\ SlippageUnits \in Nat /\ FeeUnits \in Nat
      /\ Scale + price \in Nat /\ Scale - SlippageUnits \in Nat
  BY BacktestAssumption
<1> DEFINE sold == (Scale + price) * (Scale - SlippageUnits)
<1>2. sold \in Nat
  BY <1>1
<1> HIDE DEF sold
<1>3. sold \div Scale \in Int /\ sold < Scale * ((sold \div Scale) + 1)
  BY <1>1, <1>2, Division
<1> DEFINE fill == sold \div Scale
<1> HIDE DEF fill
<1>4. fill \in Nat
  <2> SUFFICES ASSUME fill + 1 <= 0 PROVE FALSE
    BY <1>3 DEF fill
  <2>1. Scale * (fill + 1) <= 0
    BY <1>1, <1>3 DEF fill
  <2> QED BY <1>1, <1>2, <1>3, <2>1 DEF fill
<1>5. ExitFill(price) = fill
  BY DEF ExitFill, fill, sold
<1> QED BY <1>1, <1>4, <1>5 DEF EntryFee, ExitFee

FeeInv == totalFees >= 0 /\ \A t \in Ticker : mark[t] >= -Scale

LEMMA FeeInit == Init => FeeInv
BY BacktestAssumption DEF Init, FeeInv

LEMMA FeeStep ==
  ASSUME StopLossPct <= Scale, SlippageUnits <= Scale
  PROVE  BookInv /\ TradeInv /\ LedgerInv /\ FeeInv /\ [Next]_vars => FeeInv'
<1> SUFFICES ASSUME BookInv, TradeInv, LedgerInv, FeeInv, [Next]_vars PROVE FeeInv'
  OBVIOUS
<1>0. Scale \in Nat \ {0} /\ StopLossPct \in Nat /\ totalFees \in Int
  BY BacktestAssumption, TradeSettingsAssumption DEF LedgerInv
<1>1. ASSUME NEW t \in Ticker, NEW price, NEW reason, ClosedAt(t, price, reason)
      PROVE  FeeInv'
  <2>1. /\ t \in Open /\ price \in Int /\ price >= -Scale
    BY <1>0, <1>1 DEF ClosedAt, FeeInv, BookInv
  <2>2. positions[t].lots \in Nat
    BY <2>1 DEF LedgerInv
  <2>3. ExitFee(positions[t].lots, price) \in Nat
    BY <2>1, <2>2, ExitFeeIsCharged
  <2>4. totalFees' = totalFees + ExitFee(positions[t].lots, price) /\ mark' = [mark EXCEPT ![t] = 0]
    BY <1>1 DEF ClosedAt, Close, FeesBooked
  <2> QED BY <1>0, <2>3, <2>4 DEF FeeInv, BookInv
<1>2. ASSUME NEW t \in Ticker, Enter(t)
      PROVE  FeeInv'
  <2>1. Lots \in Nat
    BY Sized
  <2>2. totalFees' = totalFees + EntryFee(Lots) /\ mark' = [mark EXCEPT ![t] = RawEntry]
    BY <1>2 DEF Enter
  <2> HIDE DEF Lots
  <2>3. EntryFee(Lots) \in Nat
    <3>1. 0 \in Int /\ 0 >= -Scale
      BY <1>0
    <3> QED BY <2>1, <3>1, ExitFeeIsCharged
  <2>4. RawEntry >= -Scale /\ RawEntry \in Int
    <3> DEFINE whole == Scale * Scale
               b == Scale + SlippageUnits
               raw == whole \div b
    <3>1. whole \in Nat /\ b \in Nat \ {0}
      BY BacktestAssumption
    <3>2. raw \in Int /\ whole < b * (raw + 1)
      <4> HIDE DEF whole, b
      <4> QED BY <3>1, Division
    <3>3. RawEntry = raw - Scale
      BY DEF RawEntry
    <3> HIDE DEF whole, b, raw
    <3>4. raw >= 0
      <4> SUFFICES ASSUME raw + 1 <= 0 PROVE FALSE
        BY <3>2
      <4>1. b * (raw + 1) <= 0
        BY <3>1, <3>2
      <4> QED BY <3>1, <3>2, <4>1
    <3> QED BY <1>0, <3>2, <3>3, <3>4
  <2> QED BY <1>0, <2>2, <2>3, <2>4 DEF FeeInv, BookInv
<1>3. ASSUME NEW t \in Ticker, NEW low \in Price, NEW close \in Price, low <= close,
             Climb(t, low, close) \/ Hold(t, low, close)
      PROVE  FeeInv'
  <2>1. close \in Int /\ close > -StopLossPct
    BY <1>3, KeptInOrder, BacktestAssumption
  <2>2. mark' = [mark EXCEPT ![t] = close] /\ totalFees' = totalFees
    BY <1>3 DEF Climb, Hold
  <2> QED BY <1>0, <2>1, <2>2 DEF FeeInv, BookInv
<1>4. ASSUME NEW t \in Ticker, Skip(t)
      PROVE  FeeInv'
  BY <1>4 DEF Skip, FeeInv, bookVars
<1>5. CASE StartMinute
  BY <1>0, <1>5 DEF StartMinute, FeeInv, bookVars
<1>6. CASE EndExits \/ EndMinute \/ Finish \/ UNCHANGED vars
  BY <1>6 DEF EndExits, EndMinute, Finish, FeeInv, vars, bookVars
<1>7. ASSUME NEW t \in Ticker, NEW low \in Price, NEW close \in Price, low <= close,
             StopOut(t, low, close) \/ TakeProfit(t, low, close) \/ TimeOut(t, low, close)
      PROVE  FeeInv'
  BY <1>1, <1>7, Closings
<1>8. ASSUME NEW t \in Ticker, ForceClose(t)
      PROVE  FeeInv'
  BY <1>1, <1>8, Closings
<1> QED BY <1>2, <1>3, <1>4, <1>5, <1>6, <1>7, <1>8 DEF Next, Done

\* Where neither the stop distance nor the slippage is more than the whole price,
\* every state of the replay is well typed: no fee is negative, no size is empty, and
\* no position, trade or tracker is dated outside the replay.
THEOREM BacktestTypeCorrect ==
  ASSUME StopLossPct <= Scale, SlippageUnits <= Scale
  PROVE  Spec => []TypeOK
<1>1. BookInv /\ LedgerInv /\ BreakerInv /\ TradeInv /\ TypeInv /\ FeeInv => TypeOK
  <2> SUFFICES ASSUME BookInv, LedgerInv, BreakerInv, TradeInv, TypeInv, FeeInv
               PROVE  TypeOK
    OBVIOUS
  <2>1. stopLossesOf \in [0..Day(Minutes) -> Nat]
    <3>1. \A d \in 0..Day(Minutes) : stopLossesOf[d] \in Nat
      BY StopsFinite DEF BreakerInv
    <3>2. stopLossesOf = [d \in 0..Day(Minutes) |-> stopLossesOf[d]]
      BY DEF BreakerInv
    <3> QED BY <3>1, <3>2
  <2>2. realizedGross \in Int /\ totalFees \in Nat /\ minute \in 0..Minutes
    BY BacktestAssumption DEF LedgerInv, FeeInv, BookInv
  <2> QED BY <2>1, <2>2 DEF TypeOK, TypeInv, BookInv
<1> QED
  BY <1>1, BookInit, BookStep, TradeInit, TradeStep, LedgerInit, LedgerStep, BreakerInit,
     BreakerStep, TypeInit, TypeStep, FeeInit, FeeStep, PTL DEF Spec
=============================================================================
