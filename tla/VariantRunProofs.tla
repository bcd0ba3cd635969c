-------------------------- MODULE VariantRunProofs --------------------------
(***************************************************************************)
(* What holds of the ranking of result rows, whatever variants, scores and *)
(* order of arrival, and of the rows, jobs, checkpoint and exports of a    *)
(* run, which the research commands are built on.                          *)
(***************************************************************************)
EXTENDS VariantRun, SequenceTheorems, FiniteSetTheorems, TLAPS

-----------------------------------------------------------------------------

Scored(rs) == (\E S : rs \in Seq(S)) /\ \A i \in DOMAIN rs : rs[i].score \in Int

\* Each row once, and none before a better one.
Ranking(rs, order) ==
  /\ order \in Bijection(DOMAIN rs, DOMAIN rs)
  /\ RankVariants(rs) = [k \in DOMAIN rs |-> rs[order[k]]]
  /\ \A k, l \in DOMAIN rs : k <= l => rs[order[k]].score >= rs[order[l]].score

LEMMA FirstNumbers ==
  ASSUME NEW n \in Nat
  PROVE  IsFiniteSet(1..n) /\ Cardinality(1..n) = n
<1>1. IsFiniteSet(1..n) /\ Cardinality(1..n) = IF 1 > n THEN 0 ELSE n - 1 + 1
  BY FS_Interval
<1> QED BY <1>1

\* The ranking of rows is a permutation of them, best first, whatever their scores
\* and the order they came in: none is lost, none listed twice (backtest.py:3163).
THEOREM RowsRanked ==
  ASSUME NEW rs, Scored(rs)
  PROVE  \E order : Ranking(rs, order)
<1> DEFINE D == DOMAIN rs
           Before(i, j) == rs[i].score > rs[j].score \/ (rs[i].score = rs[j].score /\ i < j)
           Ahead(i) == {j \in D : Before(j, i)}
           Place(i) == Cardinality(Ahead(i)) + 1
           f == [i \in D |-> Place(i)]
           order == [k \in D |-> CHOOSE i \in D : Place(i) = k]
<1>1. D = 1..Len(rs) /\ Len(rs) \in Nat /\ IsFiniteSet(D) /\ Cardinality(D) = Len(rs)
  <2>1. D = 1..Len(rs) /\ Len(rs) \in Nat
    BY DEF Scored
  <2> QED BY <2>1, FirstNumbers
<1>2. \A i \in D : rs[i].score \in Int /\ i \in Int
  BY <1>1 DEF Scored
<1>3. /\ \A i \in D : ~Before(i, i)
      /\ \A i, j \in D : i # j => Before(i, j) \/ Before(j, i)
      /\ \A i, j, k \in D : Before(i, j) /\ Before(j, k) => Before(i, k)
      /\ \A i, j \in D : ~Before(j, i) => rs[i].score >= rs[j].score
  BY <1>2
<1>4. RankVariants(rs) = [k \in D |-> rs[order[k]]]
  BY DEF RankVariants
<1> HIDE DEF D, Before
<1>5. ASSUME NEW i \in D
      PROVE  Ahead(i) \subseteq D /\ i \notin Ahead(i) /\ Place(i) \in D
  <2>1. Ahead(i) \in SUBSET D /\ i \in D \ Ahead(i)
    BY <1>3
  <2>2. /\ IsFiniteSet(Ahead(i)) /\ Cardinality(Ahead(i)) <= Cardinality(D)
        /\ Cardinality(D) = Cardinality(Ahead(i)) => D = Ahead(i)
    BY <1>1, <2>1, FS_Subset
  <2>3. Cardinality(Ahead(i)) \in Nat
    BY <2>2, FS_CardinalityType
  <2>4. Cardinality(Ahead(i)) < Len(rs)
    BY <1>1, <2>1, <2>2, <2>3
  <2> QED BY <1>1, <2>1, <2>3, <2>4
<1>6. ASSUME NEW i \in D, NEW j \in D, Before(i, j)
      PROVE  Place(i) < Place(j)
  <2>1. Ahead(i) \in SUBSET Ahead(j) /\ i \in Ahead(j) \ Ahead(i)
    BY <1>3, <1>6
  <2>2. IsFiniteSet(Ahead(j))
    BY <1>1, <1>5, FS_Subset
  <2>3. /\ Cardinality(Ahead(i)) <= Cardinality(Ahead(j))
        /\ Cardinality(Ahead(j)) = Cardinality(Ahead(i)) => Ahead(j) = Ahead(i)
        /\ IsFiniteSet(Ahead(i))
    BY <2>1, <2>2, FS_Subset
  <2>4. Cardinality(Ahead(i)) \in Nat /\ Cardinality(Ahead(j)) \in Nat
    BY <2>2, <2>3, FS_CardinalityType
  <2> QED BY <2>1, <2>3, <2>4
<1> HIDE DEF Ahead, Place
<1>7. \A i \in D : Place(i) \in D /\ Place(i) \in Int
  BY <1>1, <1>5
<1>8. f \in Injection(D, D)
  <2>1. \A i, j \in D : Place(i) = Place(j) => i = j
    BY <1>3, <1>6, <1>7
  <2> QED BY <1>7, <2>1 DEF Injection, IsInjective
<1>9. \A k \in D : \E i \in D : Place(i) = k
  <2>1. f \in Surjection(D, D)
    BY <1>1, <1>8, FS_Injection
  <2> QED BY <2>1 DEF Surjection
<1>10. \A k \in D : order[k] \in D /\ Place(order[k]) = k
  BY <1>9
<1> HIDE DEF order
<1>11. order \in Bijection(D, D)
  <2>1. order \in [D -> D]
    BY <1>10 DEF order
  <2>2. \A i \in D : order[Place(i)] = i
    BY <1>7, <1>8, <1>10 DEF Injection, IsInjective
  <2>3. order \in Injection(D, D)
    BY <1>10, <2>1 DEF Injection, IsInjective
  <2> QED BY <1>7, <2>1, <2>2, <2>3 DEF Bijection, Surjection
<1>12. \A k, l \in D : k <= l => rs[order[k]].score >= rs[order[l]].score
  <2> SUFFICES ASSUME NEW k \in D, NEW l \in D, k <= l
               PROVE  rs[order[k]].score >= rs[order[l]].score
    OBVIOUS
  <2>1. ~Before(order[l], order[k])
    BY <1>1, <1>6, <1>10
  <2> QED BY <1>3, <1>10, <2>1
<1> QED BY <1>4, <1>11, <1>12 DEF Ranking, D

-----------------------------------------------------------------------------
\* Rows.

LEMMA Grown ==
  ASSUME NEW S, NEW q \in Seq(S), NEW x
  PROVE  /\ DOMAIN q = 1..Len(q) /\ Len(q) \in Nat
         /\ DOMAIN Append(q, x) = DOMAIN q \cup {Len(q) + 1} /\ Len(q) + 1 \notin DOMAIN q
         /\ \A i \in DOMAIN q : Append(q, x)[i] = q[i]
         /\ Append(q, x)[Len(q) + 1] = x
         /\ Append(q, x) \in Seq(S \cup {x}) /\ Len(Append(q, x)) = Len(q) + 1
         /\ Range(Append(q, x)) = Range(q) \cup {x}
<1> DEFINE T == S \cup {x}
<1>1. q \in Seq(T) /\ x \in T
  OBVIOUS
<1> HIDE DEF T
<1>2. /\ Append(q, x) \in Seq(T) /\ Len(Append(q, x)) = Len(q) + 1
      /\ \A i \in 1..Len(q) : Append(q, x)[i] = q[i]
      /\ Append(q, x)[Len(q) + 1] = x
  BY <1>1, AppendProperties
<1>3. DOMAIN q = 1..Len(q) /\ Len(q) \in Nat /\ DOMAIN Append(q, x) = 1..(Len(q) + 1)
  BY <1>1, <1>2
<1>4. DOMAIN Append(q, x) = DOMAIN q \cup {Len(q) + 1} /\ Len(q) + 1 \notin DOMAIN q
  BY <1>3
<1>5. Range(Append(q, x)) = Range(q) \cup {x}
  BY <1>2, <1>3, <1>4 DEF Range
<1> QED BY <1>2, <1>3, <1>4, <1>5 DEF T

\* What is left of a sequence without repetition no longer holds its head.
LEMMA Shrunk ==
  ASSUME NEW S, NEW q \in Seq(S), q # <<>>, IsInjective(q)
  PROVE  /\ Tail(q) \in Seq(S) /\ IsInjective(Tail(q))
         /\ Head(q) \in Range(q) /\ Head(q) \notin Range(Tail(q))
         /\ Range(q) = Range(Tail(q)) \cup {Head(q)}
<1>1. /\ Len(q) \in Nat /\ Len(q) > 0 /\ DOMAIN q = 1..Len(q) /\ Head(q) = q[1]
      /\ Tail(q) \in Seq(S) /\ DOMAIN Tail(q) = 1..(Len(q) - 1)
      /\ \A i \in 1..(Len(q) - 1) : Tail(q)[i] = q[i + 1]
  BY HeadTailProperties
<1> DEFINE t == Tail(q)
           n == Len(q)
<1> HIDE DEF t, n
<1>2. n \in Nat /\ n > 0 /\ DOMAIN q = 1..n /\ DOMAIN t = 1..(n - 1) /\ \A i \in 1..(n - 1) : t[i] = q[i + 1]
  BY <1>1 DEF t, n
<1>3. \A i \in 1..n : i = 1 \/ (i - 1 \in 1..(n - 1) /\ q[i] = t[i - 1])
  BY <1>2
<1>4. IsInjective(t)
  BY <1>2 DEF IsInjective
<1>5. q[1] \in Range(q) /\ q[1] \notin Range(t)
  BY <1>2 DEF IsInjective, Range
<1>6. \A x : x \in Range(q) <=> x \in Range(t) \/ x = q[1]
  <2>1. /\ \A x : x \in Range(q) <=> \E i \in 1..n : x = q[i]
        /\ \A x : x \in Range(t) <=> \E i \in 1..(n - 1) : x = t[i]
    BY <1>2 DEF Range
  <2>2. \A i \in 1..(n - 1) : i + 1 \in 1..n
    BY <1>2
  <2>3. 1 \in 1..n
    BY <1>2
  <2> QED BY <1>2, <1>3, <2>1, <2>2, <2>3
<1> QED BY <1>1, <1>4, <1>5, <1>6 DEF t

Distinct(rs) == \A k, l \in DOMAIN rs : rs[k].name = rs[l].name => k = l

\* Ranking loses and repeats no row; a part of a ranking repeats none.
LEMMA RankedRows ==
  ASSUME NEW rs, Scored(rs), Distinct(rs), NEW n \in 0..Len(rs)
  PROVE  LET part == SubSeq(RankVariants(rs), 1, n) IN
         /\ \E S : RankVariants(rs) \in Seq(S) /\ part \in Seq(S)
         /\ Distinct(RankVariants(rs)) /\ Distinct(part)
         /\ Range(RankVariants(rs)) = Range(rs) /\ Range(part) \subseteq Range(rs)
         /\ Len(RankVariants(rs)) = Len(rs) /\ Len(part) = n
<1>1. PICK order : Ranking(rs, order)
  BY RowsRanked
<1>2. PICK S : rs \in Seq(S)
  BY DEF Scored
<1> DEFINE q == RankVariants(rs)
           m == Len(rs)
           part == SubSeq(q, 1, n)
<1>3. /\ m \in Nat /\ DOMAIN rs = 1..m /\ \A i \in 1..m : rs[i] \in S
      /\ \A k \in 1..m : order[k] \in 1..m
      /\ \A k, l \in 1..m : order[k] = order[l] => k = l
      /\ \A i \in 1..m : \E k \in 1..m : order[k] = i
      /\ q = [k \in 1..m |-> rs[order[k]]]
  <2>1. m \in Nat /\ DOMAIN rs = 1..m /\ \A i \in 1..m : rs[i] \in S
    BY <1>2
  <2>2. order \in Bijection(1..m, 1..m) /\ q = [k \in 1..m |-> rs[order[k]]]
    BY <1>1, <2>1 DEF Ranking
  <2> QED BY <2>1, <2>2 DEF Bijection, Injection, Surjection, IsInjective
<1> HIDE DEF m, q
<1>4. q \in [1..m -> S]
  BY <1>3
<1>5. q \in Seq(S) /\ Len(q) = m /\ DOMAIN q = 1..m
  BY <1>3, <1>4
<1>6. n \in Nat /\ n <= m
  BY <1>3 DEF m
<1>7. part \in Seq(S) /\ Len(part) = n /\ DOMAIN part = 1..n /\ \A i \in 1..n : part[i] = q[i]
  BY <1>5, <1>6, SubSeqProperties
<1> HIDE DEF part
<1>8. Distinct(q)
  <2>1. \A k, l \in 1..m : rs[k].name = rs[l].name => k = l
    BY <1>3 DEF Distinct
  <2>2. \A k \in 1..m : q[k] = rs[order[k]]
    BY <1>3
  <2>3. ASSUME NEW k \in 1..m, NEW l \in 1..m, q[k].name = q[l].name PROVE k = l
    <3>1. order[k] \in 1..m /\ order[l] \in 1..m /\ rs[order[k]].name = rs[order[l]].name
      BY <1>3, <2>2, <2>3
    <3>2. order[k] = order[l]
      BY <2>1, <3>1
    <3> QED BY <1>3, <3>2
  <2> QED BY <1>5, <2>3 DEF Distinct
<1>9. Distinct(part)
  BY <1>5, <1>6, <1>7, <1>8 DEF Distinct
<1>10. \A x : x \in Range(q) <=> x \in Range(rs)
  <2>1. /\ \A x : x \in Range(q) <=> \E k \in 1..m : x = rs[order[k]]
        /\ \A x : x \in Range(rs) <=> \E i \in 1..m : x = rs[i]
    BY <1>3, <1>5 DEF Range
  <2>2. ASSUME NEW k \in 1..m PROVE order[k] \in 1..m
    BY <1>3
  <2>3. ASSUME NEW i \in 1..m PROVE \E k \in 1..m : order[k] = i
    BY <1>3
  <2>4. ASSUME NEW x \in Range(q) PROVE x \in Range(rs)
    <3>1. PICK k \in 1..m : x = rs[order[k]]
      BY <2>1
    <3> QED BY <2>1, <2>2, <3>1
  <2>5. ASSUME NEW x \in Range(rs) PROVE x \in Range(q)
    <3>1. PICK i \in 1..m : x = rs[i]
      BY <2>1
    <3>2. PICK k \in 1..m : order[k] = i
      BY <2>3
    <3> QED BY <2>1, <3>1, <3>2
  <2> QED BY <2>4, <2>5
<1>11. Range(part) \subseteq Range(q)
  BY <1>5, <1>6, <1>7 DEF Range
<1> QED BY <1>5, <1>7, <1>8, <1>9, <1>10, <1>11 DEF q, part, m

-----------------------------------------------------------------------------
\* What the rows, the jobs and the exports of a run have to do with each other.

Status == {"kept", "queued", "running", "exporting", "done", "failed"}

\* The variant a row is of.
Place(r) == CHOOSE i \in Index : Variants[i] = r.name

LEMMA PlaceOf ==
  ASSUME NEW i \in Index, NEW r, r.name = Variants[i]
  PROVE  Place(r) = i
BY VariantsAssumption DEF Place, Index, IsInjective

\* The directory of a variant holds what a plan gave.
Holds(i, basis, traded) ==
  exports[i].curve = {basis} /\ (traded => exports[i].trades = {basis})

OwnRow(r) ==
  /\ Place(r) \in Index /\ r.name = Variants[Place(r)]
  /\ r.score = Score[Place(r)][r.basis.end] /\ r.score \in Int
  /\ r.dir > 0 => r.dir = Place(r) /\ Holds(Place(r), r.basis, r.traded)

FileInv ==
  /\ (\E S : file.rows \in Seq(S)) /\ Distinct(file.rows)
  /\ \A r \in Range(file.rows) : OwnRow(r)

\* A row in hand is of a variant the checkpoint had or whose result has been seen.
RowsInv ==
  /\ (\E S : rows \in Seq(S)) /\ Distinct(rows)
  /\ \A r \in Range(rows) :
       /\ OwnRow(r)
       /\ job[Place(r)] \in {"kept", "done"} /\ Place(r) \notin Range(finished)
       /\ ~task.keep => r.basis = task.basis

JobInv ==
  /\ job \in [Index -> Status]
  /\ finished \in Seq(Index) /\ IsInjective(finished)
  /\ \A i \in Range(finished) : job[i] \in {"done", "failed"}

\* A variant's files are of this run from when they are written.
ExportInv ==
  /\ \E S : exports \in [Index -> [trades : S, curve : S]]
  /\ task.keep => \A i \in Index :
       /\ job[i] = "exporting" /\ Trades(i) => exports[i].trades = {task.basis}
       /\ job[i] = "done" => Holds(i, task.basis, Trades(i))

\* The checkpoint is of the rows in hand.
CheckpointInv ==
  /\ task.keep => Range(file.rows) \subseteq Range(rows)
  /\ phase \in {"rewriting", "exporting"} => task.keep

Active == {"sequential", "pool", "rewriting", "over", "exporting"}

HasRow(i) == \E r \in Range(rows) : Place(r) = i

\* As long as no variant has failed, every result has been seen or is about to be.
SeenInv ==
  /\ phase \in Active => \A i \in Index :
       /\ job[i] = "done" => i \in Range(finished) \/ HasRow(i)
       /\ job[i] = "failed" => i \in Range(finished)
       /\ ~task.keep => job[i] # "kept"
       /\ Score[i][task.basis.end] \in Int
  /\ phase \in {"over", "exporting"} => Unfinished = {} /\ finished = <<>>

RunInv == FileInv /\ RowsInv /\ JobInv /\ ExportInv /\ CheckpointInv /\ SeenInv

LEMMA EmptyRows ==
  /\ \E S : <<>> \in Seq(S)
  /\ Distinct(<<>>) /\ Range(<<>>) = {} /\ <<>> \in Seq(Index) /\ IsInjective(<<>>)
BY DEF Distinct, Range, IsInjective

\* Writing one file of a directory leaves the other, and the other directories.
LEMMA Written ==
  ASSUME NEW S, NEW f \in [Index -> [trades : S, curve : S]], NEW i \in Index, NEW x
  PROVE  LET T == S \cup {x}
             g == [f EXCEPT ![i].trades = x]
             h == [f EXCEPT ![i].curve = x]
         IN /\ g \in [Index -> [trades : T, curve : T]] /\ h \in [Index -> [trades : T, curve : T]]
            /\ \A j \in Index : j # i => g[j] = f[j] /\ h[j] = f[j]
            /\ g[i].trades = x /\ h[i].curve = x /\ h[i].trades = f[i].trades
OBVIOUS

LEMMA RunStart == RunInit => RunInv
<1> SUFFICES ASSUME RunInit PROVE RunInv
  OBVIOUS
<1>1. exports \in [Index -> [trades : {{}}, curve : {{}}]] /\ ~task.keep
  BY DEF RunInit, Idle
<1>2. ExportInv
  BY <1>1 DEF ExportInv
<1>3. FileInv /\ RowsInv /\ JobInv /\ CheckpointInv /\ SeenInv
  BY EmptyRows DEF RunInit, Idle, FileInv, RowsInv, JobInv, CheckpointInv, SeenInv, Status, Active
<1> QED BY <1>2, <1>3 DEF RunInv

LEMMA RunLeft ==
  ASSUME RunInv, Leave, UNCHANGED exports, FileInv'
  PROVE  RunInv'
BY EmptyRows
   DEF Leave, Idle, RunInv, RowsInv, JobInv, ExportInv, CheckpointInv, SeenInv, Status, Active

LEMMA FileKept ==
  ASSUME FileInv, UNCHANGED <<file, exports>>
  PROVE  FileInv'
BY DEF FileInv, OwnRow, Holds

\* Until a variant is done, no row of its run or of the checkpoint is of it.
LEMMA NoRowYet ==
  ASSUME RunInv, task.keep, NEW i \in Index, job[i] \in {"running", "exporting"}
  PROVE  \A r \in Range(rows) \cup Range(file.rows) : Place(r) # i
BY DEF RunInv, RowsInv, CheckpointInv

\* A run begins with the rows of the checkpoint, if it has one, and with their variants done.
LEMMA BeginRun ==
  ASSUME RunInv, NEW keep \in BOOLEAN, NEW basis, NEW next \in {"sequential", "pool"},
         NEW pooled, NEW workers, Begin(keep, basis, next, pooled, workers),
         \A i \in Index : Score[i][basis.end] \in Int
  PROVE  RunInv'
<1>1. /\ rows' = Loaded(keep) /\ finished' = <<>> /\ phase' = next /\ UNCHANGED <<file, exports>>
      /\ job' = [i \in Index |-> IF i \in Pending(keep) THEN "queued" ELSE "kept"]
      /\ task'.keep = keep /\ task'.basis = basis
  BY DEF Begin
<1>2. FileInv'
  BY <1>1, FileKept DEF RunInv
<1>3. ASSUME NEW r \in Range(Loaded(keep))
      PROVE  OwnRow(r)' /\ job'[Place(r)] = "kept" /\ keep
  <2>1. keep /\ Loaded(keep) = file.rows
    BY EmptyRows DEF Loaded
  <2>2. OwnRow(r)
    BY <2>1 DEF RunInv, FileInv
  <2>3. Variants[Place(r)] \in Names(Loaded(keep)) /\ Place(r) \in Index
    BY <2>2 DEF Names, OwnRow, Range
  <2>4. job'[Place(r)] = "kept"
    BY <1>1, <2>3 DEF Pending
  <2> QED BY <1>1, <2>1, <2>2, <2>4 DEF OwnRow, Holds
<1>4. (\E S : Loaded(keep) \in Seq(S)) /\ Distinct(Loaded(keep))
  BY EmptyRows DEF Loaded, RunInv, FileInv
<1>5. RowsInv'
  BY <1>1, <1>3, <1>4, EmptyRows DEF RowsInv
<1>6. JobInv'
  BY <1>1, EmptyRows DEF JobInv, Status
<1>7. ExportInv'
  BY <1>1 DEF RunInv, ExportInv
<1>8. CheckpointInv'
  BY <1>1 DEF CheckpointInv, Loaded
<1>9. SeenInv'
  <2>1. ~keep => \A i \in Index : job'[i] # "kept"
    BY <1>1 DEF Pending, Loaded, Names
  <2> QED BY <1>1, <2>1 DEF SeenInv, Active
<1> QED BY <1>2, <1>5, <1>6, <1>7, <1>8, <1>9 DEF RunInv

LEMMA TakeKeeps ==
  ASSUME RunInv, NEW i \in Index, Take(i)
  PROVE  RunInv'
<1>1. /\ job[i] = "queued" /\ job' = [job EXCEPT ![i] = "running"]
      /\ UNCHANGED <<file, exports, phase, task, finished, rows>>
  BY DEF Take, With
<1>2. \A r : OwnRow(r)' <=> OwnRow(r)
  BY <1>1 DEF OwnRow, Holds
<1>3. FileInv'
  BY <1>1, <1>2 DEF RunInv, FileInv
<1>4. job \in [Index -> Status]
  BY DEF RunInv, JobInv
<1>5. /\ job'[i] = "running" /\ \A j \in Index : j # i => job'[j] = job[j]
      /\ job' \in [Index -> Status]
  BY <1>1, <1>4 DEF Status
<1>6. RowsInv'
  <2>1. \A r \in Range(rows) : Place(r) \in Index /\ Place(r) # i
    BY <1>1 DEF RunInv, RowsInv, OwnRow
  <2> QED BY <1>1, <1>2, <1>5, <2>1 DEF RunInv, RowsInv
<1>7. JobInv'
  <2>1. \A j \in Range(finished) : j \in Index /\ j # i
    BY <1>1 DEF RunInv, JobInv, Range
  <2> QED BY <1>1, <1>5, <2>1 DEF RunInv, JobInv
<1>8. ExportInv'
  BY <1>1, <1>5 DEF RunInv, ExportInv, Holds, Trades
<1>9. CheckpointInv'
  BY <1>1 DEF RunInv, CheckpointInv
<1>10. SeenInv'
  BY <1>1, <1>5 DEF RunInv, SeenInv, HasRow, Unfinished, Working, With, Active
<1> QED BY <1>3, <1>6, <1>7, <1>8, <1>9, <1>10 DEF RunInv

\* What a worker writes to a directory is under no row yet.
LEMMA WrittenUnseen ==
  ASSUME RunInv, task.keep, NEW i \in Index, job[i] \in {"running", "exporting"},
         \A j \in Index : j # i => exports'[j] = exports[j]
  PROVE  \A r \in Range(rows) \cup Range(file.rows) : OwnRow(r) => OwnRow(r)'
BY NoRowYet DEF OwnRow, Holds

LEMMA ExportKeeps ==
  ASSUME RunInv, NEW i \in Index, ExportTrades(i)
  PROVE  RunInv'
<1>1. /\ job[i] = "running" /\ task.keep /\ job' = [job EXCEPT ![i] = "exporting"]
      /\ UNCHANGED <<file, phase, task, finished, rows>>
  BY DEF ExportTrades, With
<1>2. /\ \E S : exports' \in [Index -> [trades : S, curve : S]]
      /\ \A j \in Index : j # i => exports'[j] = exports[j]
      /\ Trades(i) => exports'[i].trades = {task.basis}
  <2>1. PICK S : exports \in [Index -> [trades : S, curve : S]]
    BY DEF RunInv, ExportInv
  <2>2. exports' = IF Trades(i) THEN [exports EXCEPT ![i].trades = {task.basis}] ELSE exports
    BY DEF ExportTrades
  <2>3. CASE Trades(i)
    <3> DEFINE g == [exports EXCEPT ![i].trades = {task.basis}]
    <3>1. /\ g \in [Index -> [trades : S \cup {{task.basis}}, curve : S \cup {{task.basis}}]]
          /\ \A j \in Index : j # i => g[j] = exports[j]
          /\ g[i].trades = {task.basis}
      BY <2>1, Written
    <3>2. exports' = g
      BY <2>2, <2>3
    <3> HIDE DEF g
    <3> QED BY <3>1, <3>2
  <2>4. CASE ~Trades(i)
    BY <2>1, <2>2, <2>4
  <2> QED BY <2>3, <2>4
<1>3. \A r \in Range(rows) \cup Range(file.rows) : OwnRow(r) => OwnRow(r)'
  BY <1>1, <1>2, WrittenUnseen
<1>4. FileInv'
  BY <1>1, <1>3 DEF RunInv, FileInv
<1>5. /\ job'[i] = "exporting" /\ \A j \in Index : j # i => job'[j] = job[j]
      /\ job' \in [Index -> Status]
  BY <1>1 DEF Status, RunInv, JobInv
<1>6. RowsInv'
  <2>1. \A r \in Range(rows) : Place(r) \in Index /\ Place(r) # i
    BY <1>1 DEF RunInv, RowsInv, OwnRow
  <2> QED BY <1>1, <1>3, <1>5, <2>1 DEF RunInv, RowsInv
<1>7. JobInv'
  <2>1. \A j \in Range(finished) : j \in Index /\ j # i
    BY <1>1 DEF RunInv, JobInv, Range
  <2> QED BY <1>1, <1>5, <2>1 DEF RunInv, JobInv
<1>8. ExportInv'
  BY <1>1, <1>2, <1>5 DEF RunInv, ExportInv, Holds, Trades
<1>9. CheckpointInv'
  BY <1>1 DEF RunInv, CheckpointInv
<1>10. SeenInv'
  BY <1>1, <1>5 DEF RunInv, SeenInv, HasRow, Unfinished, Working, With, Active
<1> QED BY <1>4, <1>6, <1>7, <1>8, <1>9, <1>10 DEF RunInv

\* A backtest that ends, well or not, is seen by the runner after those before it.
LEMMA JobEnds ==
  ASSUME RunInv, NEW i \in Index, job[i] \in {"running", "exporting"}, NEW s \in {"done", "failed"},
         job' = [job EXCEPT ![i] = s], finished' = Append(finished, i)
  PROVE  /\ job' \in [Index -> Status] /\ job'[i] = s /\ \A j \in Index : j # i => job'[j] = job[j]
         /\ finished' \in Seq(Index) /\ IsInjective(finished')
         /\ Range(finished') = Range(finished) \cup {i} /\ i \notin Range(finished)
         /\ \A j \in Range(finished') : job'[j] \in {"done", "failed"}
         /\ \A r \in Range(rows) : Place(r) \in Index /\ Place(r) # i
         /\ i \in Unfinished
<1>1. /\ job \in [Index -> Status] /\ finished \in Seq(Index) /\ IsInjective(finished)
      /\ \A j \in Range(finished) : job[j] \in {"done", "failed"}
  BY DEF RunInv, JobInv
<1>2. job' \in [Index -> Status] /\ job'[i] = s /\ \A j \in Index : j # i => job'[j] = job[j]
  BY <1>1 DEF Status
<1>3. i \notin Range(finished)
  BY <1>1
<1>4. /\ DOMAIN finished' = DOMAIN finished \cup {Len(finished) + 1} /\ Len(finished) + 1 \notin DOMAIN finished
      /\ \A j \in DOMAIN finished : finished'[j] = finished[j]
      /\ finished'[Len(finished) + 1] = i
      /\ finished' \in Seq(Index \cup {i}) /\ Range(finished') = Range(finished) \cup {i}
  BY <1>1, Grown
<1>5. finished' \in Seq(Index)
  <2>1. Index \cup {i} = Index
    OBVIOUS
  <2> QED BY <1>4, <2>1
<1>6. IsInjective(finished')
  BY <1>1, <1>3, <1>4 DEF IsInjective, Range
<1>7. \A j \in Range(finished) : j \in Index
  BY <1>1 DEF Range
<1>8. \A r \in Range(rows) : Place(r) \in Index /\ Place(r) # i
  BY DEF RunInv, RowsInv, OwnRow
<1> QED BY <1>1, <1>2, <1>3, <1>4, <1>5, <1>6, <1>7, <1>8 DEF Unfinished, Working, With

LEMMA CompleteKeeps ==
  ASSUME RunInv, NEW i \in Index, Complete(i)
  PROVE  RunInv'
<1>1. /\ job[i] \in {"running", "exporting"}
      /\ job' = [job EXCEPT ![i] = "done"] /\ finished' = Append(finished, i)
      /\ UNCHANGED <<file, phase, task, rows>>
  BY DEF Complete, With
<1>2. /\ job' \in [Index -> Status] /\ job'[i] = "done" /\ \A j \in Index : j # i => job'[j] = job[j]
      /\ finished' \in Seq(Index) /\ IsInjective(finished')
      /\ Range(finished') = Range(finished) \cup {i} /\ i \notin Range(finished)
      /\ \A j \in Range(finished') : job'[j] \in {"done", "failed"}
      /\ \A r \in Range(rows) : Place(r) \in Index /\ Place(r) # i
      /\ i \in Unfinished
  BY <1>1, JobEnds
<1>3. /\ \E S : exports' \in [Index -> [trades : S, curve : S]]
      /\ \A j \in Index : j # i => exports'[j] = exports[j]
      /\ ~task.keep => exports' = exports
      /\ task.keep => /\ exports'[i].curve = {task.basis} /\ exports'[i].trades = exports[i].trades
                      /\ job[i] = "exporting"
  <2>1. PICK S : exports \in [Index -> [trades : S, curve : S]]
    BY DEF RunInv, ExportInv
  <2>2. /\ exports' = IF task.keep THEN [exports EXCEPT ![i].curve = {task.basis}] ELSE exports
        /\ task.keep => job[i] = "exporting"
    BY DEF Complete, With
  <2>3. CASE task.keep
    <3> DEFINE h == [exports EXCEPT ![i].curve = {task.basis}]
    <3>1. /\ h \in [Index -> [trades : S \cup {{task.basis}}, curve : S \cup {{task.basis}}]]
          /\ \A j \in Index : j # i => h[j] = exports[j]
          /\ h[i].curve = {task.basis} /\ h[i].trades = exports[i].trades
      BY <2>1, Written
    <3>2. exports' = h
      BY <2>2, <2>3
    <3> HIDE DEF h
    <3> QED BY <2>2, <2>3, <3>1, <3>2
  <2>4. CASE ~task.keep
    BY <2>1, <2>2, <2>4
  <2> QED BY <2>3, <2>4
<1>4. \A r \in Range(rows) \cup Range(file.rows) : OwnRow(r) => OwnRow(r)'
  <2>1. CASE task.keep
    BY <1>1, <1>3, <2>1, WrittenUnseen
  <2>2. CASE ~task.keep
    BY <1>3, <2>2 DEF OwnRow, Holds
  <2> QED BY <2>1, <2>2
<1>5. FileInv'
  BY <1>1, <1>4 DEF RunInv, FileInv
<1>6. RowsInv'
  BY <1>1, <1>2, <1>4 DEF RunInv, RowsInv
<1>7. JobInv'
  BY <1>2 DEF JobInv
<1>8. ExportInv'
  <2>1. \A j \in Index : Trades(j)' = Trades(j)
    BY <1>1 DEF Trades
  <2>2. ASSUME NEW j \in Index, task.keep, job'[j] = "exporting", Trades(j)
        PROVE  exports'[j].trades = {task.basis}
    <3>1. j # i /\ job[j] = "exporting"
      BY <1>2, <2>2
    <3> QED BY <1>3, <2>2, <3>1 DEF RunInv, ExportInv
  <2>3. ASSUME NEW j \in Index, task.keep, job'[j] = "done"
        PROVE  exports'[j].curve = {task.basis} /\ (Trades(j) => exports'[j].trades = {task.basis})
    <3>1. CASE j = i
      BY <1>3, <2>3, <3>1 DEF RunInv, ExportInv
    <3>2. CASE j # i
      <4>1. exports'[j] = exports[j] /\ job[j] = "done"
        BY <1>2, <1>3, <2>3, <3>2
      <4> QED BY <2>3, <4>1 DEF RunInv, ExportInv, Holds
    <3> QED BY <3>1, <3>2
  <2> QED BY <1>1, <1>3, <2>1, <2>2, <2>3 DEF ExportInv, Holds
<1>9. CheckpointInv'
  BY <1>1 DEF RunInv, CheckpointInv
<1>10. SeenInv'
  BY <1>1, <1>2 DEF RunInv, SeenInv, HasRow, Active
<1> QED BY <1>5, <1>6, <1>7, <1>8, <1>9, <1>10 DEF RunInv

LEMMA FailKeeps ==
  ASSUME RunInv, NEW i \in Index, Fail(i)
  PROVE  RunInv'
<1>1. /\ job[i] \in {"running", "exporting"} /\ job' = [job EXCEPT ![i] = "failed"] /\ finished' = Append(finished, i)
      /\ UNCHANGED <<file, exports, phase, task, rows>>
  BY DEF Fail, Working, With
<1>2. /\ job' \in [Index -> Status] /\ job'[i] = "failed" /\ \A j \in Index : j # i => job'[j] = job[j]
      /\ finished' \in Seq(Index) /\ IsInjective(finished')
      /\ Range(finished') = Range(finished) \cup {i} /\ i \notin Range(finished)
      /\ \A j \in Range(finished') : job'[j] \in {"done", "failed"}
      /\ \A r \in Range(rows) : Place(r) \in Index /\ Place(r) # i
      /\ i \in Unfinished
  BY <1>1, JobEnds
<1>3. \A r : OwnRow(r)' <=> OwnRow(r)
  BY <1>1 DEF OwnRow, Holds
<1>4. FileInv'
  BY <1>1, <1>3 DEF RunInv, FileInv
<1>5. RowsInv'
  BY <1>1, <1>2, <1>3 DEF RunInv, RowsInv
<1>6. JobInv' /\ ExportInv'
  BY <1>1, <1>2 DEF RunInv, JobInv, ExportInv, Holds, Trades
<1>7. CheckpointInv'
  BY <1>1 DEF RunInv, CheckpointInv
<1>8. SeenInv'
  BY <1>1, <1>2 DEF RunInv, SeenInv, HasRow, Active
<1> QED BY <1>4, <1>5, <1>6, <1>7, <1>8 DEF RunInv

\* The row that comes in is of a variant that is done and has no row yet.
LEMMA CollectRowKeeps ==
  ASSUME RunInv, CollectRow
  PROVE  RunInv'
<1> DEFINE i == Head(finished)
           row == SummaryRow(i)
<1>1. /\ phase \in {"sequential", "pool"} /\ finished # <<>> /\ job[i] = "done"
      /\ rows' = Append(rows, row) /\ finished' = Tail(finished)
      /\ IF task.keep THEN phase' = "rewriting" /\ file' = [rows |-> <<>>, torn |-> FALSE]
         ELSE UNCHANGED <<phase, file>>
      /\ UNCHANGED <<exports, task, job>>
  BY DEF CollectRow
<1>2. /\ finished' \in Seq(Index) /\ IsInjective(finished') /\ i \in Range(finished)
      /\ i \notin Range(finished') /\ Range(finished) = Range(finished') \cup {i}
  BY <1>1, Shrunk DEF RunInv, JobInv
<1>3. i \in Index
  BY <1>2 DEF RunInv, JobInv, Range
<1>4. /\ row.name = Variants[i] /\ Place(row) = i
      /\ row.basis = task.basis /\ row.score = Score[i][task.basis.end]
      /\ row.traded = Trades(i) /\ row.dir = IF task.keep THEN i ELSE 0
  BY <1>3, PlaceOf DEF SummaryRow, ExportDir
<1> HIDE DEF row
<1>5. OwnRow(row)
  BY <1>1, <1>3, <1>4 DEF OwnRow, RunInv, ExportInv, SeenInv, Active
<1>6. \A r : OwnRow(r)' <=> OwnRow(r)
  BY <1>1 DEF OwnRow, Holds
<1>7. PICK S : rows \in Seq(S)
  BY DEF RunInv, RowsInv
<1>8. /\ DOMAIN rows' = DOMAIN rows \cup {Len(rows) + 1} /\ Len(rows) + 1 \notin DOMAIN rows
      /\ \A k \in DOMAIN rows : rows'[k] = rows[k]
      /\ rows'[Len(rows) + 1] = row
      /\ rows' \in Seq(S \cup {row}) /\ Range(rows') = Range(rows) \cup {row}
  <2>1. /\ DOMAIN Append(rows, row) = DOMAIN rows \cup {Len(rows) + 1} /\ Len(rows) + 1 \notin DOMAIN rows
        /\ \A k \in DOMAIN rows : Append(rows, row)[k] = rows[k]
        /\ Append(rows, row)[Len(rows) + 1] = row
        /\ Append(rows, row) \in Seq(S \cup {row}) /\ Range(Append(rows, row)) = Range(rows) \cup {row}
    <3>1. /\ DOMAIN Append(rows, row) = DOMAIN rows \cup {Len(rows) + 1} /\ Len(rows) + 1 \notin DOMAIN rows
          /\ Append(rows, row)[Len(rows) + 1] = row
      BY <1>7, Grown
    <3>2. \A k \in DOMAIN rows : Append(rows, row)[k] = rows[k]
      BY <1>7, Grown
    <3>3. Append(rows, row) \in Seq(S \cup {row})
      BY <1>7, Grown
    <3>4. Range(Append(rows, row)) = Range(rows) \cup {row}
      BY <3>1, <3>2 DEF Range
    <3> QED BY <3>1, <3>2, <3>3, <3>4
  <2> QED BY <1>1, <2>1
<1>9. \A r \in Range(rows) : r.name # row.name
  BY <1>2, <1>3, <1>4, PlaceOf DEF RunInv, RowsInv
<1>10. Distinct(rows')
  BY <1>8, <1>9 DEF RunInv, RowsInv, Distinct, Range
<1>11. RowsInv'
  BY <1>1, <1>2, <1>4, <1>5, <1>6, <1>8, <1>10 DEF RunInv, RowsInv
<1>12. FileInv'
  <2>1. CASE task.keep
    <3>1. file'.rows = <<>>
      BY <1>1, <2>1
    <3> QED BY <3>1, EmptyRows DEF FileInv
  <2>2. CASE ~task.keep
    BY <1>1, <1>6, <2>2 DEF RunInv, FileInv
  <2> QED BY <2>1, <2>2
<1>13. JobInv' /\ ExportInv'
  BY <1>1, <1>2 DEF RunInv, JobInv, ExportInv, Holds, Trades
<1>14. CheckpointInv'
  BY <1>1, <1>8, EmptyRows DEF RunInv, CheckpointInv
<1>15. SeenInv'
  <2>1. \A j \in Index : j \in Range(finished) \/ HasRow(j) => j \in Range(finished') \/ HasRow(j)'
    BY <1>2, <1>4, <1>8 DEF HasRow
  <2>2. \A j \in Index : job[j] = "failed" => j # i
    BY <1>1
  <2> QED BY <1>1, <1>2, <2>1, <2>2 DEF RunInv, SeenInv, Active
<1> QED BY <1>11, <1>12, <1>13, <1>14, <1>15 DEF RunInv

LEMMA CollectFailureKeeps ==
  ASSUME RunInv, CollectFailure
  PROVE  RunInv'
<1>1. /\ finished # <<>> /\ finished' = Tail(finished) /\ phase' \in {"draining", "raised"}
      /\ UNCHANGED <<file, exports, task, job, rows>>
  BY DEF CollectFailure
<1>2. /\ finished' \in Seq(Index) /\ IsInjective(finished') /\ Range(finished') \subseteq Range(finished)
  BY <1>1, Shrunk DEF RunInv, JobInv
<1>3. \A r : OwnRow(r)' <=> OwnRow(r)
  BY <1>1 DEF OwnRow, Holds
<1>4. FileInv' /\ RowsInv'
  BY <1>1, <1>2, <1>3 DEF RunInv, FileInv, RowsInv
<1>5. JobInv' /\ ExportInv'
  BY <1>1, <1>2 DEF RunInv, JobInv, ExportInv, Holds, Trades
<1>6. CheckpointInv' /\ SeenInv'
  BY <1>1 DEF RunInv, CheckpointInv, SeenInv, Active
<1> QED BY <1>4, <1>5, <1>6 DEF RunInv

\* The checkpoint is rewritten with the rows in hand, best first.
LEMMA RowsWritten ==
  ASSUME RunInv, task.keep, UNCHANGED exports, NEW n \in 0..Len(rows),
         file'.rows = RankVariants(rows) \/ file'.rows = SubSeq(RankVariants(rows), 1, n)
  PROVE  FileInv' /\ Range(file'.rows) \subseteq Range(rows)
<1>1. Scored(rows) /\ Distinct(rows)
  BY DEF RunInv, RowsInv, Scored, OwnRow, Range
<1>2. /\ \E S : file'.rows \in Seq(S)
      /\ Distinct(file'.rows) /\ Range(file'.rows) \subseteq Range(rows)
  <2> DEFINE q == RankVariants(rows)
             top == SubSeq(q, 1, n)
  <2>1. /\ \E S : q \in Seq(S) /\ top \in Seq(S)
        /\ Distinct(q) /\ Distinct(top) /\ Range(q) = Range(rows) /\ Range(top) \subseteq Range(rows)
    BY <1>1, RankedRows
  <2>2. file'.rows = q \/ file'.rows = top
    OBVIOUS
  <2> HIDE DEF q, top
  <2> QED BY <2>1, <2>2
<1>3. \A r \in Range(rows) : OwnRow(r)'
  BY DEF RunInv, RowsInv, OwnRow, Holds
<1> QED BY <1>2, <1>3 DEF FileInv

LEMMA PhaseKeeps ==
  ASSUME RunInv,
         BeginUnreadable(TRUE) \/ BeginUnreadable(FALSE) \/ WriteCheckpoint \/ AllCollected \/ Drain
           \/ OpenSummary
  PROVE  RunInv'
<1>1. UNCHANGED <<exports, task, job, finished, rows>>
  BY DEF BeginUnreadable, WriteCheckpoint, AllCollected, Drain, OpenSummary
<1>2. \A r : OwnRow(r)' <=> OwnRow(r)
  BY <1>1 DEF OwnRow, Holds
<1>3. RowsInv'
  BY <1>1, <1>2 DEF RunInv, RowsInv
<1>4. JobInv' /\ ExportInv'
  BY <1>1 DEF RunInv, JobInv, ExportInv, Holds, Trades
<1>5. FileInv' /\ CheckpointInv'
  <2>1. CASE WriteCheckpoint
    <3>1. task.keep /\ file'.rows = RankVariants(rows) /\ phase' \in {"sequential", "pool"}
      BY <2>1 DEF WriteCheckpoint, RunInv, CheckpointInv
    <3>2. 0 \in 0..Len(rows)
      BY DEF RunInv, RowsInv
    <3> QED BY <1>1, <3>1, <3>2, RowsWritten DEF RunInv, CheckpointInv
  <2>2. CASE OpenSummary
    BY <1>1, <1>2, <2>2, EmptyRows DEF OpenSummary, RunInv, FileInv, CheckpointInv
  <2>3. CASE UNCHANGED file /\ phase' \in {"over", "raised"}
    BY <1>1, <1>2, <2>3 DEF RunInv, FileInv, CheckpointInv
  <2> QED BY <2>1, <2>2, <2>3 DEF BeginUnreadable, AllCollected, Drain
<1>6. SeenInv'
  <2>1. CASE WriteCheckpoint \/ OpenSummary
    BY <1>1, <2>1 DEF WriteCheckpoint, OpenSummary, RunInv, SeenInv, HasRow, Active, Unfinished, Working, With
  <2>2. CASE AllCollected
    BY <1>1, <2>2 DEF AllCollected, RunInv, SeenInv, HasRow, Active, Unfinished, Working, With
  <2>3. CASE phase' = "raised"
    BY <2>3 DEF SeenInv, Active
  <2> QED BY <2>1, <2>2, <2>3 DEF BeginUnreadable, Drain
<1> QED BY <1>3, <1>4, <1>5, <1>6 DEF RunInv

\* A kill leaves of the checkpoint what it held, or a part of the rows in hand.
LEMMA KilledKeeps ==
  ASSUME RunInv, Killed, UNCHANGED exports
  PROVE  RunInv'
<1>1. Leave
  BY DEF Killed
<1>2. CASE UNCHANGED file
  BY <1>1, <1>2, FileKept, RunLeft DEF RunInv
<1>3. CASE ~UNCHANGED file
  <2>1. PICK n \in 0..Len(rows), torn \in BOOLEAN :
          file' = [rows |-> SubSeq(RankVariants(rows), 1, n), torn |-> torn]
    BY <1>3 DEF Killed
  <2>2. task.keep
    BY <1>3 DEF Killed, RunInv, CheckpointInv
  <2> QED BY <1>1, <2>1, <2>2, RowsWritten, RunLeft
<1> QED BY <1>2, <1>3

-----------------------------------------------------------------------------
\* When all results of a run without a checkpoint are in, every variant has a row, and
\* the first of the ranking is a variant that no other beats.
LEMMA FirstIsBest ==
  ASSUME RunInv, phase = "over", ~task.keep, NEW ranked, ranked = RankVariants(rows)
  PROVE  /\ \E S : ranked \in Seq(S)
         /\ 1 \in DOMAIN ranked
         /\ {ranked[k].name : k \in DOMAIN ranked} = Range(Variants)
         /\ \A k, l \in DOMAIN ranked :
              ranked[k].name = ranked[1].name => ranked[k].score >= ranked[l].score
<1>1. (\E S : rows \in Seq(S)) /\ Scored(rows) /\ Distinct(rows)
  BY DEF RunInv, RowsInv, Scored, OwnRow, Range
<1>2. PICK order : Ranking(rows, order)
  BY <1>1, RowsRanked
<1>3. /\ DOMAIN ranked = DOMAIN rows
      /\ \A k \in DOMAIN rows : order[k] \in DOMAIN rows /\ ranked[k] = rows[order[k]]
      /\ \A k, l \in DOMAIN rows : k <= l => ranked[k].score >= ranked[l].score
  BY <1>2 DEF Ranking, Bijection, Injection
<1>4. 0 \in 0..Len(rows)
  BY <1>1
<1>5. (\E S : ranked \in Seq(S)) /\ Range(ranked) = Range(rows)
  BY <1>1, <1>4, RankedRows
<1>6. \A r \in Range(ranked) : /\ Place(r) \in Index /\ r.name = Variants[Place(r)]
                               /\ r.score = Score[Place(r)][task.basis.end]
  BY <1>5 DEF RunInv, RowsInv, OwnRow
<1>7. \A i \in Index : \E r \in Range(ranked) : Place(r) = i
  <2> SUFFICES ASSUME NEW i \in Index PROVE HasRow(i)
    BY <1>5 DEF HasRow
  <2>1. job[i] \in Status /\ i \notin Unfinished /\ Range(finished) = {}
    BY EmptyRows DEF RunInv, JobInv, SeenInv
  <2>2. job[i] = "done"
    BY <2>1 DEF Status, Unfinished, Working, With, RunInv, SeenInv, Active
  <2> QED BY <2>1, <2>2 DEF RunInv, SeenInv, Active
<1>8. /\ \A r \in Range(ranked) : \E k \in DOMAIN ranked : r = ranked[k]
      /\ \A k \in DOMAIN ranked : ranked[k] \in Range(ranked)
  BY DEF Range
<1>9. 1 \in DOMAIN ranked
  <2>1. 1 \in Index
    BY VariantsAssumption DEF Index
  <2>2. \E k \in DOMAIN ranked : TRUE
    BY <1>7, <1>8, <2>1
  <2> QED BY <1>5, <2>2
<1>10. \A x : x \in {ranked[k].name : k \in DOMAIN ranked} <=> x \in Range(Variants)
  <2>1. \A x : x \in Range(Variants) <=> \E i \in Index : x = Variants[i]
    BY DEF Range, Index
  <2>2. ASSUME NEW i \in Index PROVE \E k \in DOMAIN ranked : ranked[k].name = Variants[i]
    BY <1>6, <1>7, <1>8
  <2>3. ASSUME NEW k \in DOMAIN ranked PROVE \E i \in Index : ranked[k].name = Variants[i]
    BY <1>6, <1>8
  <2> QED BY <2>1, <2>2, <2>3
<1>11. \A k, l \in DOMAIN ranked :
         ranked[k].name = ranked[1].name => ranked[k].score >= ranked[l].score
  <2> SUFFICES ASSUME NEW k \in DOMAIN ranked, NEW l \in DOMAIN ranked, ranked[k].name = ranked[1].name
               PROVE  ranked[k].score >= ranked[l].score
    OBVIOUS
  <2>1. Place(ranked[k]) = Place(ranked[1])
    BY <1>6, <1>8, <1>9, VariantsAssumption DEF IsInjective, Index
  <2>2. ranked[k].score = ranked[1].score
    BY <1>6, <1>8, <1>9, <2>1
  <2>3. 1 <= l
    BY <1>5
  <2> QED BY <1>3, <1>9, <2>2, <2>3
<1> QED BY <1>5, <1>9, <1>10, <1>11

-----------------------------------------------------------------------------
\* How many rows there are.

\* Rows of distinct variants are at most as many as the variants.
LEMMA RowsFit ==
  ASSUME NEW rs, NEW S, rs \in Seq(S), Distinct(rs), \A r \in Range(rs) : OwnRow(r)
  PROVE  Len(rs) <= Len(Variants)
<1> DEFINE n == Len(rs)
           m == Len(Variants)
           f == [k \in 1..n |-> Place(rs[k])]
<1>1. n \in Nat /\ DOMAIN rs = 1..n
  OBVIOUS
<1>2. m \in Nat /\ Index = 1..m
  BY VariantsAssumption DEF Index
<1> HIDE DEF n, m
<1>3. \A k \in 1..n : f[k] = Place(rs[k]) /\ f[k] \in 1..m /\ rs[k].name = Variants[f[k]]
  BY <1>1, <1>2 DEF Range, OwnRow
<1> HIDE DEF f
<1>4. f \in Injection(1..n, 1..m)
  <2>1. f \in [1..n -> 1..m]
    BY <1>3 DEF f
  <2>2. \A k, l \in 1..n : f[k] = f[l] => k = l
    BY <1>1, <1>3 DEF Distinct
  <2> QED BY <2>1, <2>2 DEF Injection, IsInjective
<1>5. /\ IsFiniteSet(1..n) /\ Cardinality(1..n) = n
      /\ IsFiniteSet(1..m) /\ Cardinality(1..m) = m
  BY <1>1, <1>2, FirstNumbers
<1>6. Cardinality(1..n) <= Cardinality(1..m)
  BY <1>4, <1>5, FS_Injection
<1> QED BY <1>5, <1>6 DEF n, m

\* The rows in hand and those of the checkpoint are no more than were asked for.
LEMMA RowsBounded == RunInv => Len(rows) <= Len(Variants) /\ Len(file.rows) <= Len(Variants)
BY RowsFit DEF RunInv, RowsInv, FileInv
=============================================================================
