---------------------------- MODULE VariantRun -----------------------------
(***************************************************************************)
(* Running a list of variants on one replay plan                           *)
(* (run_comprehensive_backtest_variants): one after the other, or in a     *)
(* pool of processes that read the plan from a temporary file, with a      *)
(* checkpoint file rewritten after every row that comes in.                *)
(*                                                                         *)
(* A variant is a sequence of settings with their values; its backtest is  *)
(* kept in memory, its result a score and whether there was a trade, which *)
(* depend on variant and plan alone.  A grid exports it to a directory of  *)
(* the variant, one file after the other.  The database path a row carries *)
(* is left out: nothing is ever written there.                             *)
(***************************************************************************)
EXTENDS Integers, Sequences, FiniteSets, FiniteSetsExt, SequencesExt

CONSTANTS
  GridSettings,  \* --grid-setting: a sequence of [key, values]
  TakeProfit,    \* the configured take_profit_pct
  NeighborStep,  \* --tp-neighbor-step-pct
  NeighborCount, \* --tp-neighbor-count
  Profiles,      \* --stress-profile: a sequence of names
  Workers,       \* --variant-workers, BACKTEST_VARIANT_WORKERS
  Score,         \* what a variant earns on a plan that ends at a time
  TradedEnds     \* per variant, the ends of the plans it trades on

ASSUME WorkersAssumption == Workers \in Nat \ {0}

-----------------------------------------------------------------------------
(* The request. *)

Joined(names, others) ==
  FlattenSeq([i \in DOMAIN names |-> [j \in DOMAIN others |-> names[i] \o others[j]]])

BuildVariantSpecs ==
  IF GridSettings = <<>> THEN <<>>
  ELSE FoldLeft(LAMBDA names, g : Joined(names, [j \in DOMAIN g.values |-> << <<g.key, g.values[j]>> >>]),
                << <<>> >>, GridSettings)

StressVariantSpecs == [i \in DOMAIN Profiles |-> << <<"stress", Profiles[i]>> >>]

TakeProfitNeighborSpecs ==
  LET ring == [i \in 1..(2 * NeighborCount + 1) |-> TakeProfit + (i - 1 - NeighborCount) * NeighborStep]
      usable == SelectSeq(ring, LAMBDA pct : pct > 0)
  IN [i \in DOMAIN usable |-> << <<"take_profit_pct", usable[i]>> >>]

CombineVariantSpecs(names, others) ==
  IF names = <<>> THEN others ELSE IF others = <<>> THEN names ELSE Joined(names, others)

Variants ==
  CombineVariantSpecs(CombineVariantSpecs(BuildVariantSpecs, TakeProfitNeighborSpecs), StressVariantSpecs)

Index == DOMAIN Variants

\* A request without variants is run as one, the baseline; and none is asked for
\* twice, so that variants.index finds the place of a variant.
ASSUME VariantsAssumption ==
  Variants # <<>> /\ Variants \in Seq(Range(Variants)) /\ IsInjective(Variants)

-----------------------------------------------------------------------------

VARIABLES
  file,      \* variant_summary.csv: its whole rows, and is there a torn one
  exports,   \* variants/<name>: per variant, the plan its trades and its curve are of
  phase,     \* where the runner stands
  task,      \* of this run: checkpointed and exported, plan, pool, worker count
  job,       \* per variant: kept from the checkpoint, queued, running, exporting, done, failed
  finished,  \* variants whose result the runner has not seen yet, oldest first
  rows,      \* rows so far
  snapshot   \* the temporary file that holds the plan is there

runVars == <<file, exports, phase, task, job, finished, rows, snapshot>>

Idle == [keep |-> FALSE, basis |-> <<>>, pooled |-> FALSE, workers |-> 1]

RunTypeOK ==
  /\ file.torn \in BOOLEAN /\ Len(file.rows) <= Len(Variants)
  /\ phase \in {"idle", "sequential", "pool", "rewriting", "draining", "over", "exporting", "raised"}
  /\ job \in [Index -> {"kept", "queued", "running", "exporting", "done", "failed"}]
  /\ IsInjective(finished) /\ \A i \in Range(finished) : job[i] \in {"done", "failed"}
  /\ Len(rows) <= Len(Variants)
  /\ task.workers \in 1..Workers
  /\ snapshot \in BOOLEAN

RunInit ==
  /\ file = [rows |-> <<>>, torn |-> FALSE]
  /\ exports = [i \in Index |-> [trades |-> {}, curve |-> {}]]
  /\ phase = "idle" /\ task = Idle
  /\ job = [i \in Index |-> "kept"]
  /\ finished = <<>> /\ rows = <<>> /\ snapshot = FALSE

Names(rs) == {rs[i].name : i \in DOMAIN rs}

With(s) == {i \in Index : job[i] = s}
Working == With("running") \cup With("exporting")
Unfinished == With("queued") \cup Working

Trades(i) == task.basis.end \in TradedEnds[i]

\* The directory of a row, 0 where the run exports nothing.
ExportDir(i) == IF task.keep THEN i ELSE 0

SummaryRow(i) ==
  [name |-> Variants[i], dir |-> ExportDir(i), basis |-> task.basis,
   score |-> Score[i][task.basis.end], traded |-> Trades(i)]

\* Mutant: the worst first.
WorstFirst(rs) ==
  LET Before(i, j) == rs[i].score < rs[j].score \/ (rs[i].score = rs[j].score /\ i < j)
      Place(i) == Cardinality({j \in DOMAIN rs : Before(j, i)}) + 1
  IN [k \in DOMAIN rs |-> rs[CHOOSE i \in DOMAIN rs : Place(i) = k]]

\* Best first; sorted() keeps the order of equals, also in reverse.
RankVariants(rs) ==
  LET Before(i, j) == rs[i].score > rs[j].score \/ (rs[i].score = rs[j].score /\ i < j)
      Place(i) == Cardinality({j \in DOMAIN rs : Before(j, i)}) + 1
  IN [k \in DOMAIN rs |-> rs[CHOOSE i \in DOMAIN rs : Place(i) = k]]

-----------------------------------------------------------------------------
(* One run. *)

\* A torn row lacks columns: loading it raises.
LoadFails(keep) == keep /\ file.torn

Loaded(keep) == IF keep THEN file.rows ELSE <<>>

\* Mutant: what the checkpoint holds is run and appended again.
PendingAll(keep) == Index

Pending(keep) == {i \in Index : Variants[i] \notin Names(Loaded(keep))}

Begin(keep, basis, next, pooled, workers) ==
  /\ phase = "idle"
  /\ phase' = next
  /\ task' = [keep |-> keep, basis |-> basis, pooled |-> pooled, workers |-> workers]
  /\ job' = [i \in Index |-> IF i \in Pending(keep) THEN "queued" ELSE "kept"]
  /\ rows' = Loaded(keep)
  /\ finished' = <<>>
  /\ snapshot' = pooled
  /\ UNCHANGED <<file, exports>>

BeginUnreadable(keep) ==
  /\ phase = "idle" /\ LoadFails(keep)
  /\ phase' = "raised"
  /\ UNCHANGED <<file, exports, task, job, finished, rows, snapshot>>

BeginSequential(keep, basis) ==
  /\ ~LoadFails(keep)
  /\ Workers = 1 \/ Cardinality(Pending(keep)) <= 1
  /\ Begin(keep, basis, "sequential", FALSE, 1)

\* The free memory decides how many of the workers asked for there are.
SafeVariantWorkerCounts(keep) == 1..Min({Workers, Cardinality(Pending(keep))})

BeginPool(keep, basis) ==
  /\ ~LoadFails(keep)
  /\ Workers > 1 /\ Cardinality(Pending(keep)) > 1
  /\ \E workers \in SafeVariantWorkerCounts(keep) : Begin(keep, basis, "pool", TRUE, workers)

\* A worker loads the plan and runs the backtest.
Take(i) ==
  /\ i \in With("queued") /\ \A j \in With("queued") : i <= j
  /\ IF task.pooled
       THEN /\ phase \in {"pool", "rewriting", "draining"}
            /\ Cardinality(Working) < task.workers
       ELSE phase = "sequential" /\ Working = {} /\ finished = <<>>
  /\ job' = [job EXCEPT ![i] = "running"]
  /\ UNCHANGED <<file, exports, phase, task, finished, rows, snapshot>>

\* Mutant: a directory that is there is left as it is.
ExportOnce(i) ==
  /\ i \in With("running") /\ task.keep
  /\ job' = [job EXCEPT ![i] = "exporting"]
  /\ exports' = IF Trades(i) /\ exports[i].trades = {}
                  THEN [exports EXCEPT ![i].trades = {task.basis}] ELSE exports
  /\ UNCHANGED <<file, phase, task, finished, rows, snapshot>>

\* The trades are written first; without one, a file of an earlier run stays.
ExportTrades(i) ==
  /\ i \in With("running") /\ task.keep
  /\ job' = [job EXCEPT ![i] = "exporting"]
  /\ exports' = IF Trades(i) THEN [exports EXCEPT ![i].trades = {task.basis}] ELSE exports
  /\ UNCHANGED <<file, phase, task, finished, rows, snapshot>>

Complete(i) ==
  /\ i \in With(IF task.keep THEN "exporting" ELSE "running")
  /\ job' = [job EXCEPT ![i] = "done"]
  /\ finished' = Append(finished, i)
  /\ exports' = IF task.keep THEN [exports EXCEPT ![i].curve = {task.basis}] ELSE exports
  /\ UNCHANGED <<file, phase, task, rows, snapshot>>

Fail(i) ==
  /\ i \in Working
  /\ job' = [job EXCEPT ![i] = "failed"]
  /\ finished' = Append(finished, i)
  /\ UNCHANGED <<file, exports, phase, task, rows, snapshot>>

\* A row has come in; opening the checkpoint for writing empties it.
CollectRow ==
  /\ phase \in {"sequential", "pool"} /\ finished # <<>> /\ job[Head(finished)] = "done"
  /\ rows' = Append(rows, SummaryRow(Head(finished)))
  /\ finished' = Tail(finished)
  /\ IF task.keep
       THEN phase' = "rewriting" /\ file' = [rows |-> <<>>, torn |-> FALSE]
       ELSE UNCHANGED <<phase, file>>
  /\ UNCHANGED <<exports, task, job, snapshot>>

CollectFailure ==
  /\ phase \in {"sequential", "pool"} /\ finished # <<>> /\ job[Head(finished)] = "failed"
  /\ finished' = Tail(finished)
  /\ phase' = IF phase = "pool" THEN "draining" ELSE "raised"
  /\ UNCHANGED <<file, exports, task, job, rows, snapshot>>

WriteCheckpoint ==
  /\ phase = "rewriting"
  /\ file' = [rows |-> RankVariants(rows), torn |-> FALSE]
  /\ phase' = IF task.pooled THEN "pool" ELSE "sequential"
  /\ UNCHANGED <<exports, task, job, finished, rows, snapshot>>

AllCollected ==
  /\ phase \in {"sequential", "pool"} /\ Unfinished = {} /\ finished = <<>>
  /\ phase' = "over"
  /\ snapshot' = FALSE
  /\ UNCHANGED <<file, exports, task, job, finished, rows>>

\* Mutant: the plan is unlinked before the workers are waited for.
DrainEarly ==
  /\ phase = "draining"
  /\ phase' = "raised"
  /\ snapshot' = FALSE
  /\ UNCHANGED <<file, exports, task, job, finished, rows>>

\* executor.shutdown(wait=True) lets what is queued run; nobody takes the rows.
Drain ==
  /\ phase = "draining" /\ Unfinished = {}
  /\ phase' = "raised"
  /\ snapshot' = FALSE
  /\ UNCHANGED <<file, exports, task, job, finished, rows>>

\* The grid writes its result over the checkpoint, which empties it first.
OpenSummary ==
  /\ phase = "over" /\ task.keep
  /\ phase' = "exporting"
  /\ file' = [rows |-> <<>>, torn |-> FALSE]
  /\ UNCHANGED <<exports, task, job, finished, rows, snapshot>>

\* The caller has the result or the exception.
Leave ==
  /\ phase' = "idle" /\ task' = Idle
  /\ job' = [i \in Index |-> "kept"]
  /\ finished' = <<>> /\ rows' = <<>> /\ snapshot' = FALSE

\* A kill leaves what was flushed of the checkpoint: whole rows, then perhaps a part.
Killed ==
  /\ Leave
  /\ IF phase \in {"rewriting", "exporting"}
       THEN \E n \in 0..Len(rows), torn \in BOOLEAN :
              /\ torn => n < Len(rows)
              /\ file' = [rows |-> SubSeq(RankVariants(rows), 1, n), torn |-> torn]
       ELSE UNCHANGED file
=============================================================================
