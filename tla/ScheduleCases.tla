---------------------------- MODULE ScheduleCases ---------------------------
(***************************************************************************)
(* Requests an entry point of the pool can make, and what the schedule     *)
(* derived from one has to be.                                             *)
(***************************************************************************)
EXTENDS WorkerSchedule, FiniteSets

CONSTANTS
  MaxLen,     \* bound on the rows of one projection
  MaxTokens,  \* bound on the tokens of a batch
  MaxThreads  \* bound on the threads asked for

\* A request: entry point, rows of the three fused projections (zero when
\* absent), tokens and threads.
RequestsOf(kind) ==
  [kind : {kind}, lens : (1 .. MaxLen) \X (0 .. MaxLen) \X (0 .. MaxLen),
   tokens : 1 .. MaxTokens, threads : 1 .. MaxThreads]

RowsOf(r) == r.lens[1] + r.lens[2] + r.lens[3]
JobFor(r) == JobOf([kind |-> r.kind, items |-> RowsOf(r), tokens |-> r.tokens, workers |-> r.threads])
UnitsIn(job) == 0 .. job.units - 1

\* A job never needs more helpers than the pool has, and a participant that
\* shares it statically gets at least one item.
SharesFitThePool(job) ==
  /\ job.workers \in 1 .. MaxWorkers
  /\ ~job.dynamic => \A u \in UnitsIn(job) : UnitItems(job, u) # {}

\* Every item is in exactly one unit, so that computing each unit once writes
\* each output row once.
UnitsPartitionItems(job) ==
  \A i \in 0 .. job.items - 1 : Cardinality({u \in UnitsIn(job) : i \in UnitItems(job, u)}) = 1

\* No row is dropped or repeated at the seams of a fused job.
FusedRowsPartition(job, lens) ==
  /\ \A k \in 1 .. 3 : \A i \in 0 .. lens[k] - 1 :
       Cardinality({u \in UnitsIn(job) : i \in ProjectionRows(job, lens, u, k)}) = 1
  /\ \A u \in UnitsIn(job) :
       Cardinality(UnitItems(job, u)) =
         Cardinality({row \in (1 .. 3) \X (0 .. MaxLen - 1) : row[2] \in ProjectionRows(job, lens, u, row[1])})

\* parallel_range's comment: dropping workers past the point where the largest
\* share stops shrinking costs no speed.
LargestShare(r, workers) == DivCeil(RowsOf(r), workers)
FewerRangeWorkersAreAsFast(r) ==
  LargestShare(r, RangeWorkers(r.threads, RowsOf(r))) = LargestShare(r, Least(r.threads, RowsOf(r)))

SharesTheWork(r) ==
  LET job == JobFor(r)
  IN  /\ SharesFitThePool(job)
      /\ UnitsPartitionItems(job)
      /\ job.items = RowsOf(r) => FusedRowsPartition(job, r.lens)
      /\ FewerRangeWorkersAreAsFast(r)
=============================================================================
