--------------------------- MODULE WorkerSchedule ---------------------------
(***************************************************************************)
(* How the SIMD worker pool of src/src/simd.rs splits one job into units   *)
(* of work.  An entry point (WorkerPool::run, run_q4k_matvec3,             *)
(* run_kquant_batch3, parallel_range/run_range) clamps the worker count it *)
(* is asked for, decides whether to run on the calling thread alone, and   *)
(* chooses between                                                         *)
(*   - a static schedule: unit u is the u-th even share of the items, run  *)
(*     by participant u, and                                               *)
(*   - a dynamic schedule: unit u is the u-th chunk of a fixed size;       *)
(*     participant p starts with chunk p and claims later chunks from a    *)
(*     shared counter.                                                     *)
(* A request is [kind, items, tokens, workers]: items are output rows (or  *)
(* the length of a range), tokens the batch size of a K-quant batch job.   *)
(***************************************************************************)
EXTENDS Integers

CONSTANTS
  MaxWorkers,                    \* available_parallelism: helpers + the caller
  MATVEC_CHUNK_ROWS,             \* chunk of a (fused) matvec: 64 in the code
  KQUANT_BATCH_CHUNK_ROWS,       \* chunk of a K-quant batch job: 32
  MIN_ROWS_PER_WORKER,           \* the 8 of "rows < workers * 8"
  MIN_DYNAMIC_CHUNKS_PER_WORKER  \* 4

ASSUME ScheduleAssumption ==
  /\ MaxWorkers \in Nat \ {0}
  /\ MATVEC_CHUNK_ROWS \in Nat \ {0}
  /\ KQUANT_BATCH_CHUNK_ROWS \in Nat \ {0}
  /\ MIN_ROWS_PER_WORKER \in Nat
  /\ MIN_DYNAMIC_CHUNKS_PER_WORKER \in Nat

Kinds == {"matvec", "kquant_batch", "range"}

Request == [kind : Kinds, items : Nat \ {0}, tokens : Nat \ {0}, workers : Nat]

Least(a, b) == IF a <= b THEN a ELSE b
AtLeastOne(a) == IF a = 0 THEN 1 ELSE a

\* usize::div_ceil.
DivCeil(a, b) == (a + (b - 1)) \div b

matvec_chunk_count(items) == DivCeil(items, MATVEC_CHUNK_ROWS)

use_dynamic_chunks(items, workers) ==
  matvec_chunk_count(items) >= workers * MIN_DYNAMIC_CHUNKS_PER_WORKER

\* The worker count parallel_range asks for: no more workers than it takes
\* to reach the length of the largest share.
RangeWorkers(threads, len) ==
  LET per_worker == DivCeil(len, AtLeastOne(Least(threads, len)))
  IN  AtLeastOne(DivCeil(len, AtLeastOne(per_worker)))

\* A job as the pool runs it: its shares are split over `workers`
\* participants, or it is cut into chunks of `chunk` items.
StaticJob(items, workers) ==
  [items |-> items, workers |-> workers, dynamic |-> FALSE, chunk |-> 0, units |-> workers]

DynamicJob(items, workers, chunk) ==
  [items |-> items, workers |-> workers, dynamic |-> TRUE, chunk |-> chunk,
   units |-> DivCeil(items, chunk)]

\* Everything on the calling thread, outside the pool's dispatch lock.
SerialJob(items) == StaticJob(items, 1)

\* WorkerPool::run and run_q4k_matvec3.
MatvecJob(r) ==
  LET w == AtLeastOne(Least(Least(r.workers, MaxWorkers), r.items))
  IN  IF w <= 1 \/ r.items < w * MIN_ROWS_PER_WORKER THEN SerialJob(r.items)
      ELSE IF use_dynamic_chunks(r.items, w) THEN DynamicJob(r.items, w, MATVEC_CHUNK_ROWS)
      ELSE StaticJob(r.items, w)

\* WorkerPool::run_kquant_batch3: rows whenever every worker gets one, else
\* whole tokens; a row schedule of several workers is always dynamic.
KQuantBatch3Job(r) ==
  LET available == AtLeastOne(Least(r.workers, MaxWorkers))
      w         == AtLeastOne(Least(available, r.tokens))
  IN  IF r.items >= available
      THEN IF available = 1 THEN SerialJob(r.items)
           ELSE DynamicJob(r.items, available, KQUANT_BATCH_CHUNK_ROWS)
      ELSE StaticJob(r.tokens, w)

\* parallel_range and WorkerPool::run_range.
RangeJob(r) ==
  LET w == AtLeastOne(Least(Least(RangeWorkers(r.workers, r.items), MaxWorkers), r.items))
  IN  StaticJob(r.items, w)

JobOf(r) ==
  CASE r.kind = "matvec"       -> MatvecJob(r)
    [] r.kind = "kquant_batch" -> KQuantBatch3Job(r)
    [] r.kind = "range"        -> RangeJob(r)

Parallel(job) == job.workers > 1

\* First item of unit u of a job, and one past its last item.
StaticStart(job, u) == (job.items * u) \div job.workers
UnitStart(job, u) == IF job.dynamic THEN u * job.chunk ELSE StaticStart(job, u)
UnitEnd(job, u) ==
  IF job.dynamic THEN Least(u * job.chunk + job.chunk, job.items)
                 ELSE StaticStart(job, u + 1)

UnitItems(job, u) == {i \in 0 .. job.items - 1 : UnitStart(job, u) <= i /\ i < UnitEnd(job, u)}

(***************************************************************************)
(* A fused job lays the rows of several projections end to end.            *)
(* clipped_range maps a range of that layout to the part of it inside the  *)
(* projection of `len` rows that starts at `offset`.                       *)
(***************************************************************************)
SaturatingSub(a, b) == IF a >= b THEN a - b ELSE 0

clipped_range(start, end, offset, len) ==
  LET local_start == Least(SaturatingSub(start, offset), len)
      local_end   == Least(SaturatingSub(end, offset), len)
  IN  IF local_end > local_start THEN <<local_start, local_end>> ELSE <<0, 0>>

\* Slip: the third projection is placed after the second alone.
OffsetOfSlip(lens, k) == IF k = 1 THEN 0 ELSE IF k = 2 THEN lens[1] ELSE lens[2]

\* The rows of projection k that unit u of a fused job writes, where `lens`
\* gives the rows of each projection.
OffsetOf(lens, k) == IF k = 1 THEN 0 ELSE IF k = 2 THEN lens[1] ELSE lens[1] + lens[2]

ProjectionRows(job, lens, u, k) ==
  LET range == clipped_range(UnitStart(job, u), UnitEnd(job, u), OffsetOf(lens, k), lens[k])
  IN  {i \in 0 .. lens[k] - 1 : range[1] <= i /\ i < range[2]}
=============================================================================
