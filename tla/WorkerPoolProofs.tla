-------------------------- MODULE WorkerPoolProofs --------------------------
(***************************************************************************)
(* Proofs about the worker pool, for any number of callers and helpers,    *)
(* any set of requests and any number of dispatches.                       *)
(***************************************************************************)
EXTENDS WorkerPool, ScheduleCases, FiniteSetTheorems, TLAPS

(* Rounding up a division of a natural number gives a natural number.      *)
LEMMA DivCeilNat ==
  ASSUME NEW a \in Nat, NEW b \in Nat \ {0}
  PROVE  DivCeil(a, b) \in Nat
BY DEF DivCeil

\* What the protocol needs of a job.
GoodJob(j) ==
  /\ j.workers \in 1 .. MaxWorkers
  /\ j.dynamic \in BOOLEAN
  /\ j.units \in Nat
  /\ ~j.dynamic => j.units = j.workers
  /\ j.dynamic => j.workers > 1

(* What every entry point makes of a request: at most MaxWorkers            *)
(* participants, and as many units as participants in a static job.         *)
LEMMA JobFacts ==
  ASSUME NEW r \in Request
  PROVE  GoodJob(JobOf(r))
<1> USE ScheduleAssumption
<1>1. ASSUME NEW items \in Nat, NEW w \in 1 .. MaxWorkers
      PROVE  GoodJob(StaticJob(items, w))
  BY DEF StaticJob, GoodJob
<1>2. ASSUME NEW items \in Nat, NEW w \in 1 .. MaxWorkers, w > 1, NEW chunk \in Nat \ {0}
      PROVE  GoodJob(DynamicJob(items, w, chunk))
  <2>1. DivCeil(items, chunk) \in Nat
    BY DivCeilNat
  <2>2. w \in 1 .. MaxWorkers /\ w > 1
    BY <1>2
  <2> HIDE DEF DivCeil
  <2> QED
    BY <2>1, <2>2 DEF DynamicJob, GoodJob
<1>0. 1 \in 1 .. MaxWorkers
  OBVIOUS
<1>3. ASSUME NEW a \in Nat, NEW b \in Nat
      PROVE  AtLeastOne(Least(Least(a, MaxWorkers), b)) \in 1 .. MaxWorkers
  BY DEF AtLeastOne, Least
<1>4. CASE r.kind = "matvec"
  <2>1. JobOf(r) = MatvecJob(r)
    BY <1>4 DEF JobOf
  <2> DEFINE w == AtLeastOne(Least(Least(r.workers, MaxWorkers), r.items))
  <2>2. w \in 1 .. MaxWorkers
    BY <1>3 DEF Request
  <2>3. \/ JobOf(r) = StaticJob(r.items, 1)
        \/ JobOf(r) = DynamicJob(r.items, w, MATVEC_CHUNK_ROWS) /\ ~(w <= 1)
        \/ JobOf(r) = StaticJob(r.items, w)
    BY <2>1, Zenon DEF MatvecJob, SerialJob
  <2> HIDE DEF w
  <2>4. ~(w <= 1) => w > 1
    BY <2>2
  <2> QED
    BY <2>2, <2>3, <2>4, <1>0, <1>1, <1>2 DEF Request
<1>5. CASE r.kind = "kquant_batch"
  <2>1. JobOf(r) = KQuantBatch3Job(r)
    BY <1>5 DEF JobOf
  <2>2. AtLeastOne(Least(r.workers, MaxWorkers)) \in 1 .. MaxWorkers
    BY DEF AtLeastOne, Least, Request
  <2>3. AtLeastOne(Least(AtLeastOne(Least(r.workers, MaxWorkers)), r.tokens)) \in 1 .. MaxWorkers
    BY <2>2 DEF AtLeastOne, Least, Request
  <2> DEFINE available == AtLeastOne(Least(r.workers, MaxWorkers))
             w == AtLeastOne(Least(available, r.tokens))
  <2>4. \/ JobOf(r) = StaticJob(r.items, 1)
        \/ JobOf(r) = DynamicJob(r.items, available, KQUANT_BATCH_CHUNK_ROWS) /\ available # 1
        \/ JobOf(r) = StaticJob(r.tokens, w)
    BY <2>1, Zenon DEF KQuantBatch3Job, SerialJob
  <2> HIDE DEF available, w
  <2>5. available \in 1 .. MaxWorkers /\ w \in 1 .. MaxWorkers
    BY <2>2, <2>3 DEF available, w
  <2>6. available # 1 => available > 1
    BY <2>5
  <2> QED
    BY <2>4, <2>5, <2>6, <1>0, <1>1, <1>2 DEF Request
<1>6. CASE r.kind = "range"
  <2>1. JobOf(r) = RangeJob(r)
    BY <1>6 DEF JobOf
  <2>2. RangeWorkers(r.workers, r.items) \in Nat
    <3>1. AtLeastOne(Least(r.workers, r.items)) \in Nat \ {0}
      BY DEF AtLeastOne, Least, Request
    <3>2. DivCeil(r.items, AtLeastOne(Least(r.workers, r.items))) \in Nat
      BY <3>1, DivCeilNat DEF Request
    <3>3. AtLeastOne(DivCeil(r.items, AtLeastOne(Least(r.workers, r.items)))) \in Nat \ {0}
      BY <3>2 DEF AtLeastOne
    <3>4. DivCeil(r.items, AtLeastOne(DivCeil(r.items, AtLeastOne(Least(r.workers, r.items))))) \in Nat
      BY <3>3, DivCeilNat DEF Request
    <3> QED
      BY <3>4 DEF RangeWorkers, AtLeastOne
  <2> DEFINE w == AtLeastOne(Least(Least(RangeWorkers(r.workers, r.items), MaxWorkers), r.items))
  <2>3. w \in 1 .. MaxWorkers
    BY <2>2, <1>3 DEF Request
  <2>4. JobOf(r) = StaticJob(r.items, w)
    BY <2>1 DEF RangeJob
  <2> HIDE DEF w
  <2> QED
    BY <2>3, <2>4, <1>1 DEF Request
<1> QED
  BY <1>4, <1>5, <1>6 DEF Request, Kinds

(* The same of the jobs of this pool.                                       *)
LEMMA WorkFacts ==
  ASSUME NEW w \in Work
  PROVE  /\ w.units \in Nat
         /\ w.workers \in Nat
         /\ w # NoWork => GoodJob(w)
<1>1. CASE w = NoWork
  BY <1>1 DEF NoWork
<1>2. CASE w \in Jobs
  <2>1. PICK r \in Requests : w = JobOf(r)
    BY <1>2 DEF Jobs
  <2>2. GoodJob(w)
    BY <2>1, JobFacts, PoolAssumption
  <2> QED
    BY <2>2, ScheduleAssumption DEF GoodJob
<1> QED
  BY <1>1, <1>2 DEF Work

-----------------------------------------------------------------------------
(* Type correctness. *)

LEMMA InitTypeOK == Init => TypeOK
BY DEF Init, TypeOK, Work, NoJob, CallerStates, HelperStates

(* A claim leaves the counter and the shard's unit natural numbers.         *)
LEMMA ClaimType ==
  ASSUME TypeOK, NEW s \in Shards, NEW w \in Work, Claim(s, w)
  PROVE  current_chunk' \in Nat /\ unit' \in [Shards -> Nat]
<1>1. w.units \in Nat
  BY WorkFacts
<1>2. CASE w.dynamic
  <2>1. unit' = [unit EXCEPT ![s] = current_chunk] /\ current_chunk' = current_chunk + 1
    BY <1>2, Zenon DEF Claim
  <2> QED
    BY <2>1 DEF TypeOK
<1>3. CASE ~w.dynamic
  <2>1. unit' = [unit EXCEPT ![s] = w.units] /\ current_chunk' = current_chunk
    BY <1>3, Zenon DEF Claim
  <2> QED
    BY <2>1, <1>1 DEF TypeOK
<1> QED
  BY <1>2, <1>3

(* Computing a unit only counts it in the job's buffer.                     *)
LEMMA ComputeType ==
  ASSUME TypeOK, NEW s, NEW out, Compute(s, out)
  PROVE  ran' \in [Callers -> [Units -> Nat]]
<1>1. CASE out \in Callers
  <2> DEFINE row == [ran[out] EXCEPT ![unit[s]] = ran[out][unit[s]] + 1]
  <2>1. ran' = [ran EXCEPT ![out] = row]
    BY DEF Compute
  <2>2. row \in [Units -> Nat]
    <3>1. ran[out] \in [Units -> Nat]
      BY <1>1 DEF TypeOK
    <3>2. unit[s] \in Units => ran[out][unit[s]] + 1 \in Nat
      BY <3>1
    <3> QED
      BY <3>1, <3>2
  <2> QED
    BY <2>1, <2>2 DEF TypeOK
<1>2. CASE out \notin Callers
  <2>1. ran' = ran
    BY <1>2 DEF Compute, TypeOK
  <2> QED
    BY <2>1 DEF TypeOK
<1> QED
  BY <1>1, <1>2

LEMMA NextTypeOK == TypeOK /\ [Next]_vars => TypeOK'
<1> SUFFICES ASSUME TypeOK, [Next]_vars PROVE TypeOK'
  OBVIOUS
<1> USE ScheduleAssumption, PoolAssumption DEF loopVars, slotVars, callerVars
<1> HIDE DEF Units, Work, Jobs
<1>a. Callers # {} /\ 0 \in Shards /\ Helpers \subseteq Shards
  BY DEF Shards, Helpers
<1>1. ASSUME NEW c \in Callers, NEW r \in Requests, Call(c, r) PROVE TypeOK'
  <2>1. JobOf(r) \in Work
    BY DEF Work, Jobs
  <2>2. ran' \in [Callers -> [Units -> Nat]]
    <3>1. PICK row : ran' = [ran EXCEPT ![c] = row] /\ row \in [Units -> Nat]
      <4>1. [u \in Units |-> 0] \in [Units -> Nat]
        OBVIOUS
      <4>2. [u \in Units |-> IF u = 0 THEN 1 ELSE 0] \in [Units -> Nat]
        OBVIOUS
      <4> QED
        BY <1>1, <4>1, <4>2, Zenon DEF Call
    <3> QED
      BY <3>1 DEF TypeOK
  <2>3. cpc' \in [Callers -> CallerStates]
    BY <1>1 DEF Call, TypeOK, CallerStates
  <2>4. cjob' \in [Callers -> Work]
    BY <1>1, <2>1 DEF Call, TypeOK
  <2> QED
    BY <1>1, <2>2, <2>3, <2>4 DEF Call, TypeOK
<1>2. ASSUME NEW c \in Callers, Lock(c) PROVE TypeOK'
  BY <1>2 DEF Lock, TypeOK, CallerStates
<1>3. ASSUME NEW c \in Callers, WriteJob(c) PROVE TypeOK'
  BY <1>3 DEF WriteJob, DispatcherStep, TypeOK, CallerStates
<1>4. ASSUME NEW c \in Callers, ResetChunk(c) PROVE TypeOK'
  <2>1. job.work.workers \in Nat
    BY WorkFacts DEF TypeOK
  <2> QED
    BY <1>4, <2>1, <1>a DEF ResetChunk, DispatcherStep, TypeOK, CallerStates
<1>5. ASSUME NEW c \in Callers, WakeHelper(c) PROVE TypeOK'
  <2>1. wake' \in [Helpers -> Nat]
    <3>1. Dispatching \in Nat
      BY DEF Dispatching, TypeOK
    <3>2. wake' = [wake EXCEPT ![cursor] = Dispatching] /\ wake \in [Helpers -> Nat]
      BY <1>5 DEF WakeHelper, TypeOK
    <3> HIDE DEF Dispatching
    <3> QED
      BY <3>1, <3>2
  <2>2. cpc' \in [Callers -> CallerStates] /\ cursor' \in Nat
    BY <1>5 DEF WakeHelper, SlotLoop, DispatcherStep, TypeOK, CallerStates
  <2> QED
    BY <1>5, <2>1, <2>2 DEF WakeHelper, SlotLoop, TypeOK
<1>6. ASSUME NEW c \in Callers, UnparkHelper(c) PROVE TypeOK'
  <2>1. token' \in [Helpers -> BOOLEAN]
    BY <1>6 DEF UnparkHelper, TypeOK
  <2>2. cpc' \in [Callers -> CallerStates] /\ cursor' \in Nat
    BY <1>6 DEF UnparkHelper, SlotLoop, DispatcherStep, TypeOK, CallerStates
  <2> QED
    BY <1>6, <2>1, <2>2 DEF UnparkHelper, SlotLoop, TypeOK
<1>7. ASSUME NEW c \in Callers, RunShard0(c) PROVE TypeOK'
  BY <1>7, ComputeType DEF RunShard0, DispatcherStep, TypeOK, CallerStates
<1>8. ASSUME NEW c \in Callers, ClaimShard0(c) PROVE TypeOK'
  <2>1. cjob[c] \in Work
    BY DEF TypeOK
  <2>2. current_chunk' \in Nat /\ unit' \in [Shards -> Nat]
    BY <1>8, <1>a, <2>1, ClaimType DEF ClaimShard0
  <2> QED
    BY <1>8, <2>2 DEF ClaimShard0, DispatcherStep, TypeOK, CallerStates
<1>9. ASSUME NEW c \in Callers, FinishShard0(c) PROVE TypeOK'
  BY <1>9 DEF FinishShard0, DispatcherStep, TypeOK, CallerStates
<1>10. ASSUME NEW c \in Callers, AwaitHelper(c) PROVE TypeOK'
  BY <1>10 DEF AwaitHelper, SlotLoop, DispatcherStep, TypeOK, CallerStates
<1>11. ASSUME NEW c \in Callers, Unlock(c) PROVE TypeOK'
  BY <1>11 DEF Unlock, DispatcherStep, Dispatching, TypeOK, CallerStates
<1>12. ASSUME NEW c \in Callers, Leave(c) PROVE TypeOK'
  BY <1>12 DEF Leave, TypeOK, CallerStates
<1>13. ASSUME NEW h \in Helpers, PublishHandle(h) PROVE TypeOK'
  BY <1>13 DEF PublishHandle, HelperStep, TypeOK, HelperStates
<1>14. ASSUME NEW h \in Helpers, ReadInitialWake(h) PROVE TypeOK'
  BY <1>14 DEF ReadInitialWake, HelperStep, TypeOK, HelperStates
<1>15. ASSUME NEW h \in Helpers, SeeWake(h) PROVE TypeOK'
  BY <1>15 DEF SeeWake, TypeOK, HelperStates
<1>16. ASSUME NEW h \in Helpers, SeeNoWake(h) PROVE TypeOK'
  BY <1>16 DEF SeeNoWake, TypeOK, HelperStates
<1>17. ASSUME NEW h \in Helpers, Unparked(h) PROVE TypeOK'
  BY <1>17 DEF Unparked, HelperStep, TypeOK, HelperStates
<1>18. ASSUME NEW h \in Helpers, SpuriousReturn(h) PROVE TypeOK'
  BY <1>18 DEF SpuriousReturn, HelperStep, TypeOK, HelperStates
<1>19. ASSUME NEW h \in Helpers, ReadJob(h) PROVE TypeOK'
  <2>1. unit' \in [Shards -> Nat]
    BY <1>19, <1>a DEF ReadJob, TypeOK, Helpers
  <2> QED
    BY <1>19, <2>1 DEF ReadJob, HelperStep, TypeOK, HelperStates
<1>20. ASSUME NEW h \in Helpers, RunShard(h) PROVE TypeOK'
  BY <1>20, ComputeType DEF RunShard, HelperStep, TypeOK, HelperStates
<1>21. ASSUME NEW h \in Helpers, ClaimShard(h) PROVE TypeOK'
  <2>1. hjob[h].work \in Work /\ h \in Shards
    BY <1>a DEF TypeOK
  <2>2. current_chunk' \in Nat /\ unit' \in [Shards -> Nat]
    BY <1>21, <2>1, ClaimType DEF ClaimShard
  <2> QED
    BY <1>21, <2>2 DEF ClaimShard, HelperStep, TypeOK, HelperStates
<1>22. ASSUME NEW h \in Helpers, FinishShard(h) PROVE TypeOK'
  BY <1>22 DEF FinishShard, HelperStep, TypeOK, HelperStates
<1>23. ASSUME NEW h \in Helpers, Report(h) PROVE TypeOK'
  BY <1>23 DEF Report, HelperStep, TypeOK, HelperStates
<1>24. CASE UNCHANGED vars
  BY <1>24 DEF vars, TypeOK
<1> QED
  BY <1>1, <1>2, <1>3, <1>4, <1>5, <1>6, <1>7, <1>8, <1>9, <1>10, <1>11, <1>12,
     <1>13, <1>14, <1>15, <1>16, <1>17, <1>18, <1>19, <1>20, <1>21, <1>22, <1>23, <1>24
  DEF Next, CallerRuns, HelperRuns

(* Every variable keeps its type in every reachable state.                  *)
THEOREM TypeCorrect == Spec => []TypeOK
BY InitTypeOK, NextTypeOK, PTL DEF Spec

-----------------------------------------------------------------------------
(* The job slot. *)

\* What no step of a helper changes.
HelperFrame == UNCHANGED <<dispatch, cpc, cjob, cursor, job, generation, wake>>

(* A helper changes neither the job slot nor anything of a caller.          *)
LEMMA HelperStepsFrame ==
  ASSUME NEW h \in Helpers, HelperRuns(h) \/ SpuriousReturn(h)
  PROVE  HelperFrame
BY DEF HelperFrame, HelperRuns, PublishHandle, ReadInitialWake, SeeWake, SeeNoWake, Unparked,
       ReadJob, RunShard, ClaimShard, FinishShard, Report, SpuriousReturn, callerVars, slotVars

(* At most one caller is inside run_job's critical section.                 *)
LEMMA NextMutex == TypeOK /\ MutexInv /\ [Next]_vars => MutexInv'
<1> SUFFICES ASSUME TypeOK, MutexInv, [Next]_vars PROVE MutexInv'
  OBVIOUS
<1> USE PoolAssumption DEF MutexInv, InDispatch
<1>1. ASSUME NEW c \in Callers, NEW r \in Requests, Call(c, r) PROVE MutexInv'
  BY <1>1 DEF Call, TypeOK
<1>2. ASSUME NEW c \in Callers, Lock(c) PROVE MutexInv'
  BY <1>2 DEF Lock, TypeOK
<1>3. ASSUME NEW c \in Callers, Unlock(c) PROVE MutexInv'
  BY <1>3 DEF Unlock, DispatcherStep, TypeOK
<1>4. ASSUME NEW c \in Callers, Leave(c) PROVE MutexInv'
  BY <1>4 DEF Leave, TypeOK
<1>5. ASSUME NEW c \in Callers,
             WriteJob(c) \/ ResetChunk(c) \/ WakeHelper(c) \/ UnparkHelper(c) \/ RunShard0(c)
               \/ ClaimShard0(c) \/ FinishShard0(c) \/ AwaitHelper(c)
      PROVE  MutexInv'
  BY <1>5 DEF WriteJob, ResetChunk, WakeHelper, UnparkHelper, RunShard0, ClaimShard0,
              FinishShard0, AwaitHelper, SlotLoop, DispatcherStep, TypeOK
<1>6. ASSUME NEW h \in Helpers, HelperRuns(h) \/ SpuriousReturn(h) PROVE MutexInv'
  BY <1>6, HelperStepsFrame DEF HelperFrame
<1>7. CASE UNCHANGED vars
  BY <1>7 DEF vars
<1> QED
  BY <1>1, <1>2, <1>3, <1>4, <1>5, <1>6, <1>7 DEF Next, CallerRuns

(* The job slot holds the dispatcher's job, which needs a helper.           *)
LEMMA NextSlotOwner == TypeOK /\ MutexInv /\ SlotOwnerInv /\ [Next]_vars => SlotOwnerInv'
<1> SUFFICES ASSUME TypeOK, MutexInv, SlotOwnerInv, [Next]_vars PROVE SlotOwnerInv'
  OBVIOUS
<1> USE PoolAssumption DEF SlotOwnerInv, MutexInv, InDispatch, Published, Parallel
<1>1. ASSUME NEW c \in Callers, NEW r \in Requests, Call(c, r) PROVE SlotOwnerInv'
  BY <1>1 DEF Call, TypeOK, LastHelper
<1>2. ASSUME NEW c \in Callers, Lock(c) PROVE SlotOwnerInv'
  BY <1>2 DEF Lock, TypeOK, LastHelper
<1>3. ASSUME NEW c \in Callers, Unlock(c) PROVE SlotOwnerInv'
  BY <1>3 DEF Unlock, DispatcherStep, TypeOK, LastHelper
<1>4. ASSUME NEW c \in Callers, Leave(c) PROVE SlotOwnerInv'
  BY <1>4 DEF Leave, TypeOK, LastHelper
<1>5. ASSUME NEW c \in Callers, WriteJob(c) PROVE SlotOwnerInv'
  BY <1>5 DEF WriteJob, DispatcherStep, TypeOK, LastHelper
<1>6. ASSUME NEW c \in Callers, ResetChunk(c) PROVE SlotOwnerInv'
  <2>1. job.work = cjob[c] /\ cjob[c].workers > 1 /\ cjob[c] \in Work
    BY <1>6 DEF ResetChunk, DispatcherStep, TypeOK
  <2>2. LastHelper >= 1 /\ LastHelper \in Nat
    <3>1. cjob[c] # NoWork
      BY <2>1 DEF NoWork
    <3> QED
      BY <2>1, <3>1, WorkFacts, ScheduleAssumption DEF LastHelper, Least, GoodJob
  <2> QED
    BY <1>6, <2>2 DEF ResetChunk, DispatcherStep, TypeOK, LastHelper
<1>7. ASSUME NEW c \in Callers, WakeHelper(c) \/ UnparkHelper(c) \/ AwaitHelper(c)
      PROVE  SlotOwnerInv'
  <2>1. LastHelper' = LastHelper
    BY <1>7 DEF WakeHelper, UnparkHelper, AwaitHelper, SlotLoop, LastHelper
  <2>2. cursor \in 1 .. LastHelper
    BY <1>7 DEF WakeHelper, UnparkHelper, AwaitHelper, SlotLoop, DispatcherStep, TypeOK
  <2>3. LastHelper \in Int
    BY <2>2, WorkFacts, ScheduleAssumption DEF LastHelper, Least, TypeOK
  <2>4. cursor' \in 1 .. LastHelper
    BY <1>7, <2>2, <2>3 DEF WakeHelper, UnparkHelper, AwaitHelper, SlotLoop
  <2> HIDE DEF LastHelper
  <2> QED
    BY <1>7, <2>1, <2>4
    DEF WakeHelper, UnparkHelper, AwaitHelper, SlotLoop, DispatcherStep, TypeOK
<1>8. ASSUME NEW c \in Callers, RunShard0(c) \/ ClaimShard0(c) \/ FinishShard0(c)
      PROVE  SlotOwnerInv'
  BY <1>8 DEF RunShard0, ClaimShard0, FinishShard0, DispatcherStep, TypeOK, LastHelper
<1>9. ASSUME NEW h \in Helpers, HelperRuns(h) \/ SpuriousReturn(h) PROVE SlotOwnerInv'
  BY <1>9, HelperStepsFrame DEF HelperFrame, LastHelper
<1>10. CASE UNCHANGED vars
  BY <1>10 DEF vars, LastHelper
<1> QED
  BY <1>1, <1>2, <1>3, <1>4, <1>5, <1>6, <1>7, <1>8, <1>9, <1>10 DEF Next, CallerRuns

(* While the dispatcher's loops run, the last helper it needs is the last   *)
(* one below its job's worker count.                                        *)
LEMMA CursorFacts ==
  ASSUME TypeOK, SlotOwnerInv, NEW c \in Callers, Published(c)
  PROVE  /\ job.work.workers \in 2 .. MaxWorkers
         /\ LastHelper = job.work.workers - 1
         /\ cursor \in Helpers
         /\ cursor <= LastHelper
         /\ \A h \in Helpers : Needed(h) <=> h <= LastHelper
<1> USE ScheduleAssumption
<1>1. job.work = cjob[c] /\ cjob[c] \in Work /\ cjob[c].workers > 1 /\ cursor \in 1 .. LastHelper
  BY DEF SlotOwnerInv, Published, InDispatch, Parallel, TypeOK
<1>2. cjob[c] # NoWork
  BY <1>1 DEF NoWork
<1>3. job.work.workers \in 2 .. MaxWorkers
  BY <1>1, <1>2, WorkFacts DEF GoodJob
<1>4. LastHelper = job.work.workers - 1
  BY <1>3 DEF LastHelper, Least
<1> QED
  BY <1>1, <1>3, <1>4 DEF Needed, Helpers

\* The wake words, for the one caller that can have written them.
WokenBy(c) ==
  \A h \in Helpers :
    wake[h] = Dispatching <=> Needed(h) /\ (cpc[c] = "wake" => h < cursor)

(* The existential in WakeInv is about the owner of the mutex.              *)
LEMMA OnlyOwnerWakes ==
  ASSUME TypeOK, MutexInv, NEW c \in Callers, Published(c)
  PROVE  \A h \in Helpers :
           (\E d \in Callers : Published(d) /\ Needed(h) /\ (cpc[d] = "wake" => h < cursor))
             <=> Needed(h) /\ (cpc[c] = "wake" => h < cursor)
BY DEF MutexInv, InDispatch, Published

(* A step of a caller outside the loops of run_job.                         *)
LEMMA QuietCallerStep ==
  ASSUME TypeOK, WakeInv, NEW c \in Callers, NEW st,
         UNCHANGED <<job, cursor, generation, loopVars, slotVars>>,
         ~Published(c), cpc' = [cpc EXCEPT ![c] = st],
         st \in {"lock", "write", "returned", "idle"}
  PROVE  WakeInv'
<1>1. \A d \in Callers : (Published(d))' <=> Published(d)
  BY DEF TypeOK, Published
<1>2. \A d \in Callers : /\ Published(d) => cpc'[d] = cpc[d]
                         /\ ~(Published(d))' => cpc'[d] \notin {"unlock", "wait"}
  BY <1>1 DEF TypeOK, Published
<1>3. \A h \in Helpers :
        (\E d \in Callers : Published(d) /\ Needed(h) /\ (cpc[d] = "wake" => h < cursor))'
          <=> \E d \in Callers : Published(d) /\ Needed(h) /\ (cpc[d] = "wake" => h < cursor)
  BY <1>1, <1>2 DEF Needed
<1>4. \A d \in Callers : cpc'[d] \in {"unlock", "wait"} => cpc'[d] = cpc[d]
  BY DEF TypeOK
<1> QED
  BY <1>3, <1>4 DEF WakeInv, Working, Started, Dispatching, Needed, loopVars, slotVars

(* The wake, done and last_seen words stay in step with the generations.    *)
LEMMA NextWake ==
  TypeOK /\ MutexInv /\ SlotOwnerInv /\ WakeInv /\ [Next]_vars => WakeInv'
<1> SUFFICES ASSUME TypeOK, MutexInv, SlotOwnerInv, WakeInv, [Next]_vars PROVE WakeInv'
  OBVIOUS
<1> USE PoolAssumption DEF MutexInv, InDispatch, Published, WakeInv, Working, Started, Dispatching
<1>0. \A h \in Helpers : h \in Nat /\ h >= 1
  BY DEF Helpers
<1>1. ASSUME NEW c \in Callers, NEW r \in Requests, Call(c, r) PROVE WakeInv'
  BY <1>1, QuietCallerStep DEF Call
<1>2. ASSUME NEW c \in Callers, Lock(c) PROVE WakeInv'
  BY <1>2, QuietCallerStep DEF Lock
<1>3. ASSUME NEW c \in Callers, Leave(c) PROVE WakeInv'
  BY <1>3, QuietCallerStep DEF Leave
<1>4. ASSUME NEW c \in Callers, WriteJob(c) PROVE WakeInv'
  <2>1. \A h \in Helpers : ~Working(h) /\ wake[h] # Dispatching
    BY <1>4 DEF WriteJob, DispatcherStep, TypeOK
  <2> QED
    BY <1>4, <2>1 DEF WriteJob, DispatcherStep, TypeOK, loopVars, slotVars
<1>5. ASSUME NEW c \in Callers, ResetChunk(c) PROVE WakeInv'
  BY <1>5, <1>0 DEF ResetChunk, DispatcherStep, TypeOK, Needed, loopVars, slotVars
<1>6. ASSUME NEW c \in Callers, WakeHelper(c) PROVE WakeInv'
  <2>1. Published(c) /\ dispatch = c
    BY <1>6 DEF WakeHelper, SlotLoop, DispatcherStep
  <2>2. (Published(c))' /\ WokenBy(c) /\ \A h \in Helpers : Needed(h)' <=> Needed(h)
    BY <1>6, <2>1, OnlyOwnerWakes
    DEF WakeHelper, SlotLoop, DispatcherStep, TypeOK, WokenBy, Needed
  <2>3. WokenBy(c)'
    <3>1. /\ cursor \in Helpers /\ LastHelper \in Nat /\ cursor <= LastHelper
          /\ \A h \in Helpers : Needed(h) <=> h <= LastHelper
      BY <2>1, CursorFacts, ScheduleAssumption
    <3>2. \A h \in Helpers : wake[h] = Dispatching <=> Needed(h) /\ h < cursor
      BY <1>6, <2>2 DEF WokenBy, WakeHelper, SlotLoop, DispatcherStep
    <3>3. \A h \in Helpers : wake'[h] = Dispatching <=> Needed(h) /\ h <= cursor
      BY <1>6, <1>0, <3>1, <3>2 DEF WakeHelper, TypeOK
    <3>4. CASE cursor = LastHelper
      <4>1. cpc'[c] = "unpark"
        BY <1>6, <3>4 DEF WakeHelper, SlotLoop, DispatcherStep, TypeOK
      <4> QED
        BY <1>6, <2>2, <3>1, <3>3, <3>4, <4>1 DEF WokenBy, WakeHelper, SlotLoop
    <3>5. CASE cursor # LastHelper
      <4>1. cpc'[c] = "wake" /\ cursor' = cursor + 1
        BY <1>6, <3>5 DEF WakeHelper, SlotLoop, DispatcherStep, TypeOK
      <4>2. \A h \in Helpers : h <= cursor <=> h < cursor + 1
        BY <1>0, <3>1
      <4> QED
        BY <1>6, <2>2, <3>3, <4>1, <4>2 DEF WokenBy, WakeHelper, SlotLoop
    <3> QED
      BY <3>4, <3>5
  <2>4. TypeOK' /\ MutexInv'
    BY NextTypeOK, NextMutex
  <2>5. \A h \in Helpers :
          wake'[h] = Dispatching <=>
            (\E d \in Callers : Published(d) /\ Needed(h) /\ (cpc[d] = "wake" => h < cursor))'
    BY <1>6, <2>2, <2>3, <2>4 DEF WokenBy, WakeHelper, SlotLoop
  <2>6. \A d \in Callers : cpc'[d] \notin {"unlock", "wait"}
    BY <1>6, <2>1 DEF WakeHelper, SlotLoop, DispatcherStep, TypeOK
  <2>7. \A h \in Helpers : /\ wake'[h] = wake[h] \/ (wake'[h] = Dispatching /\ h = cursor)
                           /\ wake[cursor] # Dispatching
    BY <1>6, <2>1, <2>2, CursorFacts DEF WakeHelper, SlotLoop, DispatcherStep, TypeOK, WokenBy
  <2> QED
    BY <1>6, <2>5, <2>6, <2>7 DEF WakeHelper, SlotLoop, TypeOK, loopVars
<1>7. ASSUME NEW c \in Callers, UnparkHelper(c) PROVE WakeInv'
  BY <1>7 DEF UnparkHelper, SlotLoop, DispatcherStep, TypeOK, Needed, loopVars
<1>8. ASSUME NEW c \in Callers, RunShard0(c) \/ ClaimShard0(c) PROVE WakeInv'
  BY <1>8 DEF RunShard0, ClaimShard0, DispatcherStep, TypeOK, Needed, loopVars, slotVars
<1>9. ASSUME NEW c \in Callers, FinishShard0(c) PROVE WakeInv'
  <2>1. Published(c) /\ cursor = 1
    BY <1>9 DEF FinishShard0, DispatcherStep, SlotOwnerInv
  <2> QED
    BY <1>9, <1>0, <2>1 DEF FinishShard0, DispatcherStep, TypeOK, Needed, loopVars, slotVars
<1>10. ASSUME NEW c \in Callers, AwaitHelper(c) PROVE WakeInv'
  <2>1. Published(c) /\ dispatch = c
    BY <1>10 DEF AwaitHelper, SlotLoop, DispatcherStep
  <2>2. \A h \in Helpers :
          (\E d \in Callers : Published(d) /\ Needed(h) /\ (cpc[d] = "wake" => h < cursor))'
            <=> (\E d \in Callers : Published(d) /\ Needed(h) /\ (cpc[d] = "wake" => h < cursor))
    <3>1. (Published(c))' /\ cpc[c] # "wake" /\ cpc'[c] # "wake"
      BY <1>10 DEF AwaitHelper, SlotLoop, DispatcherStep, TypeOK
    <3>2. TypeOK' /\ MutexInv'
      BY NextTypeOK, NextMutex
    <3>3. \A h \in Helpers : Needed(h)' <=> Needed(h)
      BY <1>10 DEF AwaitHelper, SlotLoop, Needed
    <3> QED
      BY <2>1, <3>1, <3>2, <3>3, OnlyOwnerWakes
  <2>3. \A d \in Callers, h \in Helpers :
          (Needed(h) /\ (cpc[d] = "unlock" \/ (cpc[d] = "wait" /\ h < cursor)))' =>
            done[h] = Dispatching
    <3>1. /\ cursor \in Helpers /\ LastHelper \in Nat /\ cursor <= LastHelper
          /\ \A h \in Helpers : Needed(h) <=> h <= LastHelper
      BY <2>1, CursorFacts, ScheduleAssumption
    <3>2. \A h \in Helpers : Needed(h) /\ h <= cursor => done[h] = Dispatching
      BY <1>10, <1>0, <3>1 DEF AwaitHelper, SlotLoop, DispatcherStep
    <3>3. \A d \in Callers : cpc'[d] \in {"unlock", "wait"} => d = c
      BY <1>10, <2>1 DEF AwaitHelper, SlotLoop, DispatcherStep, TypeOK
    <3>4. cpc'[c] = IF cursor = LastHelper THEN "unlock" ELSE "wait"
      BY <1>10 DEF AwaitHelper, SlotLoop, DispatcherStep, TypeOK
    <3>5. \A h \in Helpers : Needed(h)' => Needed(h)
      BY <1>10 DEF AwaitHelper, SlotLoop, Needed
    <3>6. CASE cursor = LastHelper
      BY <1>10, <3>1, <3>2, <3>3, <3>4, <3>5, <3>6 DEF AwaitHelper, SlotLoop
    <3>7. CASE cursor # LastHelper
      <4>1. cpc'[c] = "wait" /\ cursor' = cursor + 1
        BY <1>10, <3>4, <3>7 DEF AwaitHelper, SlotLoop
      <4>2. \A h \in Helpers : h <= cursor <=> h < cursor + 1
        BY <1>0, <3>1
      <4> QED
        BY <3>2, <3>3, <3>5, <4>1, <4>2
    <3> QED
      BY <3>6, <3>7
  <2>4. UNCHANGED <<done, last_seen, wake, generation, hpc, seen, hjob, job>>
    BY <1>10 DEF AwaitHelper, SlotLoop, loopVars, slotVars
  <2> QED
    BY <2>2, <2>3, <2>4
<1>11. ASSUME NEW c \in Callers, Unlock(c) PROVE WakeInv'
  <2>1. \A h \in Helpers : wake[h] = generation + 1 => done[h] = generation + 1
    BY <1>11 DEF Unlock, DispatcherStep, TypeOK
  <2>2. \A h \in Helpers : ~Working(h)
    BY <2>1 DEF TypeOK
  <2> QED
    BY <1>11, <2>1, <2>2, SMTT(30) DEF Unlock, DispatcherStep, TypeOK, Needed, loopVars, slotVars
<1>12. ASSUME NEW h \in Helpers, PublishHandle(h) PROVE WakeInv'
  BY <1>12 DEF PublishHandle, HelperStep, TypeOK, Needed, callerVars
<1>13. ASSUME NEW h \in Helpers, ReadInitialWake(h) PROVE WakeInv'
  BY <1>13 DEF ReadInitialWake, HelperStep, TypeOK, Needed, callerVars, slotVars
<1>14. ASSUME NEW h \in Helpers, SeeWake(h) PROVE WakeInv'
  BY <1>14 DEF SeeWake, TypeOK, Needed, callerVars, slotVars
<1>15. ASSUME NEW h \in Helpers, SeeNoWake(h) PROVE WakeInv'
  BY <1>15 DEF SeeNoWake, TypeOK, Needed, callerVars, slotVars
<1>16. ASSUME NEW h \in Helpers, Unparked(h) \/ SpuriousReturn(h) PROVE WakeInv'
  BY <1>16 DEF Unparked, SpuriousReturn, HelperStep, TypeOK, Needed, callerVars, slotVars
<1>17. ASSUME NEW h \in Helpers, ReadJob(h) PROVE WakeInv'
  BY <1>17 DEF ReadJob, HelperStep, TypeOK, Needed, callerVars, slotVars
<1>18. ASSUME NEW h \in Helpers, RunShard(h) \/ ClaimShard(h) \/ FinishShard(h) PROVE WakeInv'
  BY <1>18 DEF RunShard, ClaimShard, FinishShard, HelperStep, TypeOK, Needed, callerVars, slotVars
<1>19. ASSUME NEW h \in Helpers, Report(h) PROVE WakeInv'
  BY <1>19 DEF Report, HelperStep, TypeOK, Needed, callerVars
<1>20. CASE UNCHANGED vars
  BY <1>20 DEF vars, Needed
<1> QED
  BY <1>1, <1>2, <1>3, <1>4, <1>5, <1>6, <1>7, <1>8, <1>9, <1>10, <1>11, <1>12, <1>13,
     <1>14, <1>15, <1>16, <1>17, <1>18, <1>19, <1>20
  DEF Next, CallerRuns, HelperRuns

\* The part of the inductive invariant that concerns the handshake.
HandshakeInv == TypeOK /\ MutexInv /\ SlotOwnerInv /\ WakeInv

LEMMA HandshakeCorrect == Spec => []HandshakeInv
<1>1. Init => HandshakeInv
  <2> SUFFICES ASSUME Init PROVE HandshakeInv
    OBVIOUS
  <2>1. MutexInv /\ SlotOwnerInv
    BY PoolAssumption DEF Init, MutexInv, SlotOwnerInv, InDispatch, Published
  <2>2. WakeInv
    BY DEF Init, WakeInv, Working, Started, Published, Dispatching, Helpers
  <2> QED
    BY <2>1, <2>2, InitTypeOK DEF HandshakeInv
<1>2. HandshakeInv /\ [Next]_vars => HandshakeInv'
  BY NextTypeOK, NextMutex, NextSlotOwner, NextWake DEF HandshakeInv
<1> QED
  BY <1>1, <1>2, PTL DEF Spec

(* No helper runs while the job slot is written or the chunk counter reset, *)
(* and only the owner of the dispatch mutex writes them: the safety         *)
(* argument of the job slot's UnsafeCell, for any number of threads.        *)
THEOREM JobSlotSafe == Spec => []JobSlotExclusive
<1>1. HandshakeInv => JobSlotExclusive
  <2> SUFFICES ASSUME HandshakeInv, NEW c \in Callers, cpc[c] \in {"write", "reset"}
               PROVE  /\ \A d \in Callers \ {c} : ~InDispatch(d)
                      /\ \A h \in Helpers : ~Working(h)
    BY DEF JobSlotExclusive
  <2>1. dispatch = c /\ ~Published(c)
    BY DEF HandshakeInv, MutexInv, InDispatch, Published
  <2>2. \A d \in Callers \ {c} : ~InDispatch(d) /\ ~Published(d)
    BY <2>1 DEF HandshakeInv, MutexInv, InDispatch, Published
  <2>3. \A h \in Helpers : Working(h) => \E d \in Callers : Published(d)
    BY DEF HandshakeInv, WakeInv
  <2> QED
    BY <2>1, <2>2, <2>3
<1> QED
  BY <1>1, HandshakeCorrect, PTL

-----------------------------------------------------------------------------
(* The units of work. *)

\* A step that leaves the bookkeeping of caller c's units alone.
UnitFrame(c) ==
  /\ cjob'[c] = cjob[c] /\ ran'[c] = ran[c]
  /\ UNCHANGED <<current_chunk, unit>>
  /\ \A s \in JobShards(c) : /\ ShardAtRun(c, s)' <=> ShardAtRun(c, s)
                             /\ ShardRunning(c, s)' <=> ShardRunning(c, s)
                             /\ ShardFinished(c, s)' <=> ShardFinished(c, s)

(* A step outside the frame of a published job keeps its bookkeeping.       *)
LEMMA UnitFrameStep ==
  ASSUME NEW c \in Callers, CallerUnitInv(c), UnitFrame(c), Published(c), (Published(c))',
         cpc'[c] \in {"wake", "unpark"} => cpc[c] \in {"wake", "unpark"}
  PROVE  CallerUnitInv(c)'
<1>1. JobShards(c)' = JobShards(c) /\ JobUnits(c)' = JobUnits(c)
  BY DEF UnitFrame, JobShards, JobUnits
<1>2. \A s \in JobShards(c), u \in JobUnits(c) : Owes(c, s, u)' <=> Owes(c, s, u)
  BY DEF UnitFrame, Owes, ShardBegun
<1>3. cpc'[c] \notin {"lock", "write", "reset"}
  BY DEF Published
<1> QED
  BY <1>1, <1>2, <1>3 DEF CallerUnitInv, UnitFrame

(* The bookkeeping of a caller with no published job.                       *)
LEMMA UnpublishedStep ==
  ASSUME NEW c \in Callers, CallerUnitInv(c), ~Published(c),
         cpc'[c] = cpc[c], ran'[c] = ran[c]
  PROVE  CallerUnitInv(c)'
BY DEF CallerUnitInv, Published

(* The units of a caller's job are counted in `ran`.                        *)
LEMMA JobUnitsCounted ==
  ASSUME TypeOK, NEW c \in Callers
  PROVE  /\ JobUnits(c) \subseteq Units /\ JobUnits(c) \subseteq Nat
         /\ cjob[c].units \in Nat
         /\ JobShards(c) \subseteq Nat
<1>1. cjob[c] \in Work
  BY DEF TypeOK
<1>2. cjob[c].units \in Nat /\ cjob[c].workers \in Nat
  BY <1>1, WorkFacts
<1>3. JobUnits(c) \subseteq Units
  <2>1. CASE cjob[c] \in Jobs
    BY <2>1 DEF JobUnits, Units
  <2>2. CASE cjob[c] = NoWork
    <3>1. JobUnits(c) = {}
      BY <2>2 DEF JobUnits, NoWork
    <3> QED
      BY <3>1
  <2> QED
    BY <1>1, <2>1, <2>2 DEF Work
<1> QED
  BY <1>2, <1>3 DEF JobUnits, JobShards

\* What the steps of one shard have in common.
ShardStep(c, s) ==
  /\ Published(c) /\ (Published(c))'
  /\ cpc'[c] \notin {"wake", "unpark"} \/ (cpc'[c] = cpc[c] /\ s # 0)
  /\ s \in JobShards(c)
  /\ cjob'[c] = cjob[c]
  /\ \A t \in JobShards(c) \ {s} :
       /\ ShardAtRun(c, t)' <=> ShardAtRun(c, t)
       /\ ShardRunning(c, t)' <=> ShardRunning(c, t)
       /\ ShardFinished(c, t)' <=> ShardFinished(c, t)

(* Beginning: the shard holds the unit it already owed.                     *)
LEMMA BeginStep ==
  ASSUME TypeOK, TypeOK', NEW c \in Callers, NEW s, CallerUnitInv(c), ShardStep(c, s),
         ran' = ran, current_chunk' = current_chunk,
         unit' = [unit EXCEPT ![s] = s], s \in Shards,
         ~ShardBegun(c, s), ShardAtRun(c, s)', ShardRunning(c, s)', ~ShardFinished(c, s)'
  PROVE  CallerUnitInv(c)'
<1>1. JobShards(c)' = JobShards(c) /\ JobUnits(c)' = JobUnits(c)
  BY DEF ShardStep, JobShards, JobUnits
<1>2. \A t \in JobShards(c), u \in JobUnits(c) : Owes(c, t, u)' <=> Owes(c, t, u)
  <2>1. \A t \in JobShards(c) \ {s}, u \in JobUnits(c) : Owes(c, t, u)' <=> Owes(c, t, u)
    BY JobUnitsCounted DEF ShardStep, Owes, ShardBegun, TypeOK
  <2>2. \A u \in JobUnits(c) : Owes(c, s, u)' <=> Owes(c, s, u)
    <3>1. ~ShardAtRun(c, s)
      BY DEF ShardBegun, ShardRunning, ShardAtRun
    <3>2. ShardBegun(c, s)' /\ unit'[s] = s
      BY DEF ShardBegun, TypeOK
    <3> QED
      BY <3>1, <3>2 DEF Owes
  <2> QED
    BY <2>1, <2>2
<1>3. s < current_chunk /\ current_chunk >= cjob[c].workers
  BY JobUnitsCounted, WorkFacts DEF CallerUnitInv, ShardStep, JobShards, TypeOK
<1>4. \A t \in JobShards(c) :
        /\ ShardRunning(c, t)' =>
             unit'[t] < current_chunk \/ (~cjob[c].dynamic /\ unit'[t] = cjob[c].units)
        /\ ShardFinished(c, t)' => cjob[c].units <= current_chunk
  BY <1>3 DEF CallerUnitInv, ShardStep, TypeOK
<1>5. cpc'[c] \in {"wake", "unpark"} => unit'[0] = 0
  BY DEF CallerUnitInv, ShardStep, TypeOK
<1> QED
  BY <1>1, <1>2, <1>3, <1>4, <1>5 DEF CallerUnitInv, ShardStep, Published

(* Computing: the unit the shard owed is counted once and owed no more.     *)
LEMMA ComputeStep ==
  ASSUME TypeOK, TypeOK', NEW c \in Callers, NEW s, CallerUnitInv(c), ShardStep(c, s),
         Compute(s, c), current_chunk' = current_chunk, unit' = unit,
         unit[s] < cjob[c].units, s \in Shards,
         ShardAtRun(c, s), ~ShardAtRun(c, s)', ShardRunning(c, s)',
         ShardFinished(c, s)' <=> ShardFinished(c, s)
  PROVE  CallerUnitInv(c)'
<1>1. JobShards(c)' = JobShards(c) /\ JobUnits(c)' = JobUnits(c)
  BY DEF ShardStep, JobShards, JobUnits
<1> DEFINE k == unit[s]
<1>2. k \in JobUnits(c) /\ k \in Units /\ k \in Nat
  BY JobUnitsCounted DEF JobUnits, TypeOK
<1>3. ran'[c][k] = ran[c][k] + 1 /\ \A u \in JobUnits(c) : u # k => ran'[c][u] = ran[c][u]
  BY <1>2, JobUnitsCounted DEF Compute, TypeOK
<1>4. ShardRunning(c, s) /\ Owes(c, s, k)
  BY DEF ShardRunning, ShardAtRun, Owes
<1>5. ran[c][k] = 0
  BY <1>2, <1>4 DEF CallerUnitInv, ShardStep
<1>6. \A t \in JobShards(c) \ {s}, u \in JobUnits(c) : Owes(c, t, u)' <=> Owes(c, t, u)
  BY DEF ShardStep, Owes, ShardBegun
<1>7. \A u \in JobUnits(c) : ~Owes(c, s, u)'
  BY DEF Owes, ShardBegun
<1>8. k < current_chunk
  BY <1>2, <1>4 DEF CallerUnitInv, ShardStep, TypeOK
<1>9. \A t \in JobShards(c) : Owes(c, t, k) => t = s
  BY <1>2, <1>4 DEF CallerUnitInv, ShardStep
<1>10. \A u \in JobUnits(c) : u # k => ~Owes(c, s, u)
  BY <1>4 DEF Owes, ShardBegun
<1>11. \A u \in JobUnits(c) :
        /\ ran'[c][u] \in {0, 1}
        /\ ran'[c][u] = 1 =>
             u < current_chunk /\ \A t \in JobShards(c) : ~Owes(c, t, u)'
        /\ ran'[c][u] = 0 /\ u < current_chunk => \E t \in JobShards(c) : Owes(c, t, u)'
        /\ \A t, v \in JobShards(c) : Owes(c, t, u)' /\ Owes(c, v, u)' => t = v
  <2> SUFFICES ASSUME NEW u \in JobUnits(c)
               PROVE  /\ ran'[c][u] \in {0, 1}
                      /\ ran'[c][u] = 1 =>
                           u < current_chunk /\ \A t \in JobShards(c) : ~Owes(c, t, u)'
                      /\ ran'[c][u] = 0 /\ u < current_chunk =>
                           \E t \in JobShards(c) : Owes(c, t, u)'
                      /\ \A t, v \in JobShards(c) : Owes(c, t, u)' /\ Owes(c, v, u)' => t = v
    OBVIOUS
  <2>1. CASE u = k
    BY <2>1, <1>3, <1>5, <1>6, <1>7, <1>8, <1>9
  <2>2. CASE u # k
    BY <2>2, <1>3, <1>6, <1>7, <1>10 DEF CallerUnitInv, ShardStep
  <2> QED
    BY <2>1, <2>2
<1>12. \A t \in JobShards(c) :
        /\ ShardRunning(c, t)' =>
             unit[t] < current_chunk \/ (~cjob[c].dynamic /\ unit[t] = cjob[c].units)
        /\ ShardFinished(c, t)' => cjob[c].units <= current_chunk
  BY <1>4 DEF CallerUnitInv, ShardStep
<1>13. cpc'[c] \in {"wake", "unpark"} => unit[0] = 0
  BY DEF CallerUnitInv, ShardStep
<1> HIDE DEF k
<1> QED
  BY <1>1, <1>11, <1>12, <1>13 DEF CallerUnitInv, ShardStep, Published

(* Claiming: a dynamic shard takes the unit at the counter, which nobody    *)
(* owed; a static shard has nothing more to take.                           *)
LEMMA ClaimStep ==
  ASSUME TypeOK, TypeOK', NEW c \in Callers, NEW s, CallerUnitInv(c), ShardStep(c, s),
         Claim(s, cjob[c]), ran' = ran, s \in Shards,
         ShardRunning(c, s), ~ShardAtRun(c, s), ShardAtRun(c, s)', ShardRunning(c, s)',
         ShardFinished(c, s)' <=> ShardFinished(c, s)
  PROVE  CallerUnitInv(c)'
<1>1. JobShards(c)' = JobShards(c) /\ JobUnits(c)' = JobUnits(c)
  BY DEF ShardStep, JobShards, JobUnits
<1>2. \A u \in JobUnits(c) : ~Owes(c, s, u)
  BY DEF Owes, ShardBegun
<1>3. \A u \in JobUnits(c) : Owes(c, s, u)' <=> u = unit'[s]
  BY DEF Owes, ShardBegun
<1>4. CASE cjob[c].dynamic
  <2> DEFINE k == current_chunk
  <2>1. unit' = [unit EXCEPT ![s] = k] /\ current_chunk' = k + 1
    BY <1>4, Zenon DEF Claim
  <2>2. \A t \in JobShards(c) \ {s}, u \in JobUnits(c) : Owes(c, t, u)' <=> Owes(c, t, u)
    BY <2>1, JobUnitsCounted DEF ShardStep, Owes, ShardBegun, TypeOK
  <2>3. unit'[s] = k /\ k \in Nat
    BY <2>1 DEF TypeOK
  <2>4. k >= cjob[c].workers /\ cjob[c].workers \in Nat
    BY WorkFacts DEF CallerUnitInv, ShardStep, TypeOK
  <2>5. \A t \in JobShards(c) : ~Owes(c, t, k)
    <3> SUFFICES ASSUME NEW t \in JobShards(c), Owes(c, t, k) PROVE FALSE
      OBVIOUS
    <3>1. CASE t = k
      BY <3>1, <2>3, <2>4 DEF JobShards
    <3>2. CASE ShardAtRun(c, t) /\ unit[t] = k
      <4>1. ShardRunning(c, t)
        BY <3>2 DEF ShardAtRun, ShardRunning
      <4>2. unit[t] < k
        BY <4>1, <1>4 DEF CallerUnitInv, ShardStep
      <4> QED
        BY <3>2, <4>2, <2>3
    <3> QED
      BY <3>1, <3>2 DEF Owes
  <2>6. \A u \in JobUnits(c) :
          /\ ran[c][u] \in {0, 1}
          /\ ran[c][u] = 1 =>
               u < k + 1 /\ \A t \in JobShards(c) : ~Owes(c, t, u)'
          /\ ran[c][u] = 0 /\ u < k + 1 => \E t \in JobShards(c) : Owes(c, t, u)'
          /\ \A t, v \in JobShards(c) : Owes(c, t, u)' /\ Owes(c, v, u)' => t = v
    <3> SUFFICES ASSUME NEW u \in JobUnits(c)
                 PROVE  /\ ran[c][u] \in {0, 1}
                        /\ ran[c][u] = 1 =>
                             u < k + 1 /\ \A t \in JobShards(c) : ~Owes(c, t, u)'
                        /\ ran[c][u] = 0 /\ u < k + 1 =>
                             \E t \in JobShards(c) : Owes(c, t, u)'
                        /\ \A t, v \in JobShards(c) : Owes(c, t, u)' /\ Owes(c, v, u)' => t = v
      OBVIOUS
    <3>1. u \in Nat
      BY JobUnitsCounted
    <3>2. /\ ran[c][u] \in {0, 1}
          /\ ran[c][u] = 1 => u < k /\ \A t \in JobShards(c) : ~Owes(c, t, u)
          /\ ran[c][u] = 0 /\ u < k => \E t \in JobShards(c) : Owes(c, t, u)
          /\ \A t, v \in JobShards(c) : Owes(c, t, u) /\ Owes(c, v, u) => t = v
      BY DEF CallerUnitInv, ShardStep
    <3>3. s \in JobShards(c)
      BY DEF ShardStep
    <3>4. CASE u = k
      <4>1. ran[c][u] = 0
        BY <3>2, <3>4, <2>3
      <4> QED
        BY <3>3, <3>4, <4>1, <1>3, <2>2, <2>3, <2>5
    <3>5. CASE u # k
      <4>1. u < k + 1 <=> u < k
        BY <3>1, <3>5, <2>3
      <4>2. \A t \in JobShards(c) : Owes(c, t, u)' <=> Owes(c, t, u)
        BY <3>5, <1>2, <1>3, <2>2, <2>3
      <4> QED
        BY <3>2, <3>1, <2>3, <4>1, <4>2
    <3> QED
      BY <3>4, <3>5
  <2>7. \A t \in JobShards(c) :
          /\ ShardRunning(c, t)' => unit'[t] < k + 1
          /\ ShardFinished(c, t)' => cjob[c].units <= k + 1
    <3> SUFFICES ASSUME NEW t \in JobShards(c)
                 PROVE  /\ ShardRunning(c, t)' => unit'[t] < k + 1
                        /\ ShardFinished(c, t)' => cjob[c].units <= k + 1
      OBVIOUS
    <3>1. /\ ShardRunning(c, t) => unit[t] < k
          /\ ShardFinished(c, t) => cjob[c].units <= k
      BY <1>4 DEF CallerUnitInv, ShardStep
    <3>2. CASE t = s
      BY <3>1, <3>2, <2>3, JobUnitsCounted
    <3>3. CASE t # s
      <4>1. unit'[t] = unit[t] /\ (ShardRunning(c, t) => unit[t] \in Nat)
        <5>1. t \in Shards
          <6>1. cjob[c] \in Work
            BY DEF TypeOK
          <6>2. cjob[c] # NoWork
            BY DEF ShardStep, JobShards, NoWork
          <6> QED
            BY <6>1, <6>2, WorkFacts, ScheduleAssumption DEF GoodJob, JobShards, Shards
        <5> QED
          BY <5>1, <3>3, <2>1 DEF TypeOK
      <4>2. ShardRunning(c, t)' <=> ShardRunning(c, t)
        BY <3>3 DEF ShardStep
      <4>3. ShardFinished(c, t)' <=> ShardFinished(c, t)
        BY <3>3 DEF ShardStep
      <4> QED
        BY <3>1, <4>1, <4>2, <4>3, <2>3, JobUnitsCounted
    <3> QED
      BY <3>2, <3>3
  <2>8. k + 1 >= cjob[c].workers
    BY <2>3, <2>4
  <2>9. cpc'[c] \in {"wake", "unpark"} => unit'[0] = 0
    BY <2>1 DEF CallerUnitInv, ShardStep, TypeOK
  <2> HIDE DEF k
  <2> QED
    BY <1>1, <1>4, <2>1, <2>6, <2>7, <2>8, <2>9 DEF CallerUnitInv, ShardStep, Published
<1>5. CASE ~cjob[c].dynamic
  <2>1. unit' = [unit EXCEPT ![s] = cjob[c].units] /\ current_chunk' = current_chunk
    BY <1>5, Zenon DEF Claim
  <2>2. \A t \in JobShards(c) \ {s}, u \in JobUnits(c) : Owes(c, t, u)' <=> Owes(c, t, u)
    BY <2>1, JobUnitsCounted DEF ShardStep, Owes, ShardBegun, TypeOK
  <2>3. unit'[s] = cjob[c].units /\ unit'[s] \notin JobUnits(c)
    BY <2>1, JobUnitsCounted DEF TypeOK, JobUnits
  <2>4. \A t \in JobShards(c), u \in JobUnits(c) : Owes(c, t, u)' <=> Owes(c, t, u)
    BY <1>2, <1>3, <2>2, <2>3
  <2>5. \A t \in JobShards(c) :
          /\ ShardRunning(c, t)' =>
               unit'[t] < current_chunk \/ (~cjob[c].dynamic /\ unit'[t] = cjob[c].units)
          /\ ShardFinished(c, t)' => cjob[c].units <= current_chunk
    BY <1>5, <2>1, <2>3 DEF CallerUnitInv, ShardStep, TypeOK
  <2>6. cpc'[c] \in {"wake", "unpark"} => unit'[0] = 0
    BY <2>1 DEF CallerUnitInv, ShardStep, TypeOK
  <2> QED
    BY <1>1, <2>1, <2>4, <2>5, <2>6 DEF CallerUnitInv, ShardStep, Published
<1> QED
  BY <1>4, <1>5

(* Finishing: the shard found no unit left, so every unit is claimed.       *)
LEMMA FinishStep ==
  ASSUME TypeOK, TypeOK', NEW c \in Callers, NEW s, CallerUnitInv(c), ShardStep(c, s),
         ran' = ran, current_chunk' = current_chunk, unit' = unit, s \in Shards,
         ~(unit[s] < cjob[c].units),
         ShardAtRun(c, s), ~ShardAtRun(c, s)', ~ShardRunning(c, s)', ShardFinished(c, s)'
  PROVE  CallerUnitInv(c)'
<1>1. JobShards(c)' = JobShards(c) /\ JobUnits(c)' = JobUnits(c)
  BY DEF ShardStep, JobShards, JobUnits
<1>2. \A t \in JobShards(c) \ {s}, u \in JobUnits(c) : Owes(c, t, u)' <=> Owes(c, t, u)
  BY DEF ShardStep, Owes, ShardBegun
<1>3. ShardRunning(c, s) /\ unit[s] \in Nat /\ cjob[c].units \in Nat /\ current_chunk \in Nat
  BY JobUnitsCounted DEF ShardRunning, ShardAtRun, TypeOK
<1>4. \A u \in JobUnits(c) : ~Owes(c, s, u) /\ ~Owes(c, s, u)'
  BY <1>3 DEF Owes, ShardBegun, JobUnits
<1>5. cjob[c].units <= current_chunk
  <2>1. unit[s] < current_chunk \/ (~cjob[c].dynamic /\ unit[s] = cjob[c].units)
    BY <1>3 DEF CallerUnitInv, ShardStep
  <2>2. CASE ~cjob[c].dynamic
    BY <2>2, <1>3 DEF CallerUnitInv, ShardStep
  <2>3. CASE unit[s] < current_chunk
    BY <2>3, <1>3
  <2> QED
    BY <2>1, <2>2, <2>3
<1>6. \A t \in JobShards(c), u \in JobUnits(c) : Owes(c, t, u)' <=> Owes(c, t, u)
  BY <1>2, <1>4
<1>7. \A t \in JobShards(c) :
        /\ ShardRunning(c, t)' =>
             unit[t] < current_chunk \/ (~cjob[c].dynamic /\ unit[t] = cjob[c].units)
        /\ ShardFinished(c, t)' => cjob[c].units <= current_chunk
  BY <1>5 DEF CallerUnitInv, ShardStep
<1>8. cpc'[c] \in {"wake", "unpark"} => unit[0] = 0
  BY DEF CallerUnitInv, ShardStep
<1> QED
  BY <1>1, <1>6, <1>7, <1>8 DEF CallerUnitInv, ShardStep, Published

(* A helper at work works for the owner of the mutex, on the job slot.      *)
LEMMA WorkingFacts ==
  ASSUME HandshakeInv, NEW h \in Helpers, Working(h)
  PROVE  \E c \in Callers :
           /\ Published(c) /\ dispatch = c /\ h \in JobShards(c) /\ h # 0 /\ h \in Shards
           /\ job = [out |-> c, work |-> cjob[c]] /\ Needed(h)
           /\ done[h] # Dispatching
           /\ hpc[h] \in {"run", "claim", "report"} => hjob[h] = job
<1>1. PICK c \in Callers : Published(c) /\ Needed(h)
  BY DEF HandshakeInv, WakeInv
<1>2. dispatch = c /\ job = [out |-> c, work |-> cjob[c]]
  BY <1>1 DEF HandshakeInv, MutexInv, SlotOwnerInv, InDispatch, Published
<1>3. h \in Nat /\ h # 0 /\ h \in Shards
  BY DEF Helpers, Shards
<1>4. cjob[c].workers \in Nat
  BY WorkFacts DEF HandshakeInv, TypeOK
<1>5. done[h] # Dispatching
  BY DEF HandshakeInv, WakeInv, TypeOK, Dispatching
<1>6. hpc[h] \in {"run", "claim", "report"} => hjob[h] = job
  BY DEF HandshakeInv, WakeInv
<1> QED
  BY <1>1, <1>2, <1>3, <1>4, <1>5, <1>6 DEF JobShards, Needed

(* The bookkeeping of every caller survives a step of a caller.             *)
LEMMA CallerKeepsUnits ==
  ASSUME HandshakeInv, HandshakeInv', UnitInv, NEW d \in Callers,
         Leave(d) \/ CallerRuns(d) \/ (\E r \in Requests : Call(d, r))
  PROVE  UnitInv'
<1> USE PoolAssumption, ScheduleAssumption
<1>0. TypeOK /\ TypeOK' /\ MutexInv
  BY DEF HandshakeInv
<1>a. 0 \in Shards
  BY DEF Shards
<1> SUFFICES ASSUME NEW c \in Callers PROVE CallerUnitInv(c)'
  BY DEF UnitInv
<1>b. CallerUnitInv(c)
  BY DEF UnitInv
<1>1. CASE c # d
  <2>1. ran'[c] = ran[c] /\ cpc'[c] = cpc[c] /\ cjob'[c] = cjob[c]
    BY <1>0, <1>1 DEF Leave, CallerRuns, Call, Lock, WriteJob, ResetChunk, WakeHelper,
       UnparkHelper, RunShard0, ClaimShard0, FinishShard0, AwaitHelper, Unlock, SlotLoop,
       DispatcherStep, Compute, TypeOK
  <2>2. CASE ~Published(c)
    BY <1>b, <2>1, <2>2, UnpublishedStep
  <2>3. CASE Published(c)
    <3>1. dispatch = c
      BY <1>0, <2>3 DEF MutexInv, InDispatch, Published
    <3>2. Leave(d) \/ (\E r \in Requests : Call(d, r))
      BY <1>1, <3>1 DEF CallerRuns, Lock, WriteJob, ResetChunk, WakeHelper, UnparkHelper,
         RunShard0, ClaimShard0, FinishShard0, AwaitHelper, Unlock, SlotLoop, DispatcherStep
    <3>3. UNCHANGED <<current_chunk, unit, hpc, done, generation>>
      BY <3>2 DEF Leave, Call, loopVars, slotVars
    <3>4. UnitFrame(c) /\ (Published(c))'
      BY <2>1, <2>3, <3>3
      DEF UnitFrame, ShardAtRun, ShardRunning, ShardFinished, Dispatching, Published
    <3> QED
      BY <1>b, <2>1, <2>3, <3>4, UnitFrameStep
  <2> QED
    BY <2>2, <2>3
<1>2. CASE c = d
  <2>1. CASE \E r \in Requests : Call(c, r)
    BY <1>0, <2>1 DEF Call, CallerUnitInv, Published, TypeOK
  <2>2. CASE Leave(c)
    BY <1>0, <2>2 DEF Leave, CallerUnitInv, Published, TypeOK
  <2>3. CASE Lock(c)
    BY <1>0, <1>b, <2>3 DEF Lock, CallerUnitInv, Published, TypeOK
  <2>4. CASE WriteJob(c)
    BY <1>0, <1>b, <2>4 DEF WriteJob, DispatcherStep, CallerUnitInv, Published, TypeOK
  <2>5. CASE ResetChunk(c)
    <3>1. /\ cpc[c] = "reset" /\ cpc' = [cpc EXCEPT ![c] = "wake"]
          /\ current_chunk' = cjob[c].workers /\ cjob' = cjob /\ ran' = ran
          /\ UNCHANGED <<hpc, done, generation>>
          /\ unit'[0] = 0 /\ cpc'[c] = "wake"
      BY <1>0, <1>a, <2>5
      DEF ResetChunk, DispatcherStep, HandshakeInv, SlotOwnerInv, loopVars, slotVars, TypeOK
    <3>2. \A h \in Helpers : ~Working(h) /\ done[h] # Dispatching
      <4>1. \A e \in Callers : ~Published(e)
        BY <1>0, <3>1 DEF MutexInv, InDispatch, Published
      <4>2. \A h \in Helpers : wake[h] # Dispatching /\ ~Working(h)
        BY <4>1 DEF HandshakeInv, WakeInv
      <4>3. \A h \in Helpers : done[h] <= last_seen[h] /\ last_seen[h] <= wake[h] /\ wake[h] <= Dispatching
        BY DEF HandshakeInv, WakeInv
      <4>4. \A h \in Helpers : done[h] \in Nat /\ last_seen[h] \in Nat /\ wake[h] \in Nat
        BY <1>0 DEF TypeOK
      <4>5. Dispatching \in Nat
        BY <1>0 DEF TypeOK, Dispatching
      <4> HIDE DEF Dispatching
      <4> QED
        BY <4>2, <4>3, <4>4, <4>5
    <3>3. cjob[c] \in Work /\ cjob[c] # NoWork
      BY <1>0, <3>1 DEF HandshakeInv, SlotOwnerInv, InDispatch, Parallel, TypeOK, NoWork
    <3>4. GoodJob(cjob[c])
      BY <3>3, WorkFacts
    <3>5. \A s \in JobShards(c) : s = 0 \/ s \in Helpers
      BY <3>4 DEF GoodJob, JobShards, Helpers
    <3>6. \A s \in JobShards(c) :
            ~ShardRunning(c, s)' /\ ~ShardFinished(c, s)' /\ ~ShardAtRun(c, s)'
      BY <3>1, <3>2, <3>5 DEF ShardRunning, ShardFinished, ShardAtRun, Working, Dispatching
    <3>7. \A s \in JobShards(c), u \in JobUnits(c) : Owes(c, s, u)' <=> u = s
      BY <3>6 DEF Owes, ShardBegun
    <3>8. \A u \in JobUnits(c) : ran[c][u] = 0
      BY <1>0, <1>b, <3>1, JobUnitsCounted DEF CallerUnitInv
    <3>9. JobShards(c)' = JobShards(c) /\ JobUnits(c)' = JobUnits(c)
      BY <3>1 DEF JobShards, JobUnits
    <3>10. \A u \in JobUnits(c) : u < cjob[c].workers => u \in JobShards(c)
      BY <3>4 DEF GoodJob, JobShards, JobUnits
    <3>11. cjob[c].workers >= cjob[c].workers /\ (~cjob[c].dynamic => cjob[c].units = cjob[c].workers)
      BY <3>4 DEF GoodJob
    <3> QED
      BY <3>1, <3>6, <3>7, <3>8, <3>9, <3>10, <3>11 DEF CallerUnitInv
  <2>6. CASE WakeHelper(c) \/ AwaitHelper(c)
    <3>1. /\ cjob' = cjob /\ ran' = ran /\ UNCHANGED <<current_chunk, unit, hpc, done, generation>>
          /\ \/ cpc[c] = "wake" /\ cpc'[c] \in {"wake", "unpark"}
             \/ cpc[c] = "wait" /\ cpc'[c] \in {"wait", "unlock"}
      BY <1>0, <2>6
      DEF WakeHelper, AwaitHelper, SlotLoop, DispatcherStep, loopVars, slotVars, TypeOK
    <3>2. UnitFrame(c) /\ Published(c) /\ (Published(c))'
      BY <3>1
      DEF UnitFrame, ShardAtRun, ShardRunning, ShardFinished, Dispatching, Published
    <3> QED
      BY <1>b, <3>1, <3>2, UnitFrameStep
  <2>7. CASE UnparkHelper(c)
    <3>1. /\ cjob' = cjob /\ ran' = ran /\ UNCHANGED <<current_chunk, unit, hpc, done, generation>>
          /\ cpc[c] = "unpark" /\ cpc'[c] \in {"unpark", "run"}
      BY <1>0, <2>7 DEF UnparkHelper, SlotLoop, DispatcherStep, loopVars, TypeOK
    <3>2. Published(c) /\ (Published(c))'
      BY <3>1 DEF Published
    <3>3. CASE cpc'[c] = "unpark"
      <4>1. UnitFrame(c)
        BY <3>1, <3>3 DEF UnitFrame, ShardAtRun, ShardRunning, ShardFinished, Dispatching
      <4> QED
        BY <1>b, <3>1, <3>2, <3>3, <4>1, UnitFrameStep
    <3>4. CASE cpc'[c] = "run"
      <4>1. unit[0] = 0
        BY <1>b, <3>1 DEF CallerUnitInv
      <4>2. unit' = [unit EXCEPT ![0] = 0]
        BY <1>0, <3>1, <4>1 DEF TypeOK
      <4>3. 0 \in JobShards(c)
        <5>1. cjob[c] \in Work /\ Parallel(cjob[c])
          BY <1>0, <3>1 DEF HandshakeInv, SlotOwnerInv, InDispatch, TypeOK
        <5> QED
          BY <5>1, WorkFacts DEF JobShards, Parallel
      <4>4. ShardStep(c, 0)
        BY <3>1, <3>2, <3>4, <4>3
        DEF ShardStep, ShardAtRun, ShardRunning, ShardFinished, Dispatching
      <4>5. ~ShardBegun(c, 0) /\ ShardAtRun(c, 0)' /\ ShardRunning(c, 0)' /\ ~ShardFinished(c, 0)'
        BY <3>1, <3>4 DEF ShardBegun, ShardAtRun, ShardRunning, ShardFinished
      <4> QED
        BY <1>0, <1>a, <1>b, <3>1, <4>2, <4>4, <4>5, BeginStep
    <3> QED
      BY <3>1, <3>3, <3>4
  <2>8. CASE RunShard0(c) \/ ClaimShard0(c) \/ FinishShard0(c)
    <3>1. /\ cjob' = cjob /\ UNCHANGED <<hpc, done, generation>>
          /\ cpc[c] \in {"run", "claim"} /\ cpc'[c] \in {"run", "claim", "wait"}
      BY <1>0, <2>8
      DEF RunShard0, ClaimShard0, FinishShard0, DispatcherStep, loopVars, slotVars, TypeOK
    <3>2. 0 \in JobShards(c)
      <4>1. cjob[c] \in Work /\ Parallel(cjob[c])
        BY <1>0, <3>1 DEF HandshakeInv, SlotOwnerInv, InDispatch, TypeOK
      <4> QED
        BY <4>1, WorkFacts DEF JobShards, Parallel
    <3>3. ShardStep(c, 0)
      BY <3>1, <3>2
      DEF ShardStep, ShardAtRun, ShardRunning, ShardFinished, Dispatching, Published
    <3>4. CASE RunShard0(c)
      <4>1. cpc[c] = "run" /\ cpc'[c] = "claim"
        BY <1>0, <3>4 DEF RunShard0, DispatcherStep, TypeOK
      <4> QED
        BY <1>0, <1>a, <1>b, <3>3, <3>4, <4>1, ComputeStep
        DEF RunShard0, HasUnit, ShardAtRun, ShardRunning, ShardFinished
    <3>5. CASE ClaimShard0(c)
      <4>1. cpc[c] = "claim" /\ cpc'[c] = "run"
        BY <1>0, <3>5 DEF ClaimShard0, DispatcherStep, TypeOK
      <4> QED
        BY <1>0, <1>a, <1>b, <3>3, <3>5, <4>1, ClaimStep
        DEF ClaimShard0, ShardAtRun, ShardRunning, ShardFinished
    <3>6. CASE FinishShard0(c)
      <4>1. cpc[c] = "run" /\ cpc'[c] = "wait"
        BY <1>0, <3>6 DEF FinishShard0, DispatcherStep, TypeOK
      <4> QED
        BY <1>0, <1>a, <1>b, <3>3, <3>6, <4>1, FinishStep
        DEF FinishShard0, HasUnit, ShardAtRun, ShardRunning, ShardFinished
    <3> QED
      BY <2>8, <3>4, <3>5, <3>6
  <2>9. CASE Unlock(c)
    BY <1>0, <2>9 DEF Unlock, DispatcherStep, CallerUnitInv, Published, TypeOK
  <2> QED
    BY <1>2, <2>1, <2>2, <2>3, <2>4, <2>5, <2>6, <2>7, <2>8, <2>9 DEF CallerRuns
<1> QED
  BY <1>1, <1>2

(* The bookkeeping of every caller survives a step of a helper.             *)
LEMMA HelperKeepsUnits ==
  ASSUME HandshakeInv, HandshakeInv', UnitInv, NEW h \in Helpers,
         HelperRuns(h) \/ SpuriousReturn(h)
  PROVE  UnitInv'
<1> USE PoolAssumption, ScheduleAssumption
<1>0. TypeOK /\ TypeOK' /\ MutexInv
  BY DEF HandshakeInv
<1>a. HelperFrame
  BY HelperStepsFrame
<1>b. h # 0 /\ h \in Shards
  BY DEF Helpers, Shards
<1> SUFFICES ASSUME NEW c \in Callers PROVE CallerUnitInv(c)'
  BY DEF UnitInv
<1>c. CallerUnitInv(c) /\ cpc'[c] = cpc[c] /\ cjob' = cjob /\ (Published(c)' <=> Published(c))
  BY <1>a DEF UnitInv, HelperFrame, Published
<1>d. JobShards(c) \ {0} \subseteq Helpers \/ cjob[c] = NoWork
  <2>1. cjob[c] \in Work
    BY <1>0 DEF TypeOK
  <2> QED
    BY <2>1, WorkFacts DEF GoodJob, JobShards, Helpers
<1>1. CASE /\ ~Working(h)
           /\ ~RunShard(h) /\ ~ClaimShard(h) /\ ~FinishShard(h) /\ ~Report(h) /\ ~ReadJob(h)
  <2>1. /\ ran' = ran /\ UNCHANGED <<current_chunk, unit, done, generation>>
        /\ \A g \in Helpers : g # h => hpc'[g] = hpc[g]
        /\ hpc[h] \notin {"run", "claim", "report"} /\ hpc'[h] \notin {"run", "claim", "report"}
    BY <1>0, <1>1 DEF HelperRuns, PublishHandle, ReadInitialWake, SeeWake, SeeNoWake, Unparked,
       SpuriousReturn, HelperStep, Working, slotVars, TypeOK
  <2>2. CASE ~Published(c)
    BY <1>c, <2>1, <2>2, UnpublishedStep
  <2>3. CASE Published(c)
    <3>1. cjob[c] # NoWork
      BY <1>0, <2>3
      DEF HandshakeInv, SlotOwnerInv, InDispatch, Published, Parallel, NoWork, TypeOK
    <3>2. \A s \in JobShards(c) : s = 0 \/ s \in Helpers
      BY <1>d, <3>1
    <3>3. \A s \in JobShards(c) : s # 0 =>
            /\ hpc'[s] = "run" <=> hpc[s] = "run"
            /\ hpc'[s] = "claim" <=> hpc[s] = "claim"
            /\ hpc'[s] = "report" <=> hpc[s] = "report"
      BY <2>1, <3>2
    <3>4. UnitFrame(c)
      BY <1>c, <2>1, <3>3
      DEF UnitFrame, ShardAtRun, ShardRunning, ShardFinished, Dispatching
    <3> QED
      BY <1>c, <2>3, <3>4, UnitFrameStep
  <2> QED
    BY <2>2, <2>3
<1>2. CASE Working(h)
  <2>0. PICK d \in Callers :
          /\ Published(d) /\ dispatch = d /\ h \in JobShards(d) /\ h # 0 /\ h \in Shards
          /\ job = [out |-> d, work |-> cjob[d]] /\ Needed(h)
          /\ done[h] # Dispatching
          /\ hpc[h] \in {"run", "claim", "report"} => hjob[h] = job
    BY <1>2, WorkingFacts
  <2>1. /\ UNCHANGED generation
        /\ \A g \in Helpers : g # h => hpc'[g] = hpc[g] /\ done'[g] = done[g]
    BY <1>0, <1>2 DEF HelperRuns, PublishHandle, ReadInitialWake, SeeWake, SeeNoWake, Unparked,
       SpuriousReturn, ReadJob, RunShard, ClaimShard, FinishShard, Report, HelperStep, slotVars, TypeOK
  <2>2. CASE c # d
    <3>1. ~Published(c)
      BY <1>0, <2>0, <2>2 DEF MutexInv, InDispatch, Published
    <3>2. ran'[c] = ran[c]
      <4>1. ran' = ran \/ (hpc[h] = "run" /\ Compute(h, hjob[h].out))
        BY DEF HelperRuns, PublishHandle, ReadInitialWake, SeeWake, SeeNoWake, Unparked,
           SpuriousReturn, ReadJob, RunShard, ClaimShard, FinishShard, Report, HelperStep
      <4>2. hpc[h] = "run" => hjob[h].out = d
        BY <2>0
      <4> QED
        BY <1>0, <2>2, <4>1, <4>2 DEF Compute, TypeOK
    <3> QED
      BY <1>c, <3>1, <3>2, UnpublishedStep
  <2>3. CASE c = d
    <3>0. cjob[c] # NoWork
      BY <1>0, <2>0, <2>3
      DEF HandshakeInv, SlotOwnerInv, InDispatch, Published, Parallel, NoWork, TypeOK
    <3>1. \A s \in JobShards(c) : s = 0 \/ s \in Helpers
      BY <1>d, <3>0
    <3>2. \A t \in JobShards(c) \ {h} :
            /\ ShardAtRun(c, t)' <=> ShardAtRun(c, t)
            /\ ShardRunning(c, t)' <=> ShardRunning(c, t)
            /\ ShardFinished(c, t)' <=> ShardFinished(c, t)
      BY <1>c, <2>1, <3>1 DEF ShardAtRun, ShardRunning, ShardFinished, Dispatching
    <3>3. ShardStep(c, h)
      BY <1>b, <1>c, <2>0, <2>3, <3>2 DEF ShardStep
    <3>4. CASE ReadJob(h)
      <4>1. hpc[h] = "read" /\ hpc'[h] = "run" /\ UNCHANGED <<done, ran, current_chunk>>
            /\ unit' = [unit EXCEPT ![h] = h]
        BY <1>0, <2>0, <3>4 DEF ReadJob, HelperStep, Needed, slotVars, TypeOK
      <4> QED
        BY <1>0, <1>b, <1>c, <2>0, <2>1, <3>3, <4>1, BeginStep
        DEF ShardBegun, ShardAtRun, ShardRunning, ShardFinished, Dispatching
    <3>5. CASE RunShard(h)
      <4>1. hpc[h] = "run" /\ hpc'[h] = "claim" /\ UNCHANGED <<done, current_chunk, unit>>
            /\ unit[h] < cjob[c].units /\ Compute(h, c)
        BY <1>0, <2>0, <2>3, <3>5 DEF RunShard, HelperStep, HasUnit, slotVars, TypeOK
      <4> QED
        BY <1>0, <1>b, <1>c, <2>1, <3>3, <4>1, ComputeStep
        DEF ShardAtRun, ShardRunning, ShardFinished, Dispatching
    <3>6. CASE ClaimShard(h)
      <4>1. hpc[h] = "claim" /\ hpc'[h] = "run" /\ UNCHANGED <<done, ran>> /\ Claim(h, cjob[c])
        BY <1>0, <2>0, <2>3, <3>6 DEF ClaimShard, HelperStep, slotVars, TypeOK
      <4> QED
        BY <1>0, <1>b, <1>c, <2>1, <3>3, <4>1, ClaimStep
        DEF ShardAtRun, ShardRunning, ShardFinished, Dispatching
    <3>7. CASE FinishShard(h)
      <4>1. hpc[h] = "run" /\ hpc'[h] = "report" /\ UNCHANGED <<done, ran, current_chunk, unit>>
            /\ ~(unit[h] < cjob[c].units)
        BY <1>0, <2>0, <2>3, <3>7 DEF FinishShard, HelperStep, HasUnit, slotVars, TypeOK
      <4> QED
        BY <1>0, <1>b, <1>c, <2>1, <3>3, <4>1, FinishStep
        DEF ShardAtRun, ShardRunning, ShardFinished, Dispatching
    <3>8. CASE Report(h)
      <4>1. /\ hpc[h] = "report" /\ hpc'[h] = "poll" /\ UNCHANGED <<ran, current_chunk, unit>>
            /\ done'[h] = seen[h]
        BY <1>0, <3>8 DEF Report, HelperStep, TypeOK
      <4>2. seen[h] = Dispatching
        BY <1>2 DEF HandshakeInv, WakeInv
      <4>3. UnitFrame(c)
        BY <1>b, <1>c, <2>1, <3>2, <4>1, <4>2
        DEF UnitFrame, ShardAtRun, ShardRunning, ShardFinished, Dispatching
      <4> QED
        BY <1>c, <2>0, <2>3, <4>3, UnitFrameStep
    <3>9. ReadJob(h) \/ RunShard(h) \/ ClaimShard(h) \/ FinishShard(h) \/ Report(h)
      BY <1>2 DEF Working, HelperRuns, PublishHandle, ReadInitialWake, SeeWake, SeeNoWake, Unparked,
         SpuriousReturn, HelperStep
    <3> QED
      BY <3>4, <3>5, <3>6, <3>7, <3>8, <3>9
  <2> QED
    BY <2>2, <2>3
<1>3. ReadJob(h) \/ RunShard(h) \/ ClaimShard(h) \/ FinishShard(h) \/ Report(h) => Working(h)
  BY DEF Working, ReadJob, RunShard, ClaimShard, FinishShard, Report, HelperStep
<1> QED
  BY <1>1, <1>2, <1>3

\* The whole inductive invariant.
PoolInv == HandshakeInv /\ UnitInv /\ EveryUnitOnce

(* When the dispatcher has seen every helper's done word, no unit is owed.  *)
LEMMA AllDone ==
  ASSUME HandshakeInv, UnitInv, NEW c \in Callers, cpc[c] = "unlock"
  PROVE  \A u \in JobUnits(c) : ran[c][u] = 1
<1> USE ScheduleAssumption
<1>1. TypeOK /\ Published(c) /\ CallerUnitInv(c)
  BY DEF HandshakeInv, UnitInv, Published
<1>2. job.work = cjob[c] /\ cjob[c] \in Work /\ Parallel(cjob[c])
  BY <1>1 DEF HandshakeInv, SlotOwnerInv, InDispatch, Published, TypeOK
<1>3. GoodJob(cjob[c])
  BY <1>2, WorkFacts DEF Parallel, NoWork
<1>4. \A s \in JobShards(c) : s # 0 => s \in Helpers /\ Needed(s)
  BY <1>2, <1>3 DEF GoodJob, JobShards, Helpers, Needed
<1>5. \A s \in JobShards(c) : s # 0 => done[s] = Dispatching /\ hpc[s] \notin {"run", "claim"}
  <2> SUFFICES ASSUME NEW s \in JobShards(c), s # 0
               PROVE  done[s] = Dispatching /\ ~Working(s)
    BY DEF Working
  <2>1. s \in Helpers /\ Needed(s)
    BY <1>4
  <2>2. done[s] = Dispatching
    BY <2>1 DEF HandshakeInv, WakeInv
  <2>3. Working(s) => done[s] # Dispatching
    BY <2>1, WorkingFacts
  <2> QED
    BY <2>2, <2>3
<1>6. \A s \in JobShards(c) : ShardFinished(c, s) /\ ~ShardAtRun(c, s)
  BY <1>5 DEF ShardFinished, ShardAtRun
<1>7. \A s \in JobShards(c), u \in JobUnits(c) : ~Owes(c, s, u)
  BY <1>6 DEF Owes, ShardBegun
<1>8. 0 \in JobShards(c)
  BY <1>3 DEF GoodJob, JobShards
<1>9. cjob[c].units <= current_chunk
  BY <1>1, <1>6, <1>8 DEF CallerUnitInv
<1>10. \A u \in JobUnits(c) : u < current_chunk
  BY <1>1, <1>3, <1>9 DEF GoodJob, JobUnits, TypeOK
<1> QED
  BY <1>1, <1>7, <1>10 DEF CallerUnitInv

(* What a call returns is complete, and stays so.                           *)
LEMMA NextEveryUnitOnce ==
  ASSUME HandshakeInv, UnitInv, EveryUnitOnce, [Next]_vars
  PROVE  EveryUnitOnce'
<1> USE PoolAssumption, ScheduleAssumption
<1>0. TypeOK
  BY DEF HandshakeInv
<1> SUFFICES ASSUME NEW c \in Callers, cpc'[c] = "returned"
             PROVE  \A u \in JobUnits(c)' : ran'[c][u] = 1
  BY DEF EveryUnitOnce, JobUnits
<1>1. CASE \E r \in Requests : Call(c, r)
  <2>1. PICK r \in Requests : Call(c, r)
    BY <1>1
  <2>2. cjob'[c] = JobOf(r) /\ ~Parallel(JobOf(r))
    BY <1>0, <2>1 DEF Call, TypeOK
  <2>3. GoodJob(JobOf(r)) /\ JobOf(r).units = 1
    <3>1. GoodJob(JobOf(r))
      BY JobFacts
    <3> QED
      BY <2>2, <3>1 DEF GoodJob, Parallel
  <2>4. 0 \in Units
    BY <2>3 DEF Units, Jobs
  <2>5. ran'[c] = [u \in Units |-> IF u = 0 THEN 1 ELSE 0]
    BY <1>0, <2>1, <2>2 DEF Call, TypeOK
  <2> QED
    BY <2>2, <2>3, <2>4, <2>5 DEF JobUnits
<1>2. CASE Unlock(c)
  <2>1. cpc[c] = "unlock" /\ ran' = ran /\ cjob' = cjob
    BY <1>2 DEF Unlock, DispatcherStep
  <2> QED
    BY <2>1, AllDone DEF JobUnits
<1>3. CASE ~Unlock(c) /\ ~\E r \in Requests : Call(c, r)
  <2>1. cpc[c] = "returned" /\ cjob'[c] = cjob[c]
    <3>1. ASSUME NEW d \in Callers, Leave(d) \/ CallerRuns(d) \/ \E r \in Requests : Call(d, r)
          PROVE  cpc[c] = "returned" /\ cjob'[c] = cjob[c]
      <4>1. CASE d = c
        BY <1>0, <1>3, <3>1, <4>1 DEF Leave, CallerRuns, Call, Lock, WriteJob, ResetChunk,
           WakeHelper, UnparkHelper, RunShard0, ClaimShard0, FinishShard0, AwaitHelper, Unlock,
           SlotLoop, DispatcherStep, TypeOK
      <4>2. CASE d # c
        BY <1>0, <3>1, <4>2 DEF Leave, CallerRuns, Call, Lock, WriteJob, ResetChunk, WakeHelper,
           UnparkHelper, RunShard0, ClaimShard0, FinishShard0, AwaitHelper, Unlock, SlotLoop,
           DispatcherStep, TypeOK
      <4> QED BY <4>1, <4>2
    <3>2. ASSUME NEW h \in Helpers, HelperRuns(h) \/ SpuriousReturn(h)
          PROVE  cpc[c] = "returned" /\ cjob'[c] = cjob[c]
      BY <3>2, HelperStepsFrame DEF HelperFrame
    <3>3. CASE UNCHANGED vars
      BY <3>3 DEF vars
    <3> QED
      BY <3>1, <3>2, <3>3 DEF Next
  <2>2. dispatch # c /\ ~Published(c)
    BY <2>1 DEF HandshakeInv, MutexInv, InDispatch, Published
  <2>3. ran'[c] = ran[c]
    <3>1. ASSUME NEW d \in Callers, Leave(d) \/ CallerRuns(d) \/ \E r \in Requests : Call(d, r)
          PROVE  ran'[c] = ran[c]
      BY <1>0, <1>3, <2>1, <2>2, <3>1 DEF Leave, CallerRuns, Call, Lock, WriteJob, ResetChunk,
         WakeHelper, UnparkHelper, RunShard0, ClaimShard0, FinishShard0, AwaitHelper, Unlock,
         SlotLoop, DispatcherStep, Compute, TypeOK
    <3>2. ASSUME NEW h \in Helpers, HelperRuns(h) \/ SpuriousReturn(h)
          PROVE  ran'[c] = ran[c]
      <4>1. ran' = ran \/ (hpc[h] = "run" /\ Compute(h, hjob[h].out))
        BY <3>2 DEF HelperRuns, PublishHandle, ReadInitialWake, SeeWake, SeeNoWake, Unparked,
           SpuriousReturn, ReadJob, RunShard, ClaimShard, FinishShard, Report, HelperStep
      <4>2. hpc[h] = "run" => hjob[h].out = dispatch
        BY WorkingFacts DEF Working
      <4> QED
        BY <1>0, <2>2, <4>1, <4>2 DEF Compute, TypeOK
    <3>3. CASE UNCHANGED vars
      BY <3>3 DEF vars
    <3> QED
      BY <3>1, <3>2, <3>3 DEF Next
  <2> QED
    BY <2>1, <2>3 DEF EveryUnitOnce, JobUnits
<1> QED
  BY <1>1, <1>2, <1>3

LEMMA PoolCorrect == Spec => []PoolInv
<1>1. Init => UnitInv /\ EveryUnitOnce
  BY DEF Init, UnitInv, CallerUnitInv, EveryUnitOnce, Published
<1>2. HandshakeInv /\ HandshakeInv' /\ UnitInv /\ [Next]_vars => UnitInv'
  <2> SUFFICES ASSUME HandshakeInv, HandshakeInv', UnitInv, [Next]_vars PROVE UnitInv'
    OBVIOUS
  <2>1. CASE UNCHANGED vars
    BY <2>1 DEF vars, UnitInv, CallerUnitInv, Published, JobShards, JobUnits, Owes, ShardBegun,
       ShardAtRun, ShardRunning, ShardFinished, Dispatching
  <2> QED
    BY <2>1, CallerKeepsUnits, HelperKeepsUnits DEF Next
<1>3. HandshakeInv /\ UnitInv /\ EveryUnitOnce /\ [Next]_vars => EveryUnitOnce'
  BY NextEveryUnitOnce
<1> QED
  BY <1>1, <1>2, <1>3, HandshakeCorrect, PTL DEF Spec, PoolInv

(* Whatever the interleaving of callers and helpers and whatever the job,   *)
(* when a call returns every unit of its work was computed exactly once.    *)
THEOREM UnitsComputedOnce == Spec => []EveryUnitOnce
BY PoolCorrect, PTL DEF PoolInv

(* No thread computes into a caller's buffer outside the caller's call.     *)
THEOREM BuffersSafe == Spec => BuffersOnlyInCall
<1>1. HandshakeInv /\ [Next]_vars =>
        [\A c \in Callers : ran'[c] # ran[c] => InDispatch(c) \/ cpc[c] = "idle"]_vars
  <2> SUFFICES ASSUME HandshakeInv, [Next]_vars, NEW c \in Callers, ran'[c] # ran[c]
               PROVE  InDispatch(c) \/ cpc[c] = "idle"
    OBVIOUS
  <2>0. TypeOK
    BY DEF HandshakeInv
  <2>1. ASSUME NEW d \in Callers, Leave(d) \/ CallerRuns(d) \/ \E r \in Requests : Call(d, r)
        PROVE  InDispatch(c) \/ cpc[c] = "idle"
    BY <2>0, <2>1 DEF Leave, CallerRuns, Call, Lock, WriteJob, ResetChunk, WakeHelper, UnparkHelper,
       RunShard0, ClaimShard0, FinishShard0, AwaitHelper, Unlock, SlotLoop, DispatcherStep, Compute,
       InDispatch, TypeOK
  <2>2. ASSUME NEW h \in Helpers, HelperRuns(h) \/ SpuriousReturn(h)
        PROVE  InDispatch(c)
    <3>1. hpc[h] = "run" /\ Compute(h, hjob[h].out)
      BY <2>2 DEF HelperRuns, PublishHandle, ReadInitialWake, SeeWake, SeeNoWake, Unparked,
         SpuriousReturn, ReadJob, RunShard, ClaimShard, FinishShard, Report, HelperStep
    <3>2. PICK d \in Callers : Published(d) /\ hjob[h].out = d
      BY <3>1, WorkingFacts DEF Working
    <3>3. c = d
      BY <2>0, <3>1, <3>2 DEF Compute, TypeOK
    <3> QED
      BY <3>2, <3>3 DEF Published, InDispatch
  <2>3. CASE UNCHANGED vars
    BY <2>3 DEF vars
  <2> QED
    BY <2>1, <2>2, <2>3 DEF Next
<1> QED
  BY <1>1, HandshakeCorrect, PTL DEF Spec, BuffersOnlyInCall

-----------------------------------------------------------------------------
(* From units to rows: how a job's units share its items. *)

\* What rounding down a quotient means.
LEMMA DivBounds ==
  ASSUME NEW a \in Nat, NEW b \in Nat \ {0}
  PROVE  /\ a \div b \in Nat
         /\ (a \div b) * b <= a
         /\ a < (a \div b) * b + b
<1> DEFINE q == a \div b
           m == a % b
<1>1. /\ q \in Int /\ m \in Int /\ a = b * q + m
      /\ 0 <= m /\ m < b
  OBVIOUS
<1> HIDE DEF q, m
<1>2. q * b = b * q
  BY <1>1
<1>3. q * b <= a /\ a < q * b + b
  BY <1>1, <1>2
<1>4. q >= 0
  <2>1. SUFFICES ASSUME q <= -1 PROVE FALSE
    BY <1>1
  <2>2. q * b <= (-1) * b
    BY <1>1, <2>1
  <2> QED BY <1>1, <1>3, <2>2
<1> QED
  BY <1>1, <1>3, <1>4 DEF q

\* Products grow with their factors.
LEMMA ProductGrows ==
  ASSUME NEW x \in Nat, NEW y \in Nat, NEW b \in Nat, x <= y
  PROVE  x * b <= y * b
<1>1. (y - x) * b >= 0
  OBVIOUS
<1>2. (y - x) * b = y * b - x * b
  OBVIOUS
<1> QED BY <1>1, <1>2

LEMMA NextProduct ==
  ASSUME NEW x \in Nat, NEW b \in Nat
  PROVE  (x + 1) * b = x * b + b /\ x * b \in Nat
OBVIOUS

\* A quotient is the only number with those bounds.
LEMMA DivIs ==
  ASSUME NEW a \in Nat, NEW b \in Nat \ {0}, NEW q \in Nat
  PROVE  /\ q * b <= a => q <= a \div b
         /\ a < q * b => a \div b < q
<1> DEFINE d == a \div b
<1>1. d \in Nat /\ d * b <= a /\ a < d * b + b
  BY DivBounds
<1> HIDE DEF d
<1>2. (d + 1) * b = d * b + b
  BY <1>1, NextProduct
<1>3. ASSUME q * b <= a PROVE q <= d
  <2>1. SUFFICES ASSUME d + 1 <= q PROVE FALSE
    BY <1>1
  <2>2. (d + 1) * b <= q * b
    BY <1>1, <2>1, ProductGrows
  <2>3. q * b \in Nat
    BY NextProduct
  <2> QED BY <1>1, <1>2, <1>3, <2>2, <2>3
<1>4. ASSUME a < q * b PROVE d < q
  <2>1. SUFFICES ASSUME q <= d PROVE FALSE
    BY <1>1
  <2>2. q * b <= d * b
    BY <1>1, <2>1, ProductGrows
  <2>3. q * b \in Nat /\ d * b \in Nat
    BY <1>1, NextProduct
  <2> QED BY <1>1, <1>4, <2>2, <2>3
<1> QED
  BY <1>3, <1>4 DEF d

\* Rounding up a quotient: the least number of parts that are enough.
LEMMA DivCeilIs ==
  ASSUME NEW a \in Nat, NEW b \in Nat \ {0}
  PROVE  /\ DivCeil(a, b) \in Nat
         /\ a <= DivCeil(a, b) * b
         /\ \A q \in Nat : a <= q * b => DivCeil(a, b) <= q
<1> DEFINE d == DivCeil(a, b)
<1>1. a + (b - 1) \in Nat
  OBVIOUS
<1>2. d \in Nat /\ d * b <= a + (b - 1) /\ a + (b - 1) < d * b + b
  BY <1>1, DivBounds DEF DivCeil
<1>3. ASSUME NEW q \in Nat, a <= q * b PROVE d <= q
  <2>1. a + (b - 1) < (q + 1) * b
    BY <1>3, NextProduct
  <2>2. d < q + 1
    BY <1>1, <2>1, DivIs DEF DivCeil
  <2> HIDE DEF d
  <2> QED BY <1>2, <2>2
<1> HIDE DEF d
<1>4. d * b \in Nat
  BY <1>2, NextProduct
<1>5. a <= d * b
  BY <1>2, <1>4
<1> QED
  BY <1>2, <1>3, <1>5 DEF d

\* What the sharing out rests on: a static job has no more units than items,
\* a dynamic one as many chunks as it takes.
SharedJob(j) ==
  /\ j.items \in Nat \ {0} /\ j.dynamic \in BOOLEAN /\ j.units \in Nat
  /\ ~j.dynamic => j.workers \in 1 .. j.items /\ j.units = j.workers
  /\ j.dynamic => j.chunk \in Nat \ {0} /\ j.units = DivCeil(j.items, j.chunk)

LEMMA StaticShared ==
  ASSUME NEW items \in Nat \ {0}, NEW w \in 1 .. items
  PROVE  SharedJob(StaticJob(items, w))
BY DEF SharedJob, StaticJob

LEMMA DynamicShared ==
  ASSUME NEW items \in Nat \ {0}, NEW w, NEW chunk \in Nat \ {0}
  PROVE  SharedJob(DynamicJob(items, w, chunk))
<1>1. DivCeil(items, chunk) \in Nat
  BY DivCeilIs
<1> HIDE DEF DivCeil
<1> QED
  BY <1>1 DEF SharedJob, DynamicJob

LEMMA JobIsShared ==
  ASSUME NEW r \in Request
  PROVE  SharedJob(JobOf(r))
<1> USE ScheduleAssumption
<1>1. r.items \in Nat \ {0} /\ r.tokens \in Nat \ {0} /\ r.workers \in Nat /\ r.kind \in Kinds
  BY DEF Request
<1>2. ASSUME NEW a, NEW n \in Nat \ {0}, a \in Nat PROVE AtLeastOne(Least(a, n)) \in 1 .. n
  BY <1>2 DEF AtLeastOne, Least
<1>3. SharedJob(SerialJob(r.items))
  BY <1>1, StaticShared DEF SerialJob
<1>4. CASE r.kind = "matvec"
  <2> DEFINE w == AtLeastOne(Least(Least(r.workers, MaxWorkers), r.items))
  <2>1. \/ JobOf(r) = SerialJob(r.items)
        \/ JobOf(r) = DynamicJob(r.items, w, MATVEC_CHUNK_ROWS)
        \/ JobOf(r) = StaticJob(r.items, w)
    BY <1>4, Zenon DEF JobOf, MatvecJob
  <2>2. w \in 1 .. r.items
    <3>1. Least(r.workers, MaxWorkers) \in Nat
      BY <1>1 DEF Least
    <3> QED BY <1>1, <1>2, <3>1
  <2> HIDE DEF w
  <2> QED
    BY <1>1, <1>3, <2>1, <2>2, StaticShared, DynamicShared
<1>5. CASE r.kind = "kquant_batch"
  <2> DEFINE available == AtLeastOne(Least(r.workers, MaxWorkers))
             w == AtLeastOne(Least(available, r.tokens))
  <2>1. \/ JobOf(r) = SerialJob(r.items)
        \/ JobOf(r) = DynamicJob(r.items, available, KQUANT_BATCH_CHUNK_ROWS)
        \/ JobOf(r) = StaticJob(r.tokens, w)
    <3>1. JobOf(r) = KQuantBatch3Job(r)
      BY <1>5 DEF JobOf
    <3> QED BY <3>1, Zenon DEF KQuantBatch3Job
  <2>2. w \in 1 .. r.tokens
    <3>1. available \in Nat
      BY <1>1 DEF Least, AtLeastOne
    <3> QED BY <1>1, <1>2, <3>1
  <2> HIDE DEF w, available
  <2> QED
    BY <1>1, <1>3, <2>1, <2>2, StaticShared, DynamicShared
<1>6. CASE r.kind = "range"
  <2> DEFINE threads == RangeWorkers(r.workers, r.items)
             w == AtLeastOne(Least(Least(threads, MaxWorkers), r.items))
  <2>1. JobOf(r) = StaticJob(r.items, w)
    BY <1>6 DEF JobOf, RangeJob
  <2>2. threads \in Nat
    <3>1. AtLeastOne(Least(r.workers, r.items)) \in Nat \ {0}
      BY <1>1 DEF AtLeastOne, Least
    <3> DEFINE per_worker == DivCeil(r.items, AtLeastOne(Least(r.workers, r.items)))
    <3>2. per_worker \in Nat
      BY <1>1, <3>1, DivCeilIs
    <3>3. threads = AtLeastOne(DivCeil(r.items, AtLeastOne(per_worker)))
      BY DEF RangeWorkers
    <3> HIDE DEF per_worker, threads
    <3>4. AtLeastOne(per_worker) \in Nat \ {0}
      BY <3>2 DEF AtLeastOne
    <3>5. DivCeil(r.items, AtLeastOne(per_worker)) \in Nat
      BY <1>1, <3>4, DivCeilIs
    <3> QED BY <3>3, <3>5 DEF AtLeastOne
  <2> HIDE DEF threads
  <2>3. w \in 1 .. r.items
    <3>1. Least(threads, MaxWorkers) \in Nat
      BY <2>2 DEF Least
    <3> QED BY <1>1, <1>2, <3>1
  <2> HIDE DEF w
  <2> QED BY <1>1, <2>1, <2>3, StaticShared
<1> QED
  BY <1>1, <1>4, <1>5, <1>6 DEF Kinds

\* Where the shares of a static job begin: nowhere but at the first item, and
\* never before the share before them ends.
LEMMA StaticShares ==
  ASSUME NEW j, SharedJob(j), ~j.dynamic, NEW u \in 0 .. j.units
  PROVE  /\ StaticStart(j, u) \in Nat
         /\ \A i \in Nat : StaticStart(j, u) <= i <=> j.items * u < (i + 1) * j.workers
<1> DEFINE n == j.items
           w == j.workers
           a == n * u
<1>1. n \in Nat \ {0} /\ w \in Nat \ {0} /\ u \in Nat
  BY DEF SharedJob
<1> HIDE DEF n, w
<1>2. a \in Nat
  BY <1>1
<1> HIDE DEF a
<1>3. /\ a \div w \in Nat
      /\ (a \div w) * w <= a /\ a < (a \div w) * w + w
  BY <1>1, <1>2, DivBounds
<1>4. ASSUME NEW i \in Nat PROVE a \div w <= i <=> a < (i + 1) * w
  <2>1. a < (i + 1) * w => a \div w < i + 1
    BY <1>1, <1>2, DivIs
  <2>2. (i + 1) * w <= a => i + 1 <= a \div w
    BY <1>1, <1>2, DivIs
  <2>3. (i + 1) * w \in Nat
    BY <1>1, NextProduct
  <2> DEFINE d == a \div w
             p == (i + 1) * w
  <2>4. d \in Nat /\ p \in Nat /\ (a < p => d < i + 1) /\ (p <= a => i + 1 <= d)
    BY <1>3, <2>1, <2>2, <2>3
  <2> HIDE DEF d, p
  <2>5. d <= i <=> a < p
    BY <1>2, <2>4
  <2> QED BY <2>5 DEF d, p
<1> QED
  BY <1>3, <1>4 DEF StaticStart, a, n, w

\* A quotient is told by its bounds.
LEMMA DivTold ==
  ASSUME NEW a \in Nat, NEW b \in Nat \ {0}, NEW q \in Nat
  PROVE  q = a \div b <=> q * b <= a /\ a < q * b + b
<1> DEFINE d == a \div b
<1>1. d \in Nat /\ d * b <= a /\ a < d * b + b
  BY DivBounds
<1>2. (q * b <= a => q <= d) /\ (a < (q + 1) * b => d < q + 1)
  BY DivIs
<1> HIDE DEF d
<1>3. (q + 1) * b = q * b + b
  BY NextProduct
<1>4. q * b <= a /\ a < q * b + b => q = d
  BY <1>1, <1>2, <1>3
<1> QED
  BY <1>1, <1>4 DEF d

\* The unit that has an item.
UnitOf(j, i) ==
  IF j.dynamic THEN i \div j.chunk ELSE ((i + 1) * j.workers - 1) \div j.items

\* The item's unit has it, and no other unit does.
LEMMA JobSharesItems ==
  ASSUME NEW j, SharedJob(j), NEW i \in 0 .. j.items - 1
  PROVE  /\ UnitOf(j, i) \in 0 .. j.units - 1
         /\ \A u \in 0 .. j.units - 1 : i \in UnitItems(j, u) <=> u = UnitOf(j, i)
<1>1. j.items \in Nat \ {0} /\ j.units \in Nat /\ i \in Nat
  BY DEF SharedJob
<1>2. CASE j.dynamic
  <2> DEFINE c == j.chunk
             n == j.items
  <2>1. c \in Nat \ {0} /\ j.units = DivCeil(n, c)
    BY <1>2 DEF SharedJob
  <2>2. UnitOf(j, i) = i \div c
    BY <1>2 DEF UnitOf
  <2>3. /\ i \div c \in Nat /\ (i \div c) * c <= i
    BY <1>1, <2>1, DivBounds
  <2>4. i \div c < DivCeil(n, c)
    <3>1. DivCeil(n, c) \in Nat /\ n <= DivCeil(n, c) * c
      BY <1>1, <2>1, DivCeilIs
    <3> DEFINE d == DivCeil(n, c)
    <3> HIDE DEF d, c
    <3>2. i < d * c
      <4>1. d * c \in Nat
        BY <2>1, <3>1, NextProduct DEF d
      <4> QED BY <1>1, <3>1, <4>1 DEF d
    <3> QED BY <1>1, <2>1, <3>1, <3>2, DivIs DEF d
  <2>5. ASSUME NEW u \in 0 .. j.units - 1
        PROVE  i \in UnitItems(j, u) <=> u = i \div c
    <3>1. u \in Nat /\ u * c \in Nat
      BY <1>1, <2>1, NextProduct
    <3>2. u = i \div c <=> u * c <= i /\ i < u * c + c
      BY <1>1, <2>1, <3>1, DivTold
    <3>3. i \in UnitItems(j, u) <=> u * c <= i /\ i < Least(u * c + c, n)
      BY <1>2 DEF UnitItems, UnitStart, UnitEnd
    <3> HIDE DEF c
    <3>4. i < Least(u * c + c, n) <=> i < u * c + c
      BY <1>1, <2>1, <3>1 DEF Least
    <3> QED BY <3>2, <3>3, <3>4
  <2> HIDE DEF c, n
  <2>6. i \div c \in 0 .. j.units - 1
    <3> DEFINE q == i \div c
    <3>1. q \in Nat /\ q < j.units
      BY <2>1, <2>3, <2>4
    <3> HIDE DEF q
    <3>2. q \in 0 .. j.units - 1
      BY <1>1, <3>1
    <3> QED BY <3>2 DEF q
  <2> QED BY <2>2, <2>5, <2>6
<1>3. CASE ~j.dynamic
  <2> DEFINE w == j.workers
             n == j.items
             a == (i + 1) * w - 1
  <2>1. w \in Nat \ {0} /\ n \in Nat \ {0} /\ j.units = w
    BY <1>3 DEF SharedJob
  <2>2. UnitOf(j, i) = a \div n
    BY <1>3 DEF UnitOf
  <2>3. a \in Nat /\ a < n * w
    <3>1. (i + 1) * w \in Nat /\ w <= (i + 1) * w
      <4>1. (i + 1) * w = i * w + w /\ i * w \in Nat
        BY <1>1, <2>1, NextProduct
      <4> QED BY <2>1, <4>1
    <3>2. (i + 1) * w <= n * w
      <4>1. i + 1 <= n /\ i + 1 \in Nat
        BY <1>1
      <4> HIDE DEF w, n
      <4> QED BY <2>1, <4>1, ProductGrows
    <3>3. n * w \in Nat
      BY <2>1, NextProduct
    <3> QED BY <2>1, <3>1, <3>2, <3>3
  <2>4. a \div n \in Nat
    BY <2>1, <2>3, DivBounds
  <2>5. a \div n < w
    <3>1. n * w = w * n
      BY <2>1
    <3> HIDE DEF a, n, w
    <3> QED BY <2>1, <2>3, <3>1, DivIs
  <2>6. ASSUME NEW u \in 0 .. j.units - 1
        PROVE  i \in UnitItems(j, u) <=> u = a \div n
    <3>1. u \in Nat /\ u \in 0 .. j.units /\ u + 1 \in 0 .. j.units
      BY <1>1
    <3>2. u = a \div n <=> u * n <= a /\ a < u * n + n
      <4> HIDE DEF a, n
      <4> QED BY <2>1, <2>3, <3>1, DivTold
    <3>3. i \in UnitItems(j, u) <=> StaticStart(j, u) <= i /\ i < StaticStart(j, u + 1)
      BY <1>3 DEF UnitItems, UnitStart, UnitEnd
    <3>4. StaticStart(j, u) <= i <=> n * u < (i + 1) * w
      BY <1>1, <1>3, <3>1, StaticShares
    <3>5. StaticStart(j, u + 1) <= i <=> n * (u + 1) < (i + 1) * w
      BY <1>1, <1>3, <3>1, StaticShares
    <3>6. StaticStart(j, u + 1) \in Nat
      BY <1>3, <3>1, StaticShares
    <3>7. n * u = u * n /\ n * (u + 1) = u * n + n /\ u * n \in Nat
      BY <2>1, <3>1
    <3> DEFINE p == u * n
               c == (i + 1) * w
    <3>8. /\ p \in Nat /\ c \in Nat /\ n \in Nat /\ a = c - 1
          /\ StaticStart(j, u) <= i <=> p < c
          /\ StaticStart(j, u + 1) <= i <=> p + n < c
          /\ u = a \div n <=> p <= a /\ a < p + n
      <4>1. (i + 1) * w \in Nat
        BY <1>1, <2>1, NextProduct
      <4> QED BY <2>1, <3>2, <3>4, <3>5, <3>7, <4>1
    <3> HIDE DEF p, c, a, n
    <3>9. i < StaticStart(j, u + 1) <=> c <= p + n
      BY <1>1, <3>6, <3>8
    <3> QED BY <3>3, <3>8, <3>9
  <2> HIDE DEF w, n, a
  <2>7. a \div n \in 0 .. j.units - 1
    <3> DEFINE q == a \div n
    <3>1. q \in Nat /\ q < j.units
      BY <2>1, <2>4, <2>5
    <3> HIDE DEF q
    <3>2. q \in 0 .. j.units - 1
      BY <1>1, <3>1
    <3> QED BY <3>2 DEF q
  <2> QED BY <2>2, <2>6, <2>7
<1> QED
  BY <1>2, <1>3

\* Clipping a range to a projection keeps exactly the projection's rows in it.
LEMMA ClippedRange ==
  ASSUME NEW start \in Nat, NEW end \in Nat, NEW offset \in Nat, NEW len \in Nat,
         NEW i \in 0 .. len - 1
  PROVE  LET range == clipped_range(start, end, offset, len)
         IN  range[1] <= i /\ i < range[2] <=> start <= offset + i /\ offset + i < end
<1> DEFINE from == Least(SaturatingSub(start, offset), len)
           to   == Least(SaturatingSub(end, offset), len)
           range == clipped_range(start, end, offset, len)
<1>1. from \in Nat /\ (from <= i <=> start <= offset + i)
  BY DEF Least, SaturatingSub
<1>2. to \in Nat /\ (i < to <=> offset + i < end)
  BY DEF Least, SaturatingSub
<1>3. range = IF to > from THEN <<from, to>> ELSE <<0, 0>>
  BY DEF clipped_range
<1> HIDE DEF from, to, range
<1>4. range[1] <= i /\ i < range[2] <=> from <= i /\ i < to
  BY <1>1, <1>2, <1>3
<1> QED
  BY <1>1, <1>2, <1>4 DEF range

LEMMA UnitBounds ==
  ASSUME NEW j, SharedJob(j), NEW u \in 0 .. j.units - 1
  PROVE  UnitStart(j, u) \in Nat /\ UnitEnd(j, u) \in Nat
<1>1. j.items \in Nat /\ j.units \in Nat /\ u \in Nat /\ j.dynamic \in BOOLEAN
  BY DEF SharedJob
<1>2. CASE j.dynamic
  <2>1. j.chunk \in Nat
    BY <1>2 DEF SharedJob
  <2>2. u * j.chunk \in Nat
    BY <1>1, <2>1, NextProduct
  <2> QED BY <1>1, <1>2, <2>1, <2>2 DEF UnitStart, UnitEnd, Least
<1>3. CASE ~j.dynamic
  <2>1. u \in 0 .. j.units /\ u + 1 \in 0 .. j.units
    BY <1>1
  <2> QED BY <1>3, <2>1, StaticShares DEF UnitStart, UnitEnd
<1> QED BY <1>2, <1>3

\* The row of a projection is written by the unit that has its item.
LEMMA FusedRowIsItem ==
  ASSUME NEW j, SharedJob(j), NEW lens \in [1 .. 3 -> Nat],
         j.items = lens[1] + lens[2] + lens[3],
         NEW k \in 1 .. 3, NEW i \in 0 .. lens[k] - 1, NEW v \in 0 .. j.units - 1
  PROVE  /\ OffsetOf(lens, k) + i \in 0 .. j.items - 1
         /\ i \in ProjectionRows(j, lens, v, k) <=> OffsetOf(lens, k) + i \in UnitItems(j, v)
<1> DEFINE offset == OffsetOf(lens, k)
           item == offset + i
<1>1. lens[1] \in Nat /\ lens[2] \in Nat /\ lens[3] \in Nat /\ lens[k] \in Nat
  OBVIOUS
<1>2. offset \in Nat /\ item \in 0 .. j.items - 1
  <2>1. CASE k = 1
    BY <1>1, <2>1 DEF OffsetOf
  <2>2. CASE k = 2
    BY <1>1, <2>2 DEF OffsetOf
  <2>3. CASE k = 3
    BY <1>1, <2>3 DEF OffsetOf
  <2> QED BY <2>1, <2>2, <2>3
<1> HIDE DEF offset
<1>3. i \in ProjectionRows(j, lens, v, k) <=> item \in UnitItems(j, v)
  <2>1. UnitStart(j, v) \in Nat /\ UnitEnd(j, v) \in Nat
    BY UnitBounds
  <2> DEFINE range == clipped_range(UnitStart(j, v), UnitEnd(j, v), offset, lens[k])
  <2>2. i \in ProjectionRows(j, lens, v, k) <=> range[1] <= i /\ i < range[2]
    BY DEF ProjectionRows, offset
  <2>3. range[1] <= i /\ i < range[2] <=> UnitStart(j, v) <= item /\ item < UnitEnd(j, v)
    BY <1>1, <1>2, <2>1, ClippedRange
  <2>4. item \in UnitItems(j, v) <=> UnitStart(j, v) <= item /\ item < UnitEnd(j, v)
    BY <1>2 DEF UnitItems
  <2> HIDE DEF range, item
  <2> QED BY <2>2, <2>3, <2>4
<1> QED
  BY <1>2, <1>3 DEF offset

\* Each row of each projection of a fused job is in exactly one unit.
LEMMA FusedJobSharesRows ==
  ASSUME NEW j, SharedJob(j), NEW lens \in [1 .. 3 -> Nat],
         j.items = lens[1] + lens[2] + lens[3],
         NEW k \in 1 .. 3, NEW i \in 0 .. lens[k] - 1
  PROVE  \E u \in 0 .. j.units - 1 :
           \A v \in 0 .. j.units - 1 : i \in ProjectionRows(j, lens, v, k) <=> v = u
<1> DEFINE item == OffsetOf(lens, k) + i
<1>1. j.items - 1 \in Int /\ j.units \in Nat
  BY DEF SharedJob
<1>2. \A v \in 0 .. j.units - 1 :
        /\ item \in 0 .. j.items - 1
        /\ i \in ProjectionRows(j, lens, v, k) <=> item \in UnitItems(j, v)
  BY FusedRowIsItem
<1>3. item \in 0 .. j.items - 1
  BY DEF OffsetOf, SharedJob
<1> HIDE DEF item
<1>4. /\ UnitOf(j, item) \in 0 .. j.units - 1
      /\ \A v \in 0 .. j.units - 1 : item \in UnitItems(j, v) <=> v = UnitOf(j, item)
  BY <1>3, JobSharesItems
<1> QED
  BY <1>2, <1>4

\* A static share has at least one item.
LEMMA StaticShareHasItems ==
  ASSUME NEW j, SharedJob(j), ~j.dynamic, NEW u \in 0 .. j.units - 1
  PROVE  UnitItems(j, u) # {}
<1> DEFINE n == j.items
           w == j.workers
           s == StaticStart(j, u)
<1>1. n \in Nat \ {0} /\ w \in 1 .. n /\ j.units = w
  BY DEF SharedJob
<1>2. u \in Nat /\ u \in 0 .. j.units /\ u + 1 \in 0 .. j.units
  BY <1>1
<1>3. /\ n * u \in Nat /\ s \in Nat /\ s * w \in Nat
      /\ s * w <= n * u
  <2>1. n * u \in Nat /\ w \in Nat \ {0}
    BY <1>1, <1>2
  <2> DEFINE a == n * u
  <2>2. s = a \div w
    BY DEF StaticStart
  <2> HIDE DEF a, w, s
  <2>3. s \in Nat /\ s * w <= a
    BY <2>1, <2>2, DivBounds DEF a
  <2> QED BY <2>1, <2>3, NextProduct DEF a
<1>4. s < StaticStart(j, u + 1)
  <2>1. (s + 1) * w = s * w + w /\ n * (u + 1) = n * u + n
    <3> HIDE DEF s, n, w
    <3>1. (s + 1) * w = s * w + w
      BY <1>1, <1>3, NextProduct
    <3>2. n * (u + 1) = n * u + n
      BY <1>1, <1>2
    <3> QED BY <3>1, <3>2
  <2>2. ~(n * (u + 1) < (s + 1) * w)
    <3> DEFINE p == s * w
               q == n * u
    <3>1. p \in Nat /\ q \in Nat /\ p <= q /\ w <= n /\ w \in Nat /\ n \in Nat
      BY <1>1, <1>3
    <3> HIDE DEF p, q
    <3>2. ~(q + n < p + w)
      BY <3>1
    <3> QED BY <2>1, <3>2 DEF p, q
  <2>3. StaticStart(j, u + 1) <= s <=> n * (u + 1) < (s + 1) * w
    BY <1>2, <1>3, StaticShares
  <2>4. StaticStart(j, u + 1) \in Nat
    BY <1>2, StaticShares
  <2> HIDE DEF s
  <2> QED BY <1>3, <2>2, <2>3, <2>4
<1>5. StaticStart(j, u + 1) <= n
  <2>1. n * (u + 1) < (n + 1) * w
    <3>1. n * (u + 1) <= n * w
      <4>1. (u + 1) * n <= w * n
        BY <1>1, <1>2, ProductGrows
      <4> QED BY <1>1, <1>2, <4>1
    <3>2. (n + 1) * w = n * w + w /\ n * w \in Nat /\ n * (u + 1) \in Nat
      BY <1>1, <1>2
    <3> DEFINE p == n * (u + 1)
               q == n * w
    <3> HIDE DEF p, q
    <3>3. p <= q /\ q \in Nat /\ p \in Nat /\ w \in Nat /\ w > 0
      BY <1>1, <3>1, <3>2 DEF p, q
    <3>4. p < q + w
      BY <3>3
    <3> QED BY <3>2, <3>4 DEF p, q
  <2> QED BY <1>1, <1>2, <2>1, StaticShares
<1>6. s \in 0 .. j.items - 1
  <2>1. StaticStart(j, u + 1) \in Nat
    BY <1>2, StaticShares
  <2> HIDE DEF s
  <2> QED BY <1>1, <1>3, <1>4, <1>5, <2>1
<1>7. s \in UnitItems(j, u)
  <2>1. UnitStart(j, u) = s /\ UnitEnd(j, u) = StaticStart(j, u + 1)
    BY DEF UnitStart, UnitEnd
  <2> HIDE DEF s
  <2> QED BY <1>3, <1>4, <1>6, <2>1 DEF UnitItems
<1> QED
  BY <1>7

(***************************************************************************)
(* parallel_range's comment: the workers it does not wake would not have   *)
(* made the largest share any smaller.                                     *)
(***************************************************************************)
THEOREM DroppingWorkersCostsNothing ==
  ASSUME NEW threads \in Nat \ {0}, NEW len \in Nat \ {0}
  PROVE  DivCeil(len, RangeWorkers(threads, len)) = DivCeil(len, Least(threads, len))
<1> DEFINE w == Least(threads, len)
           share == DivCeil(len, w)
           fewer == DivCeil(len, share)
<1>1. w \in Nat \ {0} /\ AtLeastOne(w) = w
  BY DEF Least, AtLeastOne
<1> HIDE DEF w
<1>2. /\ share \in Nat /\ len <= share * w
      /\ \A q \in Nat : len <= q * w => share <= q
  BY <1>1, DivCeilIs
<1> HIDE DEF share
<1>3. share \in Nat \ {0} /\ AtLeastOne(share) = share
  <2>1. share # 0
    <3>1. SUFFICES ASSUME share = 0 PROVE FALSE
      OBVIOUS
    <3>2. 0 * w = 0
      BY <1>1
    <3> QED BY <1>2, <3>1, <3>2
  <2> QED BY <1>2, <2>1 DEF AtLeastOne
<1>4. /\ fewer \in Nat /\ len <= fewer * share
      /\ \A q \in Nat : len <= q * share => fewer <= q
  BY <1>3, DivCeilIs
<1> HIDE DEF fewer
<1>5. fewer \in Nat \ {0} /\ AtLeastOne(fewer) = fewer
  <2>1. fewer # 0
    <3>1. SUFFICES ASSUME fewer = 0 PROVE FALSE
      OBVIOUS
    <3>2. 0 * share = 0
      BY <1>3
    <3> QED BY <1>4, <3>1, <3>2
  <2> QED BY <1>4, <2>1 DEF AtLeastOne
<1>6. RangeWorkers(threads, len) = fewer
  BY <1>1, <1>3, <1>5 DEF RangeWorkers, w, share, fewer
<1>7. fewer <= w
  <2>1. share * w = w * share
    BY <1>1, <1>2
  <2> QED BY <1>1, <1>2, <1>4, <2>1
<1> DEFINE again == DivCeil(len, fewer)
<1>8. /\ again \in Nat /\ len <= again * fewer
      /\ \A q \in Nat : len <= q * fewer => again <= q
  BY <1>5, DivCeilIs
<1> HIDE DEF again
<1>9. again <= share
  <2>1. fewer * share = share * fewer
    BY <1>3, <1>5
  <2> QED BY <1>3, <1>4, <1>8, <2>1
<1>10. share <= again
  <2>1. again * fewer <= again * w
    <3>1. fewer * again <= w * again
      BY <1>1, <1>5, <1>7, <1>8, ProductGrows
    <3>2. fewer * again = again * fewer /\ w * again = again * w
      BY <1>1, <1>5, <1>8
    <3> QED BY <3>1, <3>2
  <2>2. len <= again * w
    <3>1. again * fewer \in Nat /\ again * w \in Nat
      BY <1>1, <1>5, <1>8
    <3> QED BY <1>8, <2>1, <3>1
  <2> QED BY <1>2, <1>8, <2>2
<1> QED
  BY <1>3, <1>6, <1>8, <1>9, <1>10 DEF again, share, w

(***************************************************************************)
(* Every item of a job is in one of its units, and in no other: the chunks *)
(* or shares that WorkerPool's entry points make neither leave out an      *)
(* output row nor hand one to two threads, whatever the number of rows, of *)
(* tokens and of threads asked for.                                        *)
(***************************************************************************)
THEOREM UnitsShareItems ==
  ASSUME NEW r \in Request, NEW i \in 0 .. JobOf(r).items - 1
  PROVE  LET made == JobOf(r)
         IN  \E u \in 0 .. made.units - 1 :
               \A v \in 0 .. made.units - 1 : i \in UnitItems(made, v) <=> v = u
<1>1. SharedJob(JobOf(r))
  BY JobIsShared
<1> QED
  BY <1>1, JobSharesItems

(***************************************************************************)
(* A fused made (run_q4k_matvec3, run_kquant_batch3) writes each row of each*)
(* of its projections in exactly one unit: no row is dropped or repeated   *)
(* where one projection ends and the next begins.                          *)
(***************************************************************************)
THEOREM UnitsShareFusedRows ==
  ASSUME NEW r \in Request, NEW lens \in [1 .. 3 -> Nat],
         JobOf(r).items = lens[1] + lens[2] + lens[3],
         NEW k \in 1 .. 3, NEW i \in 0 .. lens[k] - 1
  PROVE  LET made == JobOf(r)
         IN  \E u \in 0 .. made.units - 1 :
               \A v \in 0 .. made.units - 1 : i \in ProjectionRows(made, lens, v, k) <=> v = u
<1>1. SharedJob(JobOf(r))
  BY JobIsShared
<1> DEFINE made == JobOf(r)
<1> HIDE DEF made
<1> QED
  BY <1>1, FusedJobSharesRows DEF made

(***************************************************************************)
(* A job needs no more participants than the pool has, and a participant   *)
(* that is given a share by itself has something to do.                    *)
(***************************************************************************)
THEOREM SharesFit ==
  ASSUME NEW r \in Request
  PROVE  /\ JobOf(r).workers \in 1 .. MaxWorkers
         /\ ~JobOf(r).dynamic => \A u \in 0 .. JobOf(r).units - 1 : UnitItems(JobOf(r), u) # {}
<1>1. SharedJob(JobOf(r)) /\ GoodJob(JobOf(r))
  BY JobIsShared, JobFacts
<1> QED
  BY <1>1, StaticShareHasItems DEF GoodJob

\* A unit of a fused job has as many items as it writes rows: the row of a
\* projection is the item that lies behind the rows of those before it.
LEMMA FusedUnitWritesItsItems ==
  ASSUME NEW j, SharedJob(j), NEW lens \in [1 .. 3 -> Nat],
         j.items = lens[1] + lens[2] + lens[3], NEW u \in 0 .. j.units - 1,
         NEW N \in Nat, \A k \in 1 .. 3 : lens[k] <= N
  PROVE  Cardinality(UnitItems(j, u)) =
           Cardinality({row \in (1 .. 3) \X (0 .. N - 1) : row[2] \in ProjectionRows(j, lens, u, row[1])})
<1> DEFINE rows  == {row \in (1 .. 3) \X (0 .. N - 1) : row[2] \in ProjectionRows(j, lens, u, row[1])}
           items == UnitItems(j, u)
           Lies(p) == OffsetOf(lens, p[1]) + p[2]
           lies  == [p \in rows |-> Lies(p)]
<1>1. /\ lens[1] \in Nat /\ lens[2] \in Nat /\ lens[3] \in Nat
      /\ lens[1] <= N /\ lens[2] <= N /\ lens[3] <= N
      /\ j.items \in Nat
  BY DEF SharedJob
<1>2. /\ OffsetOf(lens, 1) = 0 /\ OffsetOf(lens, 2) = lens[1]
      /\ OffsetOf(lens, 3) = lens[1] + lens[2]
  BY DEF OffsetOf
<1>3. /\ \A p \in rows : p = <<p[1], p[2]>> /\ p[1] \in {1, 2, 3} /\ p[2] \in ProjectionRows(j, lens, u, p[1])
      /\ \A k \in {1, 2, 3}, i \in 0 .. N - 1 : i \in ProjectionRows(j, lens, u, k) => <<k, i>> \in rows
  OBVIOUS
<1>4. ASSUME NEW k \in {1, 2, 3}, NEW i \in 0 .. lens[k] - 1
      PROVE  /\ OffsetOf(lens, k) + i \in 0 .. j.items - 1
             /\ i \in ProjectionRows(j, lens, u, k) <=> OffsetOf(lens, k) + i \in items
  BY FusedRowIsItem DEF items
<1>5. \A k \in {1, 2, 3} : ProjectionRows(j, lens, u, k) \subseteq 0 .. lens[k] - 1
  BY DEF ProjectionRows
<1>6. items \subseteq 0 .. j.items - 1
  BY DEF UnitItems
<1> HIDE DEF rows, items
<1>7. ASSUME NEW p \in rows
      PROVE  Lies(p) \in items
  <2>1. p[1] \in {1, 2, 3} /\ p[2] \in 0 .. lens[p[1]] - 1 /\ p[2] \in ProjectionRows(j, lens, u, p[1])
    BY <1>3, <1>5
  <2> QED BY <1>4, <2>1
<1>8. ASSUME NEW p \in rows, NEW q \in rows, Lies(p) = Lies(q)
      PROVE  p = q
  <2>1. /\ p[1] \in {1, 2, 3} /\ p[2] \in 0 .. lens[p[1]] - 1 /\ p = <<p[1], p[2]>>
        /\ q[1] \in {1, 2, 3} /\ q[2] \in 0 .. lens[q[1]] - 1 /\ q = <<q[1], q[2]>>
    BY <1>3, <1>5
  <2>2. ASSUME NEW k \in {1, 2, 3}, NEW l \in {1, 2, 3}, NEW i \in 0 .. lens[k] - 1,
               NEW i2 \in 0 .. lens[l] - 1, OffsetOf(lens, k) + i = OffsetOf(lens, l) + i2
        PROVE  k = l /\ i = i2
    BY <1>1, <1>2, <2>2
  <2>3. p[1] = q[1] /\ p[2] = q[2]
    BY <2>1, <2>2, <1>8
  <2> QED BY <2>1, <2>3
<1>9. ASSUME NEW item \in items
      PROVE  \E p \in rows : Lies(p) = item
  <2>1. \E k \in {1, 2, 3} : \E i \in 0 .. lens[k] - 1 : OffsetOf(lens, k) + i = item
    <3>1. item \in Nat /\ item < lens[1] + lens[2] + lens[3]
      BY <1>1, <1>6
    <3>2. CASE item < lens[1]
      BY <1>1, <1>2, <3>1, <3>2
    <3>3. CASE lens[1] <= item /\ item < lens[1] + lens[2]
      <4>1. item - lens[1] \in 0 .. lens[2] - 1 /\ OffsetOf(lens, 2) + (item - lens[1]) = item
        BY <1>1, <1>2, <3>1, <3>3
      <4> QED BY <4>1
    <3>4. CASE lens[1] + lens[2] <= item
      <4>1. item - (lens[1] + lens[2]) \in 0 .. lens[3] - 1
            /\ OffsetOf(lens, 3) + (item - (lens[1] + lens[2])) = item
        BY <1>1, <1>2, <3>1, <3>4
      <4> QED BY <4>1
    <3> QED BY <1>1, <3>1, <3>2, <3>3, <3>4
  <2>2. PICK k \in {1, 2, 3} : \E i \in 0 .. lens[k] - 1 : OffsetOf(lens, k) + i = item
    BY <2>1
  <2>3. PICK i \in 0 .. lens[k] - 1 : OffsetOf(lens, k) + i = item
    BY <2>2
  <2>4. i \in 0 .. N - 1 /\ i \in ProjectionRows(j, lens, u, k)
    BY <1>1, <1>4, <2>3
  <2>5. <<k, i>> \in rows /\ Lies(<<k, i>>) = item
    BY <1>3, <2>3, <2>4
  <2> QED BY <2>5
<1> HIDE DEF Lies
<1>10. lies \in Bijection(rows, items)
  <2>1. lies \in [rows -> items]
    BY <1>7
  <2>2. lies \in Injection(rows, items)
    BY <1>8, <2>1 DEF Injection, IsInjective
  <2>3. lies \in Surjection(rows, items)
    BY <1>9, <2>1 DEF Surjection
  <2> QED BY <2>2, <2>3 DEF Bijection
<1>11. IsFiniteSet(rows)
  <2>1. rows \subseteq (1 .. 3) \X (0 .. N - 1)
    BY DEF rows
  <2>2. IsFiniteSet((1 .. 3) \X (0 .. N - 1))
    <3>1. 1 \in Int /\ 3 \in Int /\ 0 \in Int /\ N - 1 \in Int
      OBVIOUS
    <3>2. IsFiniteSet(1 .. 3) /\ IsFiniteSet(0 .. N - 1)
      BY <3>1, FS_Interval
    <3> QED BY <3>2, FS_Product
  <2> QED BY <2>1, <2>2, FS_Subset
<1>12. ExistsBijection(rows, items)
  BY <1>10 DEF ExistsBijection
<1> QED
  BY <1>11, <1>12, FS_Bijection DEF rows, items

(***************************************************************************)
(* What the schedule makes of any request to any entry point, as the runs  *)
(* ask it of small ones: the job fits the pool and leaves no participant   *)
(* without work, every item is in one unit, the rows of fused projections  *)
(* are neither dropped nor repeated at the seams, each unit writes as many *)
(* rows as it has items, and dropping workers costs no speed.              *)
(***************************************************************************)
THEOREM RequestsShareTheWork ==
  ASSUME MaxLen \in Nat, MaxTokens \in Nat, MaxThreads \in Nat,
         NEW kind \in Kinds, NEW r \in RequestsOf(kind)
  PROVE  SharesTheWork(r)
<1> DEFINE request == [kind |-> r.kind, items |-> RowsOf(r), tokens |-> r.tokens, workers |-> r.threads]
           made == JobFor(r)
<1>1. /\ r.kind \in Kinds /\ r.tokens \in Nat \ {0} /\ r.threads \in Nat \ {0}
      /\ r.lens \in [1 .. 3 -> Nat] /\ r.lens[1] # 0
      /\ \A k \in 1 .. 3 : r.lens[k] <= MaxLen
  BY DEF RequestsOf
<1>2. RowsOf(r) \in Nat \ {0} /\ RowsOf(r) = r.lens[1] + r.lens[2] + r.lens[3]
  BY <1>1 DEF RowsOf
<1>3. request \in Request
  BY <1>1, <1>2 DEF Request
<1>4. made = JobOf(request)
  BY DEF JobFor
<1>5. SharedJob(made) /\ GoodJob(made)
  BY <1>3, <1>4, JobIsShared, JobFacts
<1> HIDE DEF made, request
<1>6. SharesFitThePool(made)
  BY <1>3, <1>4, SharesFit DEF SharesFitThePool, UnitsIn
<1>7. UnitsPartitionItems(made)
  <2> SUFFICES ASSUME NEW i \in 0 .. made.items - 1
               PROVE  Cardinality({u \in UnitsIn(made) : i \in UnitItems(made, u)}) = 1
    BY DEF UnitsPartitionItems
  <2>1. PICK u \in 0 .. made.units - 1 :
          \A v \in 0 .. made.units - 1 : i \in UnitItems(made, v) <=> v = u
    BY <1>5, JobSharesItems
  <2>2. {v \in UnitsIn(made) : i \in UnitItems(made, v)} = {u}
    BY <2>1 DEF UnitsIn
  <2> QED BY <2>2, FS_Singleton
<1>8. ASSUME made.items = RowsOf(r)
      PROVE  FusedRowsPartition(made, r.lens)
  <2>1. made.items = r.lens[1] + r.lens[2] + r.lens[3]
    BY <1>2, <1>8
  <2>2. ASSUME NEW k \in 1 .. 3, NEW i \in 0 .. r.lens[k] - 1
        PROVE  Cardinality({u \in UnitsIn(made) : i \in ProjectionRows(made, r.lens, u, k)}) = 1
    <3>1. PICK u \in 0 .. made.units - 1 :
            \A v \in 0 .. made.units - 1 : i \in ProjectionRows(made, r.lens, v, k) <=> v = u
      <4> DEFINE lens == r.lens
      <4>1. lens \in [1 .. 3 -> Nat] /\ made.items = lens[1] + lens[2] + lens[3] /\ i \in 0 .. lens[k] - 1
        BY <1>1, <2>1
      <4> HIDE DEF lens
      <4>2. \E u \in 0 .. made.units - 1 :
              \A v \in 0 .. made.units - 1 : i \in ProjectionRows(made, lens, v, k) <=> v = u
        BY <1>5, <4>1, FusedJobSharesRows
      <4> QED BY <4>2 DEF lens
    <3>2. {v \in UnitsIn(made) : i \in ProjectionRows(made, r.lens, v, k)} = {u}
      BY <3>1 DEF UnitsIn
    <3> QED BY <3>2, FS_Singleton
  <2>3. ASSUME NEW u \in UnitsIn(made)
        PROVE  Cardinality(UnitItems(made, u)) =
                 Cardinality({row \in (1 .. 3) \X (0 .. MaxLen - 1) :
                                row[2] \in ProjectionRows(made, r.lens, u, row[1])})
    BY <1>1, <1>5, <2>1, FusedUnitWritesItsItems DEF UnitsIn
  <2> QED BY <2>2, <2>3 DEF FusedRowsPartition
<1>9. FewerRangeWorkersAreAsFast(r)
  BY <1>1, <1>2, DroppingWorkersCostsNothing DEF FewerRangeWorkersAreAsFast, LargestShare
<1> QED
  BY <1>6, <1>7, <1>8, <1>9 DEF SharesTheWork, made

\* Every row of a call's job is in one unit, which was computed exactly once,
\* and in no other.
EveryRowOnce ==
  \A c \in Callers :
    cpc[c] = "returned" =>
      \A i \in 0 .. cjob[c].items - 1 :
        \E u \in JobUnits(c) :
          /\ ran[c][u] = 1
          /\ \A v \in JobUnits(c) : i \in UnitItems(cjob[c], v) <=> v = u

(***************************************************************************)
(* When a call returns, each output row of its job was written exactly     *)
(* once, by one thread (the raw output pointers of WorkerPool's jobs).     *)
(***************************************************************************)
THEOREM RowsComputedOnce == Spec => []EveryRowOnce
<1>1. TypeOK /\ EveryUnitOnce => EveryRowOnce
  <2> SUFFICES ASSUME TypeOK, EveryUnitOnce, NEW c \in Callers, cpc[c] = "returned",
                      NEW i \in 0 .. cjob[c].items - 1
               PROVE  \E u \in JobUnits(c) :
                        /\ ran[c][u] = 1
                        /\ \A v \in JobUnits(c) : i \in UnitItems(cjob[c], v) <=> v = u
    BY DEF EveryRowOnce
  <2>1. cjob[c] # NoWork
    BY DEF NoWork
  <2>2. PICK r \in Requests : cjob[c] = JobOf(r)
    BY <2>1 DEF TypeOK, Work, Jobs
  <2>3. SharedJob(cjob[c])
    BY <2>2, JobIsShared, PoolAssumption
  <2>4. /\ UnitOf(cjob[c], i) \in JobUnits(c)
        /\ \A v \in JobUnits(c) : i \in UnitItems(cjob[c], v) <=> v = UnitOf(cjob[c], i)
    BY <2>3, JobSharesItems DEF JobUnits
  <2>5. ran[c][UnitOf(cjob[c], i)] = 1
    BY <2>4 DEF EveryUnitOnce, JobUnits
  <2> QED BY <2>4, <2>5
<1> QED
  BY <1>1, TypeCorrect, UnitsComputedOnce, PTL
=============================================================================
