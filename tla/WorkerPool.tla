----------------------------- MODULE WorkerPool -----------------------------
(***************************************************************************)
(* The SIMD worker pool (src/src/simd.rs, WorkerPool and worker_loop).     *)
(*                                                                         *)
(* Callers (threads that compute a matrix-vector product, a batch          *)
(* projection or an attention range) publish one job at a time.  The       *)
(* caller takes the dispatch mutex, writes the job slot, resets the chunk  *)
(* counter, stores the new generation into the wake word of every helper   *)
(* the job needs, unparks those helpers, runs shard 0 itself, and spins    *)
(* until each of them has stored the generation into its done word.        *)
(*                                                                         *)
(* Every atomic the protocol relies on is a release store read by an       *)
(* acquire load (or an AcqRel read-modify-write), and the two relaxed      *)
(* accesses to `generation` happen under the mutex, so the steps below     *)
(* interleave sequentially: one step per shared access.                    *)
(*                                                                         *)
(* `ran` is a history variable: how often each unit of the caller's        *)
(* current job was computed into the caller's output buffer.               *)
(***************************************************************************)
EXTENDS WorkerSchedule

CONSTANTS
  Callers,        \* threads that use the pool
  NoCaller,       \* the dispatch mutex is free
  Requests,       \* the requests callers make
  MaxGenerations  \* bound: callers make no new request past it

ASSUME PoolAssumption ==
  /\ Callers # {}
  /\ NoCaller \notin Callers
  /\ Requests \subseteq Request
  /\ MaxGenerations \in Nat

Helpers == 1 .. MaxWorkers - 1       \* slots[h - 1] drives shard h
Shards  == 0 .. MaxWorkers - 1       \* shard 0 is the caller
Jobs    == {JobOf(r) : r \in Requests}
Units   == UNION {0 .. j.units - 1 : j \in Jobs}

\* The job slot holds the work and the output pointer of the caller.
NoWork == [items |-> 0, workers |-> 0, dynamic |-> FALSE, chunk |-> 0, units |-> 0]
NoJob  == [out |-> NoCaller, work |-> NoWork]

VARIABLES
  dispatch,       \* owner of the dispatch mutex
  job,            \* the job slot
  current_chunk,  \* next chunk to claim
  generation,     \* generation of the last completed dispatch
  wake, done,     \* per helper: the words of its slot
  thread,         \* per helper: whether its slot carries a thread handle
  token,          \* per helper: the park token of its thread
  hpc,            \* per helper: where worker_loop stands
  last_seen,      \* per helper: the loop's last_seen
  seen,           \* per helper: the loop's `generation`
  hjob,           \* per helper: its copy of the job
  unit,           \* per shard: chunk_idx, or the share it runs
  cpc,            \* per caller: where its call stands
  cjob,           \* per caller: the job of its call
  cursor,         \* the slot index of the dispatcher's current loop
  ran             \* history, see above

callerVars == <<dispatch, cpc, cjob, cursor>>
loopVars   == <<hpc, last_seen, seen, hjob>>
slotVars   == <<wake, done, thread, token>>
vars == <<dispatch, job, current_chunk, generation, wake, done, thread, token,
          hpc, last_seen, seen, hjob, unit, cpc, cjob, cursor, ran>>

(***************************************************************************)
(* WorkerPool::new has spawned the helper threads; none has run yet.       *)
(***************************************************************************)
Init ==
  /\ dispatch = NoCaller
  /\ job = NoJob
  /\ current_chunk = 0
  /\ generation = 0
  /\ wake = [h \in Helpers |-> 0]
  /\ done = [h \in Helpers |-> 0]
  /\ thread = [h \in Helpers |-> FALSE]
  /\ token = [h \in Helpers |-> FALSE]
  /\ hpc = [h \in Helpers |-> "spawned"]
  /\ last_seen = [h \in Helpers |-> 0]
  /\ seen = [h \in Helpers |-> 0]
  /\ hjob = [h \in Helpers |-> NoJob]
  /\ unit = [s \in Shards |-> 0]
  /\ cpc = [c \in Callers |-> "idle"]
  /\ cjob = [c \in Callers |-> NoWork]
  /\ cursor = 0
  /\ ran = [c \in Callers |-> [u \in Units |-> 0]]

-----------------------------------------------------------------------------
(* The caller. *)

\* worker_pool() hands the pool out only after WorkerPool::new saw a thread
\* handle in every slot.
PoolBuilt == \A h \in Helpers : thread[h]

\* Slip: the generation counts down.
DispatchingDown == generation - 1

\* The generation being dispatched, and the last helper it needs.
Dispatching == generation + 1
LastHelper == Least(job.work.workers - 1, MaxWorkers - 1)

\* A call starts with a fresh output buffer.
Call(c, r) ==
  /\ PoolBuilt
  /\ cpc[c] = "idle"
  /\ generation < MaxGenerations
  /\ cjob' = [cjob EXCEPT ![c] = JobOf(r)]
  /\ \/ /\ Parallel(JobOf(r))
        /\ cpc' = [cpc EXCEPT ![c] = "lock"]
        /\ ran' = [ran EXCEPT ![c] = [u \in Units |-> 0]]
     \/ \* The serial path never touches the pool's shared state.
        /\ ~Parallel(JobOf(r))
        /\ cpc' = [cpc EXCEPT ![c] = "returned"]
        /\ ran' = [ran EXCEPT ![c] = [u \in Units |-> IF u = 0 THEN 1 ELSE 0]]
  /\ UNCHANGED <<dispatch, cursor, job, current_chunk, generation, unit>>
  /\ UNCHANGED <<loopVars, slotVars>>

\* A step of the thread that owns the dispatch mutex.
DispatcherStep(c, from, to) ==
  /\ dispatch = c
  /\ cpc[c] = from
  /\ cpc' = [cpc EXCEPT ![c] = to]

\* Slip: the dispatch mutex is not waited for.
LockWithoutMutex(c) ==
  /\ cpc[c] = "lock"
  /\ dispatch' = c
  /\ cpc' = [cpc EXCEPT ![c] = "write"]
  /\ UNCHANGED <<cjob, cursor, job, current_chunk, generation, unit, ran>>
  /\ UNCHANGED <<loopVars, slotVars>>

Lock(c) ==
  /\ cpc[c] = "lock"
  /\ dispatch = NoCaller
  /\ dispatch' = c
  /\ cpc' = [cpc EXCEPT ![c] = "write"]
  /\ UNCHANGED <<cjob, cursor, job, current_chunk, generation, unit, ran>>
  /\ UNCHANGED <<loopVars, slotVars>>

WriteJob(c) ==
  /\ DispatcherStep(c, "write", "reset")
  /\ job' = [out |-> c, work |-> cjob[c]]
  /\ UNCHANGED <<dispatch, cjob, cursor, current_chunk, generation, unit, ran>>
  /\ UNCHANGED <<loopVars, slotVars>>

\* Slip: the counter starts at 0, though every participant begins with the
\* chunk of its own number.
ResetChunkToZero(c) ==
  /\ DispatcherStep(c, "reset", "wake")
  /\ current_chunk' = 0
  /\ cursor' = 1
  /\ unit' = [unit EXCEPT ![0] = 0]
  /\ UNCHANGED <<dispatch, cjob, job, generation, ran>>
  /\ UNCHANGED <<loopVars, slotVars>>

ResetChunk(c) ==
  /\ DispatcherStep(c, "reset", "wake")
  /\ current_chunk' = job.work.workers
  /\ cursor' = 1
  /\ unit' = [unit EXCEPT ![0] = 0]
  /\ UNCHANGED <<dispatch, cjob, job, generation, ran>>
  /\ UNCHANGED <<loopVars, slotVars>>

\* One iteration of a loop over the slots of this job's helpers; the last
\* one moves on.
SlotLoop(c, here, next) ==
  /\ DispatcherStep(c, here, IF cursor = LastHelper THEN next ELSE here)
  /\ cursor' = IF cursor = LastHelper THEN 1 ELSE cursor + 1
  /\ UNCHANGED <<dispatch, cjob, job, current_chunk, generation, unit, ran>>
  /\ UNCHANGED loopVars

WakeHelper(c) ==
  /\ SlotLoop(c, "wake", "unpark")
  /\ wake' = [wake EXCEPT ![cursor] = Dispatching]
  /\ UNCHANGED <<done, thread, token>>

\* Slip: the loop over the slots to unpark stops one short.
UnparkAllButLast(c) ==
  /\ SlotLoop(c, "unpark", "run")
  /\ token' = [token EXCEPT ![cursor] = @ \/ (thread[cursor] /\ cursor < LastHelper)]
  /\ UNCHANGED <<wake, done, thread>>

\* The handle, if there is one, makes the thread's park token available.
UnparkHelper(c) ==
  /\ SlotLoop(c, "unpark", "run")
  /\ token' = [token EXCEPT ![cursor] = @ \/ thread[cursor]]
  /\ UNCHANGED <<wake, done, thread>>

\* Computing the unit a shard holds, into the job's output buffer.
Compute(s, out) == ran' = [ran EXCEPT ![out][unit[s]] = @ + 1]

\* Whether the shard's loop has a unit left to compute.
HasUnit(s, work) == unit[s] < work.units

\* A dynamic shard claims its next chunk; a static one has only its share.
Claim(s, work) ==
  IF work.dynamic
  THEN /\ unit' = [unit EXCEPT ![s] = current_chunk]
       /\ current_chunk' = current_chunk + 1
  ELSE /\ unit' = [unit EXCEPT ![s] = work.units]
       /\ UNCHANGED current_chunk

RunShard0(c) ==
  /\ DispatcherStep(c, "run", "claim")
  /\ HasUnit(0, cjob[c])
  /\ Compute(0, c)
  /\ UNCHANGED <<dispatch, cjob, cursor, job, current_chunk, generation, unit>>
  /\ UNCHANGED <<loopVars, slotVars>>

ClaimShard0(c) ==
  /\ DispatcherStep(c, "claim", "run")
  /\ Claim(0, cjob[c])
  /\ UNCHANGED <<dispatch, cjob, cursor, job, generation, ran>>
  /\ UNCHANGED <<loopVars, slotVars>>

FinishShard0(c) ==
  /\ DispatcherStep(c, "run", "wait")
  /\ ~HasUnit(0, cjob[c])
  /\ UNCHANGED <<dispatch, cjob, cursor, job, current_chunk, generation, unit, ran>>
  /\ UNCHANGED <<loopVars, slotVars>>

\* Slip: the previous generation's done word ends the spin.
AwaitHelperOffByOne(c) ==
  /\ SlotLoop(c, "wait", "unlock")
  /\ done[cursor] >= generation
  /\ UNCHANGED slotVars

\* The spin on one slot's done word sees this generation.
AwaitHelper(c) ==
  /\ SlotLoop(c, "wait", "unlock")
  /\ done[cursor] = Dispatching
  /\ UNCHANGED slotVars

\* Storing the generation and dropping the mutex guard; nobody reads the
\* generation without the mutex.
Unlock(c) ==
  /\ DispatcherStep(c, "unlock", "returned")
  /\ generation' = Dispatching
  /\ dispatch' = NoCaller
  /\ UNCHANGED <<cjob, cursor, job, current_chunk, unit, ran>>
  /\ UNCHANGED <<loopVars, slotVars>>

\* The caller uses its results and goes about its business.
Leave(c) ==
  /\ cpc[c] = "returned"
  /\ cpc' = [cpc EXCEPT ![c] = "idle"]
  /\ UNCHANGED <<dispatch, cjob, cursor, job, current_chunk, generation, unit, ran>>
  /\ UNCHANGED <<loopVars, slotVars>>

-----------------------------------------------------------------------------
(* A helper. *)

HelperStep(h, from, to) ==
  /\ hpc[h] = from
  /\ hpc' = [hpc EXCEPT ![h] = to]

PublishHandle(h) ==
  /\ HelperStep(h, "spawned", "start")
  /\ thread' = [thread EXCEPT ![h] = TRUE]
  /\ UNCHANGED <<wake, done, token, last_seen, seen, hjob>>
  /\ UNCHANGED <<callerVars, job, current_chunk, generation, unit, ran>>

\* The initial last_seen is whatever the wake word holds by now.
ReadInitialWake(h) ==
  /\ HelperStep(h, "start", "poll")
  /\ last_seen' = [last_seen EXCEPT ![h] = wake[h]]
  /\ UNCHANGED <<slotVars, seen, hjob>>
  /\ UNCHANGED <<callerVars, job, current_chunk, generation, unit, ran>>

\* A load of the wake word, in the spin phase or after a park, that finds a
\* new generation.
SeeWake(h) ==
  /\ hpc[h] \in {"poll", "unparked"}
  /\ wake[h] # last_seen[h]
  /\ hpc' = [hpc EXCEPT ![h] = "read"]
  /\ seen' = [seen EXCEPT ![h] = wake[h]]
  /\ UNCHANGED <<slotVars, last_seen, hjob>>
  /\ UNCHANGED <<callerVars, job, current_chunk, generation, unit, ran>>

\* The last load of the spin phase, or the one after a park, finds nothing
\* new: the thread is about to park.
SeeNoWake(h) ==
  /\ hpc[h] \in {"poll", "unparked"}
  /\ wake[h] = last_seen[h]
  /\ hpc' = [hpc EXCEPT ![h] = "parked"]
  /\ UNCHANGED <<slotVars, last_seen, seen, hjob>>
  /\ UNCHANGED <<callerVars, job, current_chunk, generation, unit, ran>>

\* thread::park returns by consuming the token.
Unparked(h) ==
  /\ HelperStep(h, "parked", "unparked")
  /\ token[h]
  /\ token' = [token EXCEPT ![h] = FALSE]
  /\ UNCHANGED <<wake, done, thread, last_seen, seen, hjob>>
  /\ UNCHANGED <<callerVars, job, current_chunk, generation, unit, ran>>

\* thread::park may also return for no reason.
SpuriousReturn(h) ==
  /\ HelperStep(h, "parked", "unparked")
  /\ ~token[h]
  /\ UNCHANGED <<slotVars, last_seen, seen, hjob>>
  /\ UNCHANGED <<callerVars, job, current_chunk, generation, unit, ran>>

\* Copying the job slot; a helper beyond the job's workers has no shard.
ReadJob(h) ==
  /\ HelperStep(h, "read", IF h < job.work.workers THEN "run" ELSE "report")
  /\ hjob' = [hjob EXCEPT ![h] = job]
  /\ unit' = [unit EXCEPT ![h] = h]
  /\ UNCHANGED <<slotVars, last_seen, seen>>
  /\ UNCHANGED <<callerVars, job, current_chunk, generation, ran>>

RunShard(h) ==
  /\ HelperStep(h, "run", "claim")
  /\ HasUnit(h, hjob[h].work)
  /\ Compute(h, hjob[h].out)
  /\ UNCHANGED <<slotVars, last_seen, seen, hjob>>
  /\ UNCHANGED <<callerVars, job, current_chunk, generation, unit>>

ClaimShard(h) ==
  /\ HelperStep(h, "claim", "run")
  /\ Claim(h, hjob[h].work)
  /\ UNCHANGED <<slotVars, last_seen, seen, hjob>>
  /\ UNCHANGED <<callerVars, job, generation, ran>>

FinishShard(h) ==
  /\ HelperStep(h, "run", "report")
  /\ ~HasUnit(h, hjob[h].work)
  /\ UNCHANGED <<slotVars, last_seen, seen, hjob>>
  /\ UNCHANGED <<callerVars, job, current_chunk, generation, unit, ran>>

\* last_seen is the thread's own, so it changes with the store of done.
Report(h) ==
  /\ HelperStep(h, "report", "poll")
  /\ last_seen' = [last_seen EXCEPT ![h] = seen[h]]
  /\ done' = [done EXCEPT ![h] = seen[h]]
  /\ UNCHANGED <<wake, thread, token, seen, hjob>>
  /\ UNCHANGED <<callerVars, job, current_chunk, generation, unit, ran>>

-----------------------------------------------------------------------------

CallerRuns(c) ==
  \/ Lock(c) \/ WriteJob(c) \/ ResetChunk(c) \/ WakeHelper(c) \/ UnparkHelper(c)
  \/ RunShard0(c) \/ ClaimShard0(c) \/ FinishShard0(c)
  \/ AwaitHelper(c) \/ Unlock(c)

HelperRuns(h) ==
  \/ PublishHandle(h) \/ ReadInitialWake(h) \/ SeeWake(h) \/ SeeNoWake(h)
  \/ Unparked(h) \/ ReadJob(h) \/ RunShard(h) \/ ClaimShard(h)
  \/ FinishShard(h) \/ Report(h)

Next ==
  \/ \E c \in Callers : Leave(c) \/ CallerRuns(c) \/ \E r \in Requests : Call(c, r)
  \/ \E h \in Helpers : HelperRuns(h) \/ SpuriousReturn(h)

Spec == Init /\ [][Next]_vars

(***************************************************************************)
(* The scheduler runs every runnable thread: weak fairness for each helper *)
(* and for a caller inside a call.  Nothing is assumed of spurious         *)
(* returns, of new calls, of what a caller does between calls, or of the   *)
(* mutex beyond its being taken when it stays free.                        *)
(***************************************************************************)
Fairness ==
  /\ \A h \in Helpers : WF_vars(HelperRuns(h))
  /\ \A c \in Callers : WF_vars(CallerRuns(c))

FairSpec == Spec /\ Fairness
-----------------------------------------------------------------------------
(* Properties. *)

Work == Jobs \cup {NoWork}

CallerStates == {"idle", "lock", "write", "reset", "wake", "unpark", "run",
                 "claim", "wait", "unlock", "returned"}
HelperStates == {"spawned", "start", "poll", "parked", "unparked", "read",
                 "run", "claim", "report"}

\* Every variable keeps its type.
TypeOK ==
  /\ dispatch \in Callers \cup {NoCaller}
  /\ job \in [out : Callers \cup {NoCaller}, work : Work]
  /\ current_chunk \in Nat
  /\ generation \in Nat
  /\ wake \in [Helpers -> Nat]
  /\ done \in [Helpers -> Nat]
  /\ thread \in [Helpers -> BOOLEAN]
  /\ token \in [Helpers -> BOOLEAN]
  /\ hpc \in [Helpers -> HelperStates]
  /\ last_seen \in [Helpers -> Nat]
  /\ seen \in [Helpers -> Nat]
  /\ hjob \in [Helpers -> [out : Callers \cup {NoCaller}, work : Work]]
  /\ unit \in [Shards -> Nat]
  /\ cpc \in [Callers -> CallerStates]
  /\ cjob \in [Callers -> Work]
  /\ cursor \in Nat
  /\ ran \in [Callers -> [Units -> Nat]]

\* A helper that has seen a wake-up and has not reported yet.
Working(h) == hpc[h] \in {"read", "run", "claim", "report"}

\* A caller that owns the dispatch mutex.
InDispatch(c) ==
  cpc[c] \in {"write", "reset", "wake", "unpark", "run", "claim", "wait", "unlock"}

\* The safety argument of the job slot (the comment above "unsafe impl Sync
\* for WorkerPool"): it is written, and the chunk counter reset, by one
\* caller at a time and only while no helper is running.
JobSlotExclusive ==
  \A c \in Callers :
    cpc[c] \in {"write", "reset"} =>
      /\ \A d \in Callers \ {c} : ~InDispatch(d)
      /\ \A h \in Helpers : ~Working(h)

\* When a call returns, every unit of its job was computed exactly once: no
\* output row is left unwritten and no two threads wrote the same row.
EveryUnitOnce ==
  \A c \in Callers :
    cpc[c] = "returned" => \A u \in 0 .. cjob[c].units - 1 : ran[c][u] = 1

\* Nobody computes into a caller's buffer except from the moment the call
\* takes the dispatch mutex until it returns: the raw pointers in a job are
\* never used after the borrow behind them ended.
BuffersOnlyInCall ==
  [][\A c \in Callers : ran'[c] # ran[c] => InDispatch(c) \/ cpc[c] = "idle"]_vars

\* A helper that took the first generation it was woken for as the value its
\* wake word had before any wake-up.
MissedFirstWake(h) ==
  hpc[h] \notin {"spawned", "start"} /\ last_seen[h] # done[h]

\* Every call returns, unless a helper missed the wake-up that came while
\* its thread was starting: none is lost to a helper that parks ("an unpark
\* that lands before the park makes it return immediately; re-checking wake
\* covers both", worker_loop).
CallReturnsUnlessWakeMissed ==
  \A c \in Callers :
    cpc[c] = "lock" ~> (cpc[c] = "returned" \/ \E h \in Helpers : MissedFirstWake(h))

\* What run_job's doc comment and the comment in WorkerPool::new say: a call
\* blocks until every helper reports completion, and no wake-up is lost.
EveryCallReturns ==
  \A c \in Callers : cpc[c] = "lock" ~> cpc[c] = "returned"

-----------------------------------------------------------------------------
(* The inductive invariants behind the safety properties. *)

\* A dispatcher whose job is in the slot and whose chunk counter is reset.
Published(c) == cpc[c] \in {"wake", "unpark", "run", "claim", "wait", "unlock"}
Started(h)   == hpc[h] \notin {"spawned", "start"}
Needed(h)    == h < job.work.workers

MutexInv == \A c \in Callers : InDispatch(c) <=> dispatch = c

\* The job slot and the counter belong to the dispatcher's call.
SlotOwnerInv ==
  \A c \in Callers :
    /\ cpc[c] = "lock" \/ InDispatch(c) => Parallel(cjob[c])
    /\ cpc[c] = "reset" \/ Published(c) => job = [out |-> c, work |-> cjob[c]]
    /\ Published(c) => cursor \in 1 .. LastHelper
    /\ cpc[c] \in {"run", "claim", "unlock"} => cursor = 1

\* Which generation each of a helper's words can hold.  A helper's wake word
\* holds the generation in flight exactly when the dispatcher has woken it,
\* and no helper works on anything else.
WakeInv ==
  \A h \in Helpers :
    /\ done[h] <= last_seen[h]
    /\ last_seen[h] <= wake[h]
    /\ wake[h] <= Dispatching
    /\ wake[h] = Dispatching <=>
         \E c \in Callers : Published(c) /\ Needed(h) /\ (cpc[c] = "wake" => h < cursor)
    /\ ~Started(h) => last_seen[h] = 0
    /\ Started(h) /\ wake[h] # Dispatching => last_seen[h] = wake[h]
    /\ Working(h) => seen[h] = Dispatching /\ wake[h] = Dispatching /\ last_seen[h] # wake[h]
    /\ hpc[h] \in {"run", "claim", "report"} => hjob[h] = job
    /\ \A c \in Callers :
         Needed(h) /\ (cpc[c] = "unlock" \/ (cpc[c] = "wait" /\ h < cursor)) =>
           done[h] = Dispatching

\* Where a shard of the job in flight stands.
ShardAtRun(c, s)    == IF s = 0 THEN cpc[c] = "run" ELSE hpc[s] = "run"
ShardRunning(c, s)  == IF s = 0 THEN cpc[c] \in {"run", "claim"}
                               ELSE hpc[s] \in {"run", "claim"}
ShardFinished(c, s) == IF s = 0 THEN cpc[c] \in {"wait", "unlock"}
                               ELSE hpc[s] = "report" \/ done[s] = Dispatching
ShardBegun(c, s)    == ShardRunning(c, s) \/ ShardFinished(c, s)

\* Unit u is still to be computed by shard s: its first one, not begun yet,
\* or the one it holds.
Owes(c, s, u) ==
  \/ ~ShardBegun(c, s) /\ u = s
  \/ ShardAtRun(c, s) /\ u = unit[s]

JobShards(c) == 0 .. cjob[c].workers - 1
JobUnits(c)  == 0 .. cjob[c].units - 1

\* The units of the job of caller c: those below the counter are owed by
\* exactly one shard or computed once, the others are untouched; a shard only
\* stops when no chunk is left to claim.
CallerUnitInv(c) ==
  /\ cpc[c] \in {"lock", "write", "reset"} => \A u \in Units : ran[c][u] = 0
  /\ cpc[c] \in {"wake", "unpark"} => unit[0] = 0
  /\ Published(c) =>
       /\ current_chunk >= cjob[c].workers
       /\ ~cjob[c].dynamic => current_chunk = cjob[c].units
       /\ \A s \in JobShards(c) :
            /\ ShardRunning(c, s) =>
                 unit[s] < current_chunk \/ (~cjob[c].dynamic /\ unit[s] = cjob[c].units)
            /\ ShardFinished(c, s) => cjob[c].units <= current_chunk
       /\ \A u \in JobUnits(c) :
            /\ ran[c][u] \in {0, 1}
            /\ ran[c][u] = 1 =>
                 u < current_chunk /\ \A s \in JobShards(c) : ~Owes(c, s, u)
            /\ ran[c][u] = 0 /\ u < current_chunk => \E s \in JobShards(c) : Owes(c, s, u)
            /\ \A s, t \in JobShards(c) : Owes(c, s, u) /\ Owes(c, t, u) => s = t

UnitInv == \A c \in Callers : CallerUnitInv(c)
=============================================================================
