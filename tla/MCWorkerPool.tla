---------------------------- MODULE MCWorkerPool ----------------------------
(* TLC instances of the worker pool. *)
EXTENDS WorkerPool, TLC

\* Three items in three chunks for two workers, claimed dynamically; two
\* even shares; and one request that stays on the calling thread.
TwoWorkerRequests ==
  {[kind |-> "kquant_batch", items |-> 3, tokens |-> 1, workers |-> 2],
   [kind |-> "range", items |-> 2, tokens |-> 1, workers |-> 2],
   [kind |-> "matvec", items |-> 1, tokens |-> 1, workers |-> 2]}

\* Jobs that need both helpers and jobs that need one of them.
ThreeWorkerRequests ==
  {[kind |-> "kquant_batch", items |-> 4, tokens |-> 1, workers |-> 3],
   [kind |-> "range", items |-> 2, tokens |-> 1, workers |-> 3]}

\* Even shares for both helpers, for one of them, and none.
SharedRequests ==
  {[kind |-> "range", items |-> 3, tokens |-> 1, workers |-> 3],
   [kind |-> "range", items |-> 2, tokens |-> 1, workers |-> 3],
   [kind |-> "matvec", items |-> 1, tokens |-> 1, workers |-> 3]}

\* Callers are interchangeable.
CallerSymmetry == Permutations(Callers)
=============================================================================
