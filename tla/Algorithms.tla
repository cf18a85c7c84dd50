------------------------------ MODULE Algorithms ----------------------------
(***************************************************************************)
(* The pure algorithms, each against its reference: a subject and a group  *)
(* of its inputs are picked first, then an input of the group, and the     *)
(* invariants hold the algorithm's result on that input to the reference.  *)
(* The pool's schedules, attention, projections and forward passes are     *)
(* here, the other subjects are constants.                                 *)
(***************************************************************************)
EXTENDS AttentionCases, MatvecCases, ForwardCases

CONSTANTS
  MaxWorkers, MATVEC_CHUNK_ROWS, KQUANT_BATCH_CHUNK_ROWS, MIN_ROWS_PER_WORKER,
  MIN_DYNAMIC_CHUNKS_PER_WORKER,  \* of the pool, see WorkerSchedule
  MaxLen, MaxTokens, MaxThreads,  \* of its requests, see ScheduleCases
  Others,          \* the other algorithms
  GroupsOf(_),     \* the groups of inputs of one of them
  MembersOf(_, _)  \* the inputs in a group

ASSUME PoolsAssumption ==
  /\ MaxWorkers \in Nat \ {0}
  /\ MATVEC_CHUNK_ROWS \in Nat \ {0}
  /\ KQUANT_BATCH_CHUNK_ROWS \in Nat \ {0}
  /\ MIN_ROWS_PER_WORKER \in Nat
  /\ MIN_DYNAMIC_CHUNKS_PER_WORKER \in Nat
  /\ MaxLen \in Nat /\ MaxTokens \in Nat /\ MaxThreads \in Nat

ASSUME OthersAssumption == Others \cap {"schedule", "attention", "projections", "forward"} = {}

Scheduling == INSTANCE ScheduleCases

VARIABLES
  subject,  \* which algorithm
  group,    \* a group of its inputs
  input     \* <<>>, then one of them: <<i>>

vars == <<subject, group, input>>

Init ==
  /\ input = <<>>
  /\ \/ subject = "schedule" /\ group \in Scheduling!Kinds
     \/ subject = "attention" /\ group \in CallGroups
     \/ subject = "projections" /\ group \in Fusions
     \/ subject = "forward" /\ group \in Architectures
     \/ subject \in Others /\ group \in GroupsOf(subject)

Choose(inputs) ==
  /\ input = <<>>
  /\ \E i \in inputs : input' = <<i>>
  /\ UNCHANGED <<subject, group>>

Next ==
  \/ subject = "schedule" /\ Choose(Scheduling!RequestsOf(group))
  \/ subject = "attention" /\ Choose(CallsOf(group))
  \/ subject = "projections" /\ Choose(ProjectionsOf(group))
  \/ subject = "forward" /\ Choose(ModelsOf(group))
  \/ subject \in Others /\ Choose(MembersOf(subject, group))

Spec == Init /\ [][Next]_vars

Chosen(name) == subject = name /\ input # <<>>

(* The pool's schedules (WorkerPool's entry points, run_static_worker,      *)
(* run_dynamic_worker, clipped_range): every unit fits the pool and has     *)
(* work, every item is in one unit, fused rows are neither dropped nor      *)
(* repeated at the seams, and dropping workers costs no speed.              *)
WorkIsShared == Chosen("schedule") => Scheduling!SharesTheWork(input[1])

(* Each attention scan (grouped, with sink, bf16, batched, tiled; serial    *)
(* and over workers) weighs every row of a token's window exactly once,     *)
(* wherever the running maximum lies and the ring wraps, and every head is  *)
(* written once.                                                            *)
AttentionVisitsWindowOnce == Chosen("attention") => VisitsWindowOnce(input[1])

(* Two or three projections fused on one vector, and batches of vectors     *)
(* shared out by token or by row, give each output element what its matrix  *)
(* and its vector give alone, on every architecture and with any part of    *)
(* the work taken by Metal; and a call that does not fit is refused whole.  *)
ProjectionsAgree == Chosen("projections") => Agrees(input[1])

(* A prompt in chunks, a draft in one batch and the tokens one by one give  *)
(* the same cache, logits, embeddings and draft-head input, for every       *)
(* architecture and every mix of layers that is let into a batch.           *)
ForwardPathsAgree == Chosen("forward") => PathsAgree(input[1])
=============================================================================
