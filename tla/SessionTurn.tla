---------------------------- MODULE SessionTurn ----------------------------
(***************************************************************************)
(* Turns of one conversation session (Runner::generate_chat_with_session   *)
(* in src/src/runtime.rs on a Session of src/src/session.rs).              *)
(*                                                                         *)
(* A turn holds the session's mutex and the runner's generation lock, so   *)
(* turns of one session follow each other.  Each renders a prompt, keeps   *)
(* the longest common prefix of the prompt and the tokens the session      *)
(* holds, prefills the rest into the session's KV cache, and then samples  *)
(* and forwards tokens until a stop token, a stop sequence, the token      *)
(* budget or the capacity of the cache ends it.                            *)
(*                                                                         *)
(* Logits are [ctx, sampled]: the tokens they were computed from, and      *)
(* whether the sampler has already run over them (it applies the repeat    *)
(* penalty, and above temperature 0 the softmax, in place).                *)
(***************************************************************************)
EXTENDS KVCache

CONSTANTS
  MaxLen,         \* kv_cache.max_len
  Windows,        \* sliding windows a turn may ask for; 0 is none
  Ubatch,         \* tokens per prefill chunk
  Prompts,        \* rendered prompts
  MaxTokens,      \* bound on a turn's max_tokens
  Models,         \* the kinds of model that may be loaded
  NoLogits        \* an empty logits vector

ASSUME SessionAssumption ==
  /\ MaxLen \in Nat \ {0}
  /\ Windows \subseteq Nat \ {1} /\ Windows # {}
  /\ Ubatch \in Nat \ {0}
  /\ Prompts \subseteq Seq(Tokens) \ {<<>>}
  /\ MaxTokens \in Nat \ {0}
  /\ Models \subseteq ModelKinds
  /\ NoLogits \notin [ctx : Seq(Tokens) \cup {Garbage}, sampled : BOOLEAN]

VARIABLES
  model,       \* the kind of model loaded; never changes
  kv_cache, cached_tokens, last_logits,  \* the session
  pc,
  tokens,      \* the turn's prompt
  prefix_len,  \* how much of it was taken from the session
  fed,         \* prompt tokens in the cache so far
  pos,         \* position of the next token to forward
  budget,      \* tokens the decode loop may still generate
  logits,
  cut          \* history: since its last cold start, some turn's prompt left
               \* out tokens the session held

sessionVars == <<kv_cache, cached_tokens, last_logits>>
vars == <<model, kv_cache, cached_tokens, last_logits, pc, tokens,
          prefix_len, fed, pos, budget, logits, cut>>

Init ==
  /\ model \in Models
  /\ \E w \in Windows : kv_cache = NewCache(MaxLen, w)
  /\ cached_tokens = <<>>
  /\ last_logits = NoLogits
  /\ pc = "idle"
  /\ tokens = <<>>
  /\ prefix_len = 0 /\ fed = 0 /\ pos = 0 /\ budget = 0
  /\ logits = NoLogits
  /\ cut = FALSE

\* n is the length of the longest common prefix of a and b.
longest_common_prefix(a, b, n) ==
  /\ n <= Len(a) /\ n <= Len(b)
  /\ \A i \in 1 .. n : a[i] = b[i]
  /\ n < Len(a) /\ n < Len(b) => a[n + 1] # b[n + 1]

\* Slip: recurrent state is kept when the prompt leaves out cached tokens.
MustResetAttentionOnly(prompt, window, n) ==
  \/ WindowChanges(kv_cache, window)
  \/ Len(prompt) >= MaxLen

(***************************************************************************)
(* Session::reset happens when the window changes, when the prompt does    *)
(* not fit, or when recurrent state would have to be rewound.  The rows    *)
(* stay: a cold prefill overwrites them.                                   *)
(***************************************************************************)
MustReset(prompt, window, n) ==
  \/ WindowChanges(kv_cache, window)
  \/ Len(prompt) >= MaxLen
  \/ model = "hybrid" /\ n # Len(cached_tokens)

BeginTurn(prompt, window, max_tokens) ==
  /\ pc = "idle"
  /\ \E n \in 0 .. Len(prompt) :
       LET reset == MustReset(prompt, window, n)
           cache == set_sliding_window(kv_cache, window)
           reuse == n = Len(prompt) /\ last_logits # NoLogits /\ ~reset
       IN  /\ longest_common_prefix(prompt, cached_tokens, n)
           /\ kv_cache' = IF reset THEN [cache EXCEPT !.ssm = <<>>] ELSE cache
           /\ prefix_len' = IF reset THEN 0 ELSE n
           /\ cut' = (~reset /\ n > 0 /\ (cut \/ n < Len(cached_tokens)))
           /\ \/ \* The whole prompt is cached: sample from the saved logits.
                 /\ reuse
                 /\ logits' = last_logits
                 /\ last_logits' = NoLogits
                 /\ fed' = n
                 /\ cached_tokens' = prompt
                 /\ pc' = "sample"
              \/ \* Without saved logits the last prompt token is forwarded again.
                 /\ ~reuse
                 /\ logits' = NoLogits
                 /\ last_logits' = IF reset THEN NoLogits ELSE last_logits
                 /\ fed' = Least(prefix_len', Len(prompt) - 1)
                 /\ cached_tokens' = IF reset THEN <<>> ELSE cached_tokens
                 /\ pc' = "prefill"
  /\ tokens' = prompt
  /\ pos' = Len(prompt)
  /\ budget' = max_tokens
  /\ UNCHANGED model

\* All but the last prompt token are prefilled in chunks of Ubatch.
AtChunkStart == (fed - prefix_len) % Ubatch = 0
ChunkEnd == Least(fed + Ubatch, Len(tokens) - 1)
Chunk == SubSeq(tokens, fed + 1, ChunkEnd)

\* The batch kernels take the chunk, and it fits the storage.
Batched ==
  /\ model = "batched"
  /\ Len(tokens) - prefix_len > 2
  /\ AtChunkStart
  /\ Len(Chunk) \in 2 .. kv_cache.storage_len

PrefillBatch ==
  /\ pc = "prefill"
  /\ fed < Len(tokens) - 1
  /\ Batched
  /\ \A p \in fed .. ChunkEnd - 1 : InStorage(kv_cache, p)
  /\ kv_cache' = ForwardBatch(kv_cache, model, Chunk, fed)
  /\ fed' = ChunkEnd
  /\ UNCHANGED <<model, cached_tokens, last_logits, pc, tokens, prefix_len, pos,
                 budget, logits, cut>>

PrefillToken ==
  /\ pc = "prefill"
  /\ fed < Len(tokens) - 1
  /\ ~Batched
  /\ InStorage(kv_cache, fed)
  /\ kv_cache' = Forward(kv_cache, model, tokens[fed + 1], fed)
  /\ fed' = fed + 1
  /\ UNCHANGED <<model, cached_tokens, last_logits, pc, tokens, prefix_len, pos,
                 budget, logits, cut>>

\* The last prompt token yields logits; the session then holds the prompt.
PrefillLast ==
  /\ pc = "prefill"
  /\ fed = Len(tokens) - 1
  /\ InStorage(kv_cache, fed)
  /\ logits' = [ctx |-> ForwardRow(kv_cache, model, tokens[fed + 1], fed), sampled |-> FALSE]
  /\ kv_cache' = Forward(kv_cache, model, tokens[fed + 1], fed)
  /\ fed' = Len(tokens)
  /\ cached_tokens' = tokens
  /\ pc' = "sample"
  /\ UNCHANGED <<model, last_logits, tokens, prefix_len, pos, budget, cut>>

\* A row past the end of the storage: the slice index panics, and the release
\* profile aborts the process.
Panic ==
  /\ pc = "prefill"
  /\ \E p \in fed .. (IF fed < Len(tokens) - 1 /\ Batched THEN ChunkEnd - 1 ELSE fed) :
       ~InStorage(kv_cache, p)
  /\ pc' = "panicked"
  /\ UNCHANGED <<model, sessionVars, tokens, prefix_len, fed, pos, budget, logits, cut>>

\* The sampler draws a token that is kept.  At the capacity of the cache the
\* token is not forwarded any more.
Sample(token) ==
  /\ pc = "sample"
  /\ budget > 0
  /\ logits' = [logits EXCEPT !.sampled = TRUE]
  /\ budget' = budget - 1
  /\ cached_tokens' = Append(cached_tokens, token)
  /\ pc' = IF pos >= MaxLen - 1 THEN "end" ELSE "forward"
  /\ UNCHANGED <<model, kv_cache, last_logits, tokens, prefix_len, fed, pos, cut>>

\* Slip: the token is kept before the check for a stop.
SampleStopKeepsToken ==
  /\ pc = "sample"
  /\ budget > 0
  /\ logits' = [logits EXCEPT !.sampled = TRUE]
  /\ \E token \in Tokens : cached_tokens' = Append(cached_tokens, token)
  /\ pc' = "end"
  /\ UNCHANGED <<model, kv_cache, last_logits, tokens, prefix_len, fed, pos, budget, cut>>

\* The sampler draws a stop token, or one that completes a stop sequence:
\* the token is not kept.
SampleStop ==
  /\ pc = "sample"
  /\ budget > 0
  /\ logits' = [logits EXCEPT !.sampled = TRUE]
  /\ pc' = "end"
  /\ UNCHANGED <<model, sessionVars, tokens, prefix_len, fed, pos, budget, cut>>

ForwardToken ==
  /\ pc = "forward"
  /\ LET token == cached_tokens[Len(cached_tokens)]
     IN  /\ logits' = [ctx |-> ForwardRow(kv_cache, model, token, pos), sampled |-> FALSE]
         /\ kv_cache' = Forward(kv_cache, model, token, pos)
  /\ pos' = pos + 1
  /\ pc' = "sample"
  /\ UNCHANGED <<model, cached_tokens, last_logits, tokens, prefix_len, fed,
                 budget, cut>>

\* Slip: a turn that breaks out of the decode loop saves no logits.
EndTurnForgetsLogits ==
  /\ pc = "end" \/ (pc = "sample" /\ budget = 0)
  /\ last_logits' = IF pc = "end" THEN NoLogits ELSE logits
  /\ pc' = "idle"
  /\ tokens' = <<>>
  /\ logits' = NoLogits
  /\ prefix_len' = 0 /\ fed' = 0 /\ pos' = 0 /\ budget' = 0
  /\ UNCHANGED <<model, kv_cache, cached_tokens, cut>>

\* The turn saves its logits for the next one and releases the session.
EndTurn ==
  /\ pc = "end" \/ (pc = "sample" /\ budget = 0)
  /\ last_logits' = logits
  /\ pc' = "idle"
  /\ tokens' = <<>>
  /\ logits' = NoLogits
  /\ prefix_len' = 0 /\ fed' = 0 /\ pos' = 0 /\ budget' = 0
  /\ UNCHANGED <<model, kv_cache, cached_tokens, cut>>

Next ==
  \/ \E prompt \in Prompts, w \in Windows, n \in 1 .. MaxTokens : BeginTurn(prompt, w, n)
  \/ PrefillBatch \/ PrefillToken \/ PrefillLast \/ Panic
  \/ \E token \in Tokens : Sample(token)
  \/ SampleStop \/ ForwardToken \/ EndTurn

Spec == Init /\ [][Next]_vars
-----------------------------------------------------------------------------
(* Properties. *)

Logits == [ctx : Origins, sampled : BOOLEAN] \cup {NoLogits}

\* Every variable keeps its type.
TypeOK ==
  /\ model \in ModelKinds
  /\ CacheOK(kv_cache) /\ kv_cache.max_len = MaxLen /\ kv_cache.sliding_window \in Windows
  /\ cached_tokens \in Seq(Tokens)
  /\ last_logits \in Logits
  /\ pc \in {"idle", "prefill", "sample", "forward", "end", "panicked"}
  /\ tokens \in Seq(Tokens)
  /\ prefix_len \in Nat /\ fed \in Nat /\ pos \in Nat /\ budget \in Nat
  /\ logits \in Logits
  /\ cut \in BOOLEAN

\* What session.rs says of last_logits ("logits produced by the last forward
\* pass; used as the starting point for the next sampling step") and
\* generate_chat_with_session of reusing them: whatever a turn takes from the
\* session, a token is sampled from the logits of the conversation so far.
SampledFromConversation == pc = "sample" => logits.ctx = cached_tokens

\* The turn samples its first token from saved logits.
FromSavedLogits == prefix_len = Len(tokens) /\ Len(cached_tokens) = Len(tokens)

\* Without a window reuse of the cache is invisible, with one exception: saved
\* logits after a prompt left out tokens the session held may belong to the
\* longer sequence.
ReuseInvisible ==
  pc = "sample" /\ kv_cache.sliding_window = 0 /\ ~(cut /\ FromSavedLogits) =>
    logits.ctx = cached_tokens

\* With a window it is invisible for a model whose layers all keep to the
\* window and are fed token by token, as long as the conversation only grows
\* and the storage is not smaller than both the window and the conversation.
RingReuseInvisible ==
  pc = "sample" /\ kv_cache.sliding_window > 0 /\ model = "standard" /\ ~cut
                /\ (kv_cache.sliding_window <= MaxLen \/ pos <= MaxLen) =>
    logits.ctx = cached_tokens

\* "All tokens currently reflected in kv_cache" (Session::cached_tokens), as
\* far as a later turn relies on it: without a window, every position a later
\* prompt can reuse holds the row of the session's own tokens, however many
\* prompts were cut, extended or replaced before; recurrent state has consumed
\* exactly these tokens, but for one that came at the capacity of the cache.
CacheReflectsTokens ==
  pc = "idle" /\ kv_cache.sliding_window = 0 =>
    /\ \A p \in 0 .. Least(Len(cached_tokens), MaxLen - 1) - 1 :
         kv_cache.rows[p] = Prefix(cached_tokens, p)
    /\ model = "hybrid" =>
                 \/ kv_cache.ssm = cached_tokens
                 \/ /\ Len(cached_tokens) >= MaxLen
                    /\ kv_cache.ssm = Prefix(cached_tokens, Len(cached_tokens) - 2)

\* A session that holds tokens holds logits to go with them, so the branch
\* that forwards the last prompt token a second time is never taken; it would
\* feed the token to the recurrent state twice.
LogitsAccompanyTokens ==
  /\ pc = "idle" /\ cached_tokens # <<>> => last_logits # NoLogits
  /\ pc = "prefill" => fed >= prefix_len

\* Only a prompt longer than a cache without a window leaves the storage: the
\* reset at cache_limit and the break before it keep everything else inside.
PanicOnlyBeyondCapacity ==
  /\ pc = "panicked" => kv_cache.sliding_window = 0 /\ Len(tokens) > MaxLen
  /\ pc = "forward" => InStorage(kv_cache, pos)

\* The ring of a sliding window holds every row a layer still attends to: the
\* comment on forward_prefill_batch ("store->attend must interleave exactly
\* like the sequential path") and the one in new_session_with_options ("a
\* global ring cache would discard keys still required by full layers").
\* MCRingBatched shows the batches; interleaved models break it one by one too.
RingKeepsAttendedRows ==
  pc = "sample" /\ kv_cache.sliding_window > 0 /\ ~cut => logits.ctx = cached_tokens

-----------------------------------------------------------------------------
(* The inductive invariants behind the properties of a cache without a       *)
(* window.                                                                   *)

\* The first n slots hold the rows of seq.
RowsHold(seq, n) == \A p \in 0 .. n - 1 : kv_cache.rows[p] = Prefix(seq, p)

\* The recurrent state has consumed exactly the first n tokens of seq.
Consumed(seq, n) == model = "hybrid" => kv_cache.ssm = SubSeq(seq, 1, n)

\* How far the turn is.
ProgressInv ==
  /\ pc = "idle" => tokens = <<>>
  /\ pc \notin {"idle", "panicked"} => tokens # <<>>
  /\ pc = "prefill" => prefix_len <= fed /\ fed <= Len(tokens) - 1 /\ pos = Len(tokens)
  /\ pc = "sample" => Len(tokens) <= pos /\ Len(cached_tokens) = pos
  /\ pc = "forward" => pos < MaxLen - 1 /\ Len(tokens) <= pos /\ Len(cached_tokens) = pos + 1

\* What the cache holds at each point of a turn.
RowsInv ==
  kv_cache.sliding_window = 0 =>
    /\ pc = "prefill" => RowsHold(tokens, fed) /\ Consumed(tokens, fed)
    /\ pc = "sample" => pos <= MaxLen /\ RowsHold(cached_tokens, pos) /\ Consumed(cached_tokens, pos)
    /\ pc = "forward" => RowsHold(cached_tokens, pos) /\ Consumed(cached_tokens, pos)
    /\ pc \in {"end", "idle"} =>
         /\ RowsHold(cached_tokens, Least(Len(cached_tokens), MaxLen - 1))
         /\ \/ Consumed(cached_tokens, Len(cached_tokens))
            \/ /\ Len(cached_tokens) >= MaxLen /\ cached_tokens # <<>>
               /\ Consumed(cached_tokens, Len(cached_tokens) - 1)

\* Where logits are at hand, and which tokens they were computed from.
LogitsHeldInv ==
  /\ pc = "idle" /\ cached_tokens # <<>> => last_logits # NoLogits
  /\ pc \in {"sample", "forward", "end"} => logits # NoLogits

LogitsInv ==
  kv_cache.sliding_window = 0 /\ ~cut /\ Len(cached_tokens) < MaxLen =>
    /\ pc = "end" => logits.ctx = cached_tokens
    /\ pc = "idle" /\ last_logits # NoLogits => last_logits.ctx = cached_tokens

ShapeInv   == TypeOK /\ ProgressInv /\ LogitsHeldInv
SessionInv == ShapeInv /\ RowsInv /\ LogitsInv /\ ReuseInvisible

-----------------------------------------------------------------------------
(* The inductive invariant behind RingReuseInvisible.  A ring shorter than   *)
(* its window serves conversations up to its own length only.                *)

RingReaches(n) == kv_cache.sliding_window <= MaxLen \/ n <= MaxLen

\* What the ring holds at each point of a turn, and the logits that belong to it.
RingInv ==
  kv_cache.sliding_window > 0 /\ model = "standard" /\ ~cut =>
    /\ pc = "prefill" /\ RingReaches(fed) => RingHolds(kv_cache, tokens, fed)
    /\ pc = "sample" /\ RingReaches(pos) => RingHolds(kv_cache, cached_tokens, pos)
    /\ pc = "forward" => RingHolds(kv_cache, cached_tokens, pos)
    /\ pc \in {"end", "idle"} /\ Len(cached_tokens) < MaxLen =>
         RingHolds(kv_cache, cached_tokens, Len(cached_tokens))
    /\ pc = "end" /\ Len(cached_tokens) < MaxLen => logits.ctx = cached_tokens
    /\ pc = "idle" /\ last_logits # NoLogits /\ Len(cached_tokens) < MaxLen =>
         last_logits.ctx = cached_tokens

RingSessionInv == ShapeInv /\ RingInv /\ RingReuseInvisible
=============================================================================
