---------------------------- MODULE ForwardPaths ----------------------------
(***************************************************************************)
(* How src/src/runtime.rs drives the forward passes: a prompt in chunks,   *)
(* batched where the model allows it, its last token for the logits; and a *)
(* draft verified in one batch.  A model is a record whose `arch` says     *)
(* which decoder it is for; its other fields are those of the decoders.    *)
(***************************************************************************)
EXTENDS Integers, Sequences

Standard == INSTANCE StandardForward
Hybrid   == INSTANCE HybridForward
Windowed == INSTANCE WindowedForward

\* A step with logits: [cache, logits] and, where the code keeps it, x.
forward_token_into(model, token, pos, cache) ==
  CASE model.arch = "standard"   -> Standard!forward_into(model, token, pos, cache)
    [] model.arch = "qwen35"     -> Hybrid!forward_qwen35_impl(model, token, pos, cache)
    [] model.arch = "nemotron_h" -> Hybrid!forward_nemotron_h_impl(model, token, pos, cache)
    [] model.arch = "gpt-oss"    -> Windowed!forward_gpt_oss_into(model, token, pos, cache)
    [] model.arch = "laguna"     -> Windowed!forward_laguna_impl(model, token, pos, cache)
    [] model.arch = "gemma4"     -> Windowed!forward_gemma4_into(model, token, pos, cache)

\* A step for the cache alone.
forward_prefill_token(model, token, pos, cache) ==
  CASE model.arch = "standard"   -> Standard!forward_prefill(model, token, pos, cache).cache
    [] model.arch = "qwen35"     -> Hybrid!forward_qwen35_impl(model, token, pos, cache).cache
    [] model.arch = "nemotron_h" -> Hybrid!forward_nemotron_h_impl(model, token, pos, cache).cache
    [] model.arch = "gpt-oss"    -> Windowed!forward_hidden_gpt_oss_impl(model, token, pos, cache, FALSE).cache
    [] model.arch = "laguna"     -> Windowed!forward_laguna_impl(model, token, pos, cache).cache
    [] model.arch = "gemma4"     -> Windowed!forward_hidden_gemma4_impl(model, token, pos, cache, FALSE).cache

\* The final normed residual stream, for embeddings.
forward_hidden_token(model, token, pos, cache) ==
  CASE model.arch = "standard"   -> Standard!forward_hidden(model, token, pos, cache).hidden
    [] model.arch \in {"qwen35", "nemotron_h"} ->
         Standard!Apply("output_norm", 0, forward_token_into(model, token, pos, cache).x)
    [] model.arch = "gpt-oss"    -> Windowed!forward_hidden_gpt_oss_impl(model, token, pos, cache, TRUE).hidden
    [] model.arch = "laguna"     -> Windowed!forward_laguna_impl(model, token, pos, cache).hidden
    [] model.arch = "gemma4"     -> Windowed!forward_hidden_gemma4_impl(model, token, pos, cache, TRUE).hidden

Batchable(model) ==
  CASE model.arch = "standard" -> Standard!standard_prefill_batchable(model)
    [] model.arch = "qwen35"   -> Hybrid!qwen35_prefill_batchable(model)
    [] OTHER                   -> FALSE

forward_prefill_batch(model, chunk, pos, cache) ==
  IF model.arch = "standard" THEN Standard!forward_prefill_batch(model, chunk, pos, cache).cache
  ELSE Hybrid!forward_prefill_batch_qwen35(model, chunk, pos, cache).cache

\* The tokens one after the other.
PrefillEach(model, tokens, start_pos, cache) ==
  LET after[i \in 0 .. Len(tokens)] ==
        IF i = 0 THEN cache ELSE forward_prefill_token(model, tokens[i], start_pos + i - 1, after[i - 1])
  IN  after[Len(tokens)]

\* A chunk of the prompt, in one batch if there is one.
PrefillChunk(model, batched, chunk, pos, cache) ==
  IF batched /\ Len(chunk) > 1 THEN forward_prefill_batch(model, chunk, pos, cache)
  ELSE PrefillEach(model, chunk, pos, cache)

\* Every token but the last is in a chunk of `ubatch`, or in the rest: the
\* number of chunks, and how many tokens the first c hold.
Chunks(tokens, ubatch) == (Len(tokens) - 1 + ubatch - 1) \div ubatch
ChunkEnd(tokens, ubatch, c) == IF c * ubatch < Len(tokens) - 1 THEN c * ubatch ELSE Len(tokens) - 1
Chunk(tokens, ubatch, c) ==
  SubSeq(tokens, ChunkEnd(tokens, ubatch, c - 1) + 1, ChunkEnd(tokens, ubatch, c))

\* The chunks, then the last token with logits.
prefill_prompt_tokens(model, tokens, start_pos, ubatch, cache) ==
  LET last     == Len(tokens)
      after[c \in 0 .. Chunks(tokens, ubatch)] ==
        IF c = 0 THEN cache
        ELSE PrefillChunk(model, last > 2 /\ Batchable(model), Chunk(tokens, ubatch, c),
                          start_pos + ChunkEnd(tokens, ubatch, c - 1), after[c - 1])
  IN  forward_token_into(model, tokens[last], start_pos + last - 1, after[Chunks(tokens, ubatch)])

\* The batch that verifies a draft, where there is one: [cache, hidden, logits].
Verifiable(model) ==
  CASE model.arch = "standard"   -> Standard!standard_verify_batchable(model)
    [] model.arch = "qwen35"     -> Hybrid!qwen35_verify_batchable(model)
    [] model.arch = "nemotron_h" -> Hybrid!nemotron_h_verify_batchable(model)
    [] OTHER                     -> FALSE

forward_verify_draft_batch(model, draft, start_pos, cache) ==
  CASE model.arch = "standard"   -> Standard!forward_verify_batch(model, draft, start_pos, cache)
    [] model.arch = "qwen35"     -> Hybrid!forward_verify_batch_qwen35(model, draft, start_pos, cache)
    [] model.arch = "nemotron_h" -> Hybrid!forward_verify_batch_nemotron_h(model, draft, start_pos, cache)

\* The native draft after the token `first` was chosen, from the residual row
\* the last step or the last verified batch left.
native_qwen_mtp(first, x) == Hybrid!forward_qwen35_mtp_into(first, x).logits
=============================================================================
