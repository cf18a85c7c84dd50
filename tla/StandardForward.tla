--------------------------- MODULE StandardForward --------------------------
(***************************************************************************)
(* The standard (LLaMA-style) decoder of src/src/model.rs: one token at a  *)
(* time with logits (forward_into), one token without them                 *)
(* (forward_hidden_impl, forward_prefill), a chunk of a prompt layer by    *)
(* layer (forward_prefill_batch) and a draft with the logits of every      *)
(* token (forward_verify_batch).  The GPU paths are left out.              *)
(*                                                                         *)
(* A model is [layers, sliding_window, output_f32]; a layer [bias, q_norm, *)
(* k_norm, moe, f32]: what it stores besides its matrices, and the         *)
(* matrices that are not quantised.                                        *)
(***************************************************************************)
EXTENDS ForwardTerms

Layers(model) == DOMAIN model.layers

attention_start_pos(pos, sliding_window) ==
  IF sliding_window > 0 /\ pos + 1 > sliding_window THEN pos + 1 - sliding_window ELSE 0

apply_qk_norm_if_present(layer, l, qk) ==
  [q |-> ApplyIf(layer.q_norm, "attn_q_norm", l, qk.q),
   k |-> ApplyIf(layer.k_norm, "attn_k_norm", l, qk.k)]

add_bias_if_present(layer, name, l, x) == ApplyIf(layer.bias, name, l, x)

apply_model_rope_prepared(pos, qk) == [q |-> rope(pos, qk.q), k |-> rope(pos, qk.k)]

routed_moe_ffn_into(l, xn) == T("experts", l, <<Apply("router", l, xn), xn>>)

DenseFfn(l, xn) == Apply("w2", l, silu_mul(Apply("w1", l, xn), Apply("w3", l, xn)))

-----------------------------------------------------------------------------
(* One token.  s = [x, cache]: the residual stream and the KV cache. *)

\* Attention and the feed-forward block of layer l.
DecodeLayer(model, l, pos, s) ==
  LET layer == model.layers[l]
      xn    == Apply("attn_norm", l, s.x)
      qk    == apply_model_rope_prepared(pos,
                 apply_qk_norm_if_present(layer, l,
                   [q |-> add_bias_if_present(layer, "bq", l, Apply("wq", l, xn)),
                    k |-> add_bias_if_present(layer, "bk", l, Apply("wk", l, xn))]))
      v     == add_bias_if_present(layer, "bv", l, Apply("wv", l, xn))
      cache == write_v(write_k(s.cache, l, pos, qk.k), l, pos, v)
      mixed == attention(cache, l, qk.q, attention_start_pos(pos, model.sliding_window), pos)
      x     == Add(s.x, Apply("wo", l, mixed))
      xn2   == Apply("ffn_norm", l, x)
  IN  [x |-> Add(x, IF layer.moe THEN routed_moe_ffn_into(l, xn2) ELSE DenseFfn(l, xn2)),
       cache |-> cache]

DecodeLayers(model, token, pos, cache) ==
  LET after[l \in 0 .. Len(model.layers)] ==
        IF l = 0 THEN [x |-> row_into(token), cache |-> cache]
        ELSE DecodeLayer(model, l, pos, after[l - 1])
  IN  after[Len(model.layers)]

forward_into(model, token, pos, cache) ==
  LET s == DecodeLayers(model, token, pos, cache)
  IN  [cache |-> s.cache, logits |-> Apply("output", 0, Apply("output_norm", 0, s.x)), x |-> s.x]

\* The hidden state with the final norm for embeddings, without for prefill.
forward_hidden_impl(model, token, pos, cache, final_norm) ==
  LET s == DecodeLayers(model, token, pos, cache)
  IN  [cache |-> s.cache, hidden |-> ApplyIf(final_norm, "output_norm", 0, s.x)]
forward_hidden(model, token, pos, cache) == forward_hidden_impl(model, token, pos, cache, TRUE)
forward_prefill(model, token, pos, cache) == forward_hidden_impl(model, token, pos, cache, FALSE)

-----------------------------------------------------------------------------
(* A batch of b tokens; xs[t] is the residual row of token t. *)

Matrices == {"wq", "wk", "wv", "wo", "w1", "w3", "w2"}

\* Slip: layers with per-head norms are taken into the batch too.
standard_prefill_batchable_ignoring_norms(model) ==
  \A l \in Layers(model) : ~model.layers[l].moe /\ Matrices \cap model.layers[l].f32 = {}

standard_prefill_batchable(model) ==
  \A l \in Layers(model) :
    /\ ~model.layers[l].moe
    /\ ~model.layers[l].q_norm
    /\ ~model.layers[l].k_norm
    /\ Matrices \cap model.layers[l].f32 = {}

standard_verify_batchable(model) == standard_prefill_batchable(model) /\ ~model.output_f32

\* Bias, rotation and the rows of token t, from its normed row.
BatchQuery(model, l, xn, pos) ==
  rope(pos, add_bias_if_present(model.layers[l], "bq", l, Apply("wq", l, xn)))
BatchStore(model, l, xn, pos, cache) ==
  write_v(write_k(cache, l, pos,
                  rope(pos, add_bias_if_present(model.layers[l], "bk", l, Apply("wk", l, xn)))),
          l, pos, add_bias_if_present(model.layers[l], "bv", l, Apply("wv", l, xn)))

\* All rows are stored before any token attends when the batch fits the
\* storage; else each token stores, then attends.
BatchAttention(model, l, xns, start_pos, cache) ==
  LET b     == Len(xns)
      safe  == b <= cache.storage_len
      stored[t \in 0 .. b] ==
        IF t = 0 THEN cache ELSE BatchStore(model, l, xns[t], start_pos + t - 1, stored[t - 1])
      seen(t) == IF safe THEN stored[b] ELSE stored[t]
  IN  [cache |-> stored[b],
       out   |-> [t \in 1 .. b |->
                   LET pos == start_pos + t - 1
                   IN  attention(seen(t), l, BatchQuery(model, l, xns[t], pos),
                                 attention_start_pos(pos, model.sliding_window), pos)]]

BatchLayer(model, l, start_pos, s) ==
  LET mixed == BatchAttention(model, l, [t \in DOMAIN s.xs |-> Apply("attn_norm", l, s.xs[t])],
                              start_pos, s.cache)
      xs    == [t \in DOMAIN s.xs |-> Add(s.xs[t], Apply("wo", l, mixed.out[t]))]
  IN  [xs |-> [t \in DOMAIN xs |-> Add(xs[t], DenseFfn(l, Apply("ffn_norm", l, xs[t])))],
       cache |-> mixed.cache]

\* The cache and the residual rows after the chunk.
forward_prefill_batch(model, tokens, start_pos, cache) ==
  LET after[l \in 0 .. Len(model.layers)] ==
        IF l = 0 THEN [xs |-> [t \in DOMAIN tokens |-> row_into(tokens[t])], cache |-> cache]
        ELSE BatchLayer(model, l, start_pos, after[l - 1])
  IN  after[Len(model.layers)]

\* The hidden rows are those before the final norm.
finish_verify_batch(s) ==
  [cache |-> s.cache, hidden |-> s.xs,
   logits |-> [t \in DOMAIN s.xs |-> Apply("output", 0, Apply("output_norm", 0, s.xs[t]))]]

forward_verify_batch(model, tokens, start_pos, cache) ==
  finish_verify_batch(forward_prefill_batch(model, tokens, start_pos, cache))
=============================================================================
