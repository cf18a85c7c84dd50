--------------------------- MODULE WindowedForward --------------------------
(***************************************************************************)
(* The decoders of src/src/model.rs whose layers alternate between the     *)
(* sliding window and the whole context: GPT-OSS, Laguna and Gemma 4.  The *)
(* code of GPT-OSS and Gemma 4 exists twice, once with logits and once     *)
(* without; Laguna's takes an optional buffer for them.                    *)
(*                                                                         *)
(* A model is [layers, sliding_window, ple, softcap]; a layer              *)
(* [swa, shares, has_v, sparse, ple, scaled]: whether it attends only the  *)
(* window, the layer whose rows it reads (0: its own), whether it has a    *)
(* value projection, routed experts, per-layer inputs and an output scale. *)
(***************************************************************************)
EXTENDS ForwardTerms

attention_start_pos(pos, sliding_window) ==
  IF sliding_window > 0 /\ pos + 1 > sliding_window THEN pos + 1 - sliding_window ELSE 0

First(windowed, model, pos) == IF windowed THEN attention_start_pos(pos, model.sliding_window) ELSE 0

\* The layers of a model in order, from the embedding.
AllLayers(model, x, cache, Layer(_, _, _)) ==
  LET after[l \in 0 .. Len(model.layers)] ==
        IF l = 0 THEN [x |-> x, cache |-> cache]
        ELSE Layer(l, after[l - 1].x, after[l - 1].cache)
  IN  after[Len(model.layers)]

-----------------------------------------------------------------------------
(* GPT-OSS: biases everywhere, attention sinks, every layer routed. *)

Biased(weight, bias, l, x) == Apply(bias, l, Apply(weight, l, x))

\* One routed expert adds its biased output times its probability.
gpt_oss_experts(l, xn2) ==
  LET scores == Biased("gate_inp", "gate_inp_bias", l, xn2)
      gated  == T("swiglu", 0, <<Biased("gate_exps", "gate_exps_bias", l, xn2),
                                Biased("up_exps", "up_exps_bias", l, xn2)>>)
  IN  T("routed", l, <<scores, Biased("down_exps", "down_exps_bias", l, gated)>>)

GptOssLayer(model, pos, l, x, cache) ==
  LET xn     == Apply("attn_norm", l, x)
      stored == write_v(write_k(cache, l, pos, rope(pos, Biased("wk", "bk", l, xn))),
                        l, pos, Biased("wv", "bv", l, xn))
      \* Even layers, counted from zero, are windowed.
      first  == First((l - 1) % 2 = 0, model, pos)
      mixed  == Apply("sinks", l, attention(stored, l, rope(pos, Biased("wq", "bq", l, xn)), first, pos))
      x2     == Add(x, Biased("wo", "bo", l, mixed))
  IN  [x |-> Add(x2, gpt_oss_experts(l, Apply("post_attn_norm", l, x2))), cache |-> stored]

forward_gpt_oss_into(model, token, pos, cache) ==
  LET s == AllLayers(model, row_into(token), cache, LAMBDA l, x, c : GptOssLayer(model, pos, l, x, c))
  IN  [cache |-> s.cache, logits |-> Apply("output", 0, Apply("output_norm", 0, s.x))]
forward_hidden_gpt_oss_impl(model, token, pos, cache, final_norm) ==
  LET s == AllLayers(model, row_into(token), cache, LAMBDA l, x, c : GptOssLayer(model, pos, l, x, c))
  IN  [cache |-> s.cache, hidden |-> ApplyIf(final_norm, "output_norm", 0, s.x)]

-----------------------------------------------------------------------------
(* Laguna: gated attention, a dense or a routed feed-forward block. *)

LagunaDense(l, xn2) == Apply("down", l, silu_mul(Apply("gate", l, xn2), Apply("up", l, xn2)))

\* The shared expert first; the routed ones are added to it.
LagunaSparse(l, xn2) ==
  Add(Apply("shared_down", l, silu_mul(Apply("shared_gate", l, xn2), Apply("shared_up", l, xn2))),
      T("routed", l, <<Apply("router", l, xn2),
                       Apply("down_experts", l, silu_mul(Apply("gate_experts", l, xn2),
                                                         Apply("up_experts", l, xn2)))>>))

LagunaLayer(model, pos, l, x, cache) ==
  LET layer  == model.layers[l]
      xn     == Apply("attn_norm", l, x)
      stored == write_v(write_k(cache, l, pos, rope(pos, Apply("k_norm", l, Apply("wk", l, xn)))),
                        l, pos, Apply("wv", l, xn))
      q      == rope(pos, Apply("q_norm", l, Apply("wq", l, xn)))
      mixed  == T("softplus_mul", 0, <<attention(stored, l, q, First(layer.swa, model, pos), pos),
                                       Apply("attn_gate", l, xn)>>)
      x2     == Add(x, Apply("wo", l, mixed))
      xn2    == Apply("ffn_norm", l, x2)
  IN  [x |-> Add(x2, IF layer.sparse THEN LagunaSparse(l, xn2) ELSE LagunaDense(l, xn2)),
       cache |-> stored]

\* The normed residual stream is left in the buffer; logits are optional.
forward_laguna_impl(model, token, pos, cache) ==
  LET s == AllLayers(model, row_into(token), cache, LAMBDA l, x, c : LagunaLayer(model, pos, l, x, c))
      xn == Apply("output_norm", 0, s.x)
  IN  [cache |-> s.cache, hidden |-> xn, logits |-> Apply("output", 0, xn)]

-----------------------------------------------------------------------------
(* Gemma 4: layers may read another layer's rows, use their keys as        *)
(* values, and add an input of their own for the token.                    *)

\* The part of the per-layer inputs that layer l adds.
prepare_gemma4_per_layer_inputs(l, token, x) ==
  Add(Atom("per_layer_token_embd", token), Apply("per_layer_proj_norm", l, Apply("per_layer_model_proj", 0, x)))

apply_gemma4_per_layer_residual(l, input, x) ==
  Add(x, Apply("per_layer_post_norm", l,
           Apply("per_layer_proj", l, T("gelu_mul", 0, <<Apply("per_layer_inp_gate", l, x), input>>))))

kv_cache_layer(layer, l) == IF layer.shares # 0 THEN layer.shares ELSE l

\* A layer that shares stores nothing; one without a value projection stores
\* its key projection, differently normed, as value.
Gemma4Store(layer, l, pos, xn, cache) ==
  IF layer.shares # 0 THEN cache
  ELSE LET k == Apply("attn_k", l, xn)
           v == IF layer.has_v THEN Apply("attn_v", l, xn) ELSE k
       IN  write_v(write_k(cache, l, pos, rope(pos, Apply("attn_k_norm", l, k))), l, pos, Apply("unit_norm", 0, v))

Gemma4Layer(model, pos, inputs, l, x, cache) ==
  LET layer  == model.layers[l]
      xn     == Apply("attn_norm", l, x)
      stored == Gemma4Store(layer, l, pos, xn, cache)
      q      == rope(pos, Apply("attn_q_norm", l, Apply("attn_q", l, xn)))
      mixed  == attention(stored, kv_cache_layer(layer, l), q, First(layer.swa, model, pos), pos)
      x2     == Add(x, Apply("post_attn_norm", l, Apply("attn_output", l, mixed)))
      xn2    == Apply("ffn_norm", l, x2)
      ffn    == Apply("ffn_down", l, T("gelu_mul", 0, <<Apply("ffn_gate", l, xn2), Apply("ffn_up", l, xn2)>>))
      x3     == Add(x2, Apply("post_ffw_norm", l, ffn))
      x4     == IF model.ple /\ layer.ple THEN apply_gemma4_per_layer_residual(l, inputs[l], x3) ELSE x3
  IN  [x |-> ApplyIf(layer.scaled, "layer_output_scale", l, x4), cache |-> stored]

Gemma4Layers(model, token, pos, cache) ==
  LET x      == Apply("emb_scale", 0, row_into(token))
      inputs == [l \in DOMAIN model.layers |-> prepare_gemma4_per_layer_inputs(l, token, x)]
  IN  AllLayers(model, x, cache, LAMBDA l, y, c : Gemma4Layer(model, pos, inputs, l, y, c))

forward_gemma4_into(model, token, pos, cache) ==
  LET s == Gemma4Layers(model, token, pos, cache)
  IN  [cache |-> s.cache,
       logits |-> ApplyIf(model.softcap, "tanh_cap", 0, Apply("output", 0, Apply("output_norm", 0, s.x)))]
forward_hidden_gemma4_impl(model, token, pos, cache, final_norm) ==
  LET s == Gemma4Layers(model, token, pos, cache)
  IN  [cache |-> s.cache, hidden |-> ApplyIf(final_norm, "output_norm", 0, s.x)]
=============================================================================
