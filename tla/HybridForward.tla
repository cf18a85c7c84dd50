---------------------------- MODULE HybridForward ---------------------------
(***************************************************************************)
(* The decoders of src/src/model.rs whose layers mix attention with a      *)
(* recurrence: Qwen3.5 (gated DeltaNet) and Nemotron-H (Mamba-2, experts). *)
(* Each as one token at a time and as a batch that projects all tokens at  *)
(* once and advances the recurrent state in token order.                   *)
(*                                                                         *)
(* A model is [layers, output_f32, mtp]; a layer [kind, norms, biases,     *)
(* f32].  A cache also holds, for the n-th recurrent layer, conv[n], the   *)
(* last inputs of the convolution, and ssm[n], the recurrent state.        *)
(***************************************************************************)
EXTENDS ForwardTerms, FiniteSets

Layers(model) == DOMAIN model.layers
Count(model, kinds, l) == Cardinality({i \in 1 .. l : model.layers[i].kind \in kinds})

\* Where the rows of an attention layer and the state of a recurrent layer are.
kv_slot(model, l)         == Count(model, {"attention"}, l)
recurrent_index(model, l) == Count(model, {"linear", "mamba2"}, l)

\* The shift register of the convolution, oldest first.
Shift(history, current) == IF history = <<>> THEN <<>> ELSE Append(Tail(history), current)

\* A recurrent step on the projected input: the convolution over the history
\* and the input, and the state after it.
Recur(l, n, cache, projected, coefficients) ==
  LET activated == T("conv_silu", l, cache.conv[n] \o <<projected>>)
      of        == <<cache.ssm[n], activated>> \o coefficients
  IN  [cache |-> [cache EXCEPT !.conv[n] = Shift(@, projected), !.ssm[n] = T("state", l, of)],
       y     |-> T("read", l, of)]

-----------------------------------------------------------------------------
(* Qwen3.5.  s = [x, cache]; mixers return [proj, cache]. *)

qwen35_split_q_gate(l, joint) == [q |-> T("q_half", l, <<joint>>), gate |-> T("gate_half", l, <<joint>>)]

\* The value of one head, from DeltaNet's read: norm, then gate.
qwen35_gated(l, gate, y) == silu_mul(gate, Apply("norm", l, y))

qwen35_linear_step(model, l, xn, cache) ==
  LET n    == recurrent_index(model, l)
      step == Recur(l, n, cache, Apply("qkv", l, xn), <<Apply("alpha", l, xn), Apply("beta", l, xn)>>)
  IN  [cache |-> step.cache, proj |-> Apply("out", l, qwen35_gated(l, Apply("gate", l, xn), step.y))]

qwen35_attention_step(model, l, pos, xn, cache) ==
  LET layer  == model.layers[l]
      joint  == qwen35_split_q_gate(l, Apply("q_gate", l, xn))
      q      == rope(pos, ApplyIf(layer.norms, "q_norm", l, joint.q))
      k      == rope(pos, ApplyIf(layer.norms, "k_norm", l, Apply("k", l, xn)))
      slot   == kv_slot(model, l)
      stored == write_v(write_k(cache, slot, pos, k), slot, pos, Apply("v", l, xn))
  IN  [cache |-> stored,
       proj  |-> Apply("out", l, T("sigmoid_mul", 0, <<attention(stored, slot, q, 0, pos), joint.gate>>))]

Qwen35Ffn(l, x) ==
  LET xn2 == Apply("post_attn_norm", l, x)
  IN  Add(x, Apply("ffn_down", l, silu_mul(Apply("ffn_gate", l, xn2), Apply("ffn_up", l, xn2))))

Qwen35Layer(model, l, pos, s) ==
  LET xn    == Apply("attn_norm", l, s.x)
      mixed == IF model.layers[l].kind = "linear" THEN qwen35_linear_step(model, l, xn, s.cache)
               ELSE qwen35_attention_step(model, l, pos, xn, s.cache)
  IN  [x |-> Qwen35Ffn(l, Add(s.x, mixed.proj)), cache |-> mixed.cache]

\* x is left in the buffer for the draft head; without logits nothing else
\* differs.
forward_qwen35_impl(model, token, pos, cache) ==
  LET after[l \in 0 .. Len(model.layers)] ==
        IF l = 0 THEN [x |-> row_into(token), cache |-> cache]
        ELSE Qwen35Layer(model, l, pos, after[l - 1])
      s == after[Len(model.layers)]
  IN  [cache |-> s.cache, x |-> s.x, logits |-> Apply("output", 0, Apply("output_norm", 0, s.x))]

\* The draft head: one position, whose attention is its own value row.
forward_qwen35_mtp_into(token, trunk_hidden) ==
  LET x     == Apply("eh_proj", 0, T("concat", 0, <<Apply("embedding_norm", 0, row_into(token)),
                                                   Apply("hidden_norm", 0, trunk_hidden)>>))
      xn    == Apply("attn_norm", 0, x)
      gate  == qwen35_split_q_gate(0, Apply("q_gate", 0, xn)).gate
      mixed == Add(x, Apply("out", 0, T("sigmoid_mul", 0, <<Apply("v", 0, xn), gate>>)))
      next  == Qwen35Ffn(0, mixed)
  IN  [hidden |-> next, logits |-> Apply("mtp_output", 0, Apply("head_norm", 0, next))]

Qwen35Matrices(layer) ==
  {"ffn_gate", "ffn_up", "ffn_down", "out"} \cup
  (IF layer.kind = "linear" THEN {"qkv", "gate", "alpha", "beta"} ELSE {"q_gate", "k", "v"})

qwen35_prefill_batchable(model) ==
  \A l \in Layers(model) : Qwen35Matrices(model.layers[l]) \cap model.layers[l].f32 = {}
qwen35_verify_batchable(model) == qwen35_prefill_batchable(model) /\ ~model.output_f32

\* Step(t, cache), which gives [cache, y], for b tokens in order: the last
\* cache and the y of every token.
InTokenOrder(b, cache, Step(_, _)) ==
  LET after[t \in 0 .. b] == IF t = 0 THEN [cache |-> cache] ELSE Step(t, after[t - 1].cache)
  IN  [cache |-> after[b].cache, ys |-> [t \in 1 .. b |-> after[t].y]]

\* A matrix applied to the rows of all tokens at once.
Rows(name, l, xs) == [t \in DOMAIN xs |-> Apply(name, l, xs[t])]

\* The rows are projected together; the convolution and the state follow the
\* tokens.
Qwen35BatchLinear(model, l, xns, cache) ==
  LET qkv    == Rows("qkv", l, xns)
      gate   == Rows("gate", l, xns)
      alpha  == Rows("alpha", l, xns)
      beta   == Rows("beta", l, xns)
      mixed  == InTokenOrder(Len(xns), cache,
                  LAMBDA t, c : Recur(l, recurrent_index(model, l), c, qkv[t], <<alpha[t], beta[t]>>))
      hidden == [t \in DOMAIN xns |-> silu_mul(gate[t], Apply("norm", l, mixed.ys[t]))]
  IN  [cache |-> mixed.cache, projs |-> Rows("out", l, hidden)]

\* Each token stores its rows before it attends, and before the next token.
Qwen35BatchAttention(model, l, start_pos, xns, cache) ==
  LET joint == Rows("q_gate", l, xns)
      ks    == Rows("k", l, xns)
      vs    == Rows("v", l, xns)
      slot  == kv_slot(model, l)
      normed(name, x) == ApplyIf(model.layers[l].norms, name, l, x)
      step(t, c) ==
        LET pos    == start_pos + t - 1
            stored == write_v(write_k(c, slot, pos, rope(pos, normed("k_norm", ks[t]))), slot, pos, vs[t])
            q      == rope(pos, normed("q_norm", T("q_half", l, <<joint[t]>>)))
        IN  [cache |-> stored,
             y |-> T("sigmoid_mul", 0, <<attention(stored, slot, q, 0, pos), T("gate_half", l, <<joint[t]>>)>>)]
      mixed == InTokenOrder(Len(xns), cache, step)
  IN  [cache |-> mixed.cache, projs |-> Rows("out", l, mixed.ys)]

Qwen35BatchLayer(model, l, start_pos, s) ==
  LET xns   == Rows("attn_norm", l, s.xs)
      mixed == IF model.layers[l].kind = "linear" THEN Qwen35BatchLinear(model, l, xns, s.cache)
               ELSE Qwen35BatchAttention(model, l, start_pos, xns, s.cache)
      xs    == [t \in DOMAIN xns |-> Add(s.xs[t], mixed.projs[t])]
      xn2s  == Rows("post_attn_norm", l, xs)
      gates == Rows("ffn_gate", l, xn2s)
      ups   == Rows("ffn_up", l, xn2s)
      downs == Rows("ffn_down", l, [t \in DOMAIN xns |-> silu_mul(gates[t], ups[t])])
  IN  [xs |-> [t \in DOMAIN xns |-> Add(xs[t], downs[t])], cache |-> mixed.cache]

forward_prefill_batch_qwen35(model, tokens, start_pos, cache) ==
  LET after[l \in 0 .. Len(model.layers)] ==
        IF l = 0 THEN [xs |-> [t \in DOMAIN tokens |-> row_into(tokens[t])], cache |-> cache]
        ELSE Qwen35BatchLayer(model, l, start_pos, after[l - 1])
  IN  after[Len(model.layers)]

\* The hidden rows are those before the final norm, as the draft head wants.
finish_verify_batch(s) ==
  [cache |-> s.cache, hidden |-> s.xs,
   logits |-> [t \in DOMAIN s.xs |-> Apply("output", 0, Apply("output_norm", 0, s.xs[t]))]]

forward_verify_batch_qwen35(model, tokens, start_pos, cache) ==
  finish_verify_batch(forward_prefill_batch_qwen35(model, tokens, start_pos, cache))

-----------------------------------------------------------------------------
(* Nemotron-H: each layer is one mixer. *)

relu2(x) == T("relu2", 0, <<x>>)
add_bias_if_present(layer, name, l, x) == ApplyIf(layer.biases, name, l, x)

\* The projection splits into gate, convolution input and step sizes.
nemotron_mamba2_core(model, l, projected, cache) ==
  LET n    == recurrent_index(model, l)
      step == Recur(l, n, cache, T("xbc", l, <<projected>>), <<T("dt", l, <<projected>>)>>)
  IN  [cache |-> step.cache,
       y     |-> Apply("norm", l, silu_mul(T("z", l, <<projected>>), step.y))]

nemotron_mamba2_step(model, l, xn, cache) ==
  LET core == nemotron_mamba2_core(model, l, Apply("in_proj", l, xn), cache)
  IN  [cache |-> core.cache, proj |-> Apply("out_proj", l, core.y)]

\* The routed experts, chosen by the router's scores, beside the shared one.
nemotron_moe_ffn_into(l, xn) ==
  Add(Apply("shared_down", l, relu2(Apply("shared_up", l, xn))),
      T("routed", l, <<Apply("router", l, xn), xn>>))

\* No position is encoded.
NemotronAttention(model, l, pos, xn, cache) ==
  LET slot   == kv_slot(model, l)
      stored == write_v(write_k(cache, slot, pos, Apply("wk", l, xn)), slot, pos, Apply("wv", l, xn))
      mixed  == attention(stored, slot, Apply("wq", l, xn), 0, pos)
  IN  [cache |-> stored, proj |-> add_bias_if_present(model.layers[l], "bo", l, Apply("wo", l, mixed))]

NemotronDense(model, l, xn) ==
  LET up == relu2(add_bias_if_present(model.layers[l], "up_bias", l, Apply("up", l, xn)))
  IN  add_bias_if_present(model.layers[l], "down_bias", l, Apply("down", l, up))

NemotronMixer(model, l, pos, xn, cache) ==
  LET kind == model.layers[l].kind
  IN  CASE kind = "mamba2"    -> nemotron_mamba2_step(model, l, xn, cache)
        [] kind = "attention" -> NemotronAttention(model, l, pos, xn, cache)
        [] kind = "experts"   -> [cache |-> cache, proj |-> nemotron_moe_ffn_into(l, xn)]
        [] kind = "dense"     -> [cache |-> cache, proj |-> NemotronDense(model, l, xn)]

NemotronLayer(model, l, pos, s) ==
  LET mixed == NemotronMixer(model, l, pos, Apply("attn_norm", l, s.x), s.cache)
  IN  [x |-> Add(s.x, mixed.proj), cache |-> mixed.cache]

forward_nemotron_h_impl(model, token, pos, cache) ==
  LET after[l \in 0 .. Len(model.layers)] ==
        IF l = 0 THEN [x |-> row_into(token), cache |-> cache]
        ELSE NemotronLayer(model, l, pos, after[l - 1])
      s == after[Len(model.layers)]
  IN  [cache |-> s.cache, x |-> s.x, logits |-> Apply("output", 0, Apply("output_norm", 0, s.x))]

NemotronMatrices(layer) ==
  CASE layer.kind = "mamba2"    -> {"in_proj", "out_proj"}
    [] layer.kind = "attention" -> {"wq", "wk", "wv", "wo"}
    [] layer.kind = "experts"   -> {}
    [] layer.kind = "dense"     -> {"up", "down"}

nemotron_h_verify_batchable(model) ==
  /\ ~model.output_f32
  /\ \A l \in Layers(model) : NemotronMatrices(model.layers[l]) \cap model.layers[l].f32 = {}

NemotronBatchMamba2(model, l, xns, cache) ==
  LET projected == Rows("in_proj", l, xns)
      mixed     == InTokenOrder(Len(xns), cache, LAMBDA t, c : nemotron_mamba2_core(model, l, projected[t], c))
  IN  [cache |-> mixed.cache, projs |-> Rows("out_proj", l, mixed.ys)]

NemotronBatchAttention(model, l, start_pos, xns, cache) ==
  LET qs == Rows("wq", l, xns)
      ks == Rows("wk", l, xns)
      vs == Rows("wv", l, xns)
      slot == kv_slot(model, l)
      step(t, c) ==
        LET pos    == start_pos + t - 1
            stored == write_v(write_k(c, slot, pos, ks[t]), slot, pos, vs[t])
        IN  [cache |-> stored, y |-> attention(stored, slot, qs[t], 0, pos)]
      mixed == InTokenOrder(Len(xns), cache, step)
      wos   == Rows("wo", l, mixed.ys)
  IN  [cache |-> mixed.cache,
       projs |-> [t \in DOMAIN xns |-> add_bias_if_present(model.layers[l], "bo", l, wos[t])]]

NemotronBatchDense(model, l, xns) ==
  LET ups   == Rows("up", l, xns)
      downs == Rows("down", l, [t \in DOMAIN xns |->
                 relu2(add_bias_if_present(model.layers[l], "up_bias", l, ups[t]))])
  IN  [t \in DOMAIN xns |-> add_bias_if_present(model.layers[l], "down_bias", l, downs[t])]

\* Experts stay token by token, in a scratch buffer.
NemotronBatchMixer(model, l, start_pos, xns, cache) ==
  LET kind == model.layers[l].kind
  IN  CASE kind = "mamba2"    -> NemotronBatchMamba2(model, l, xns, cache)
        [] kind = "attention" -> NemotronBatchAttention(model, l, start_pos, xns, cache)
        [] kind = "experts"   -> [cache |-> cache,
                                  projs |-> [t \in DOMAIN xns |-> nemotron_moe_ffn_into(l, xns[t])]]
        [] kind = "dense"     -> [cache |-> cache, projs |-> NemotronBatchDense(model, l, xns)]

NemotronBatchLayer(model, l, start_pos, s) ==
  LET mixed == NemotronBatchMixer(model, l, start_pos, Rows("attn_norm", l, s.xs), s.cache)
  IN  [xs |-> [t \in DOMAIN s.xs |-> Add(s.xs[t], mixed.projs[t])], cache |-> mixed.cache]

forward_verify_batch_nemotron_h(model, tokens, start_pos, cache) ==
  LET after[l \in 0 .. Len(model.layers)] ==
        IF l = 0 THEN [xs |-> [t \in DOMAIN tokens |-> row_into(tokens[t])], cache |-> cache]
        ELSE NemotronBatchLayer(model, l, start_pos, after[l - 1])
  IN  finish_verify_batch(after[Len(model.layers)])
=============================================================================
