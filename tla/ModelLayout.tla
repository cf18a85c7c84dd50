----------------------------- MODULE ModelLayout ----------------------------
(***************************************************************************)
(* What a model file must hold: the compatibility report (runtime.rs) that *)
(* decides whether a file can be loaded, and the loaders (model.rs), which *)
(* panic on a tensor they miss or cannot use.                              *)
(*                                                                         *)
(* A file is its architecture family, its tensors as a function from       *)
(* <<layer, name>> (layer Top for the global ones) to the tensor's state,  *)
(* the kind of each trunk layer its metadata declares, and the metadata    *)
(* faults it has.  A tensor is "ok"; has a row too "few" or too "many"; is *)
(* "flat" (fewer dimensions than needed); is "cut" by the end of the file; *)
(* or its "type" is not supported.  Matrices are quantised, vectors f32.   *)
(***************************************************************************)
EXTENDS Integers, Sequences

Top == 0
TopNames(names)      == {<<Top, n>> : n \in names}
LayerNames(l, names) == {<<l, n>> : n \in names}
Layers(f)            == DOMAIN f.kinds

has(f, l, name)      == <<l, name>> \in DOMAIN f.tensors
State(f, l, name)    == IF has(f, l, name) THEN f.tensors[<<l, name>>] ELSE "missing"
HasAll(f, l, names)  == \A n \in names : has(f, l, n)

(***************************************************************************)
(* The report                                                              *)
(***************************************************************************)
\* Rows are counted in the second dimension, elements in all of them; a
\* tensor that is not there is reported as missing, not as short.
OneRowShort(f, l, name) == State(f, l, name) # "flat"   \* mutant: an off-by-one
validate_row_count(f, l, name) == State(f, l, name) \notin {"few", "flat"}
validate_element_count(f, l, name) == State(f, l, name) # "few"

StandardLayout(f) ==
  /\ "dims" \notin f.meta
  /\ HasAll(f, Top, {"token_embd", "output_norm"})
  /\ \A l \in Layers(f) :
       LET routed == has(f, l, "ffn_gate_inp") IN
       /\ HasAll(f, l, {"attn_norm", "attn_output", "ffn_norm"})
       /\ routed \/ has(f, l, "ffn_down")
       /\ IF has(f, l, "attn_qkv") THEN validate_row_count(f, l, "attn_qkv")
          ELSE HasAll(f, l, {"attn_q", "attn_k", "attn_v"})
       /\ routed => HasAll(f, l, {"ffn_gate_exps", "ffn_up_exps", "ffn_down_exps"})
       /\ ~routed /\ ~has(f, l, "ffn_gate") => has(f, l, "ffn_up") /\ validate_row_count(f, l, "ffn_up")

DeepSeekLayout(f) == ~has(f, 1, "attn_kv_a_mqa") /\ ~has(f, 1, "attn_kv_b") /\ StandardLayout(f)

NemotronNeeds(kind) ==
  CASE kind = "mamba"     -> {"ssm_in", "ssm_conv1d", "ssm_dt_bias", "ssm_a", "ssm_d", "ssm_out"}
    [] kind = "attention" -> {"attn_q", "attn_k", "attn_v", "attn_output"}
    [] kind = "routed"    -> {"ffn_gate_inp", "ffn_up_exps", "ffn_down_exps", "ffn_up_shexp", "ffn_down_shexp"}
    [] kind = "dense"     -> {"ffn_up", "ffn_down"}

validate_nemotron_h_layout(f) ==
  /\ "ssm_missing" \notin f.meta
  /\ HasAll(f, Top, {"token_embd", "output_norm"})
  /\ \A l \in Layers(f) : HasAll(f, l, {"attn_norm"} \cup NemotronNeeds(f.kinds[l]))
  /\ \E l \in Layers(f) : f.kinds[l] = "mamba"

Qwen35Linear == {"attn_gate", "ssm_alpha", "ssm_beta", "ssm_conv1d", "ssm_dt_bias", "ssm_a", "ssm_norm", "ssm_out"}
Qwen35Full   == {"attn_q", "attn_k", "attn_v", "attn_q_norm", "attn_k_norm", "attn_output"}
Qwen35Vectors == {"ssm_dt_bias", "ssm_a", "ssm_norm", "attn_q_norm", "attn_k_norm"}

validate_qwen35_layout(f) ==
  /\ f.meta \cap {"dims", "ssm_missing", "ssm_kernel", "ssm_heads", "rope"} = {}
  /\ Layers(f) # {}
  /\ HasAll(f, Top, {"token_embd", "output_norm"})
  /\ \A l \in Layers(f) :
       LET mixer == IF has(f, l, "attn_qkv") THEN Qwen35Linear ELSE Qwen35Full IN
       /\ HasAll(f, l, {"attn_norm", "post_attention_norm", "ffn_gate", "ffn_up", "ffn_down"} \cup mixer)
       /\ has(f, l, "attn_qkv") => validate_row_count(f, l, "attn_qkv")
       /\ \A n \in mixer : IF n \in Qwen35Vectors THEN validate_element_count(f, l, n) ELSE validate_row_count(f, l, n)
  /\ \E l \in Layers(f) : has(f, l, "attn_qkv")
  /\ \E l \in Layers(f) : ~has(f, l, "attn_qkv")

validate_laguna_layout(f) ==
  /\ "dims" \notin f.meta
  /\ HasAll(f, Top, {"token_embd", "output_norm", "output"})
  /\ \A l \in Layers(f) :
       /\ HasAll(f, l, {"attn_q", "attn_k", "attn_v", "attn_q_norm", "attn_k_norm", "attn_gate", "attn_output",
                        "attn_norm", "ffn_norm"})
       /\ has(f, l, "ffn_gate") \/ has(f, l, "ffn_gate_inp")

\* Names of a layer that contain all of these parts.
Containing(parts) ==
  CASE parts = <<"attn", "q">>      -> {"attn_q", "attn_q_norm", "attn_qkv", "attn_query"}
    [] parts = <<"attn", "k">>      -> {"attn_k", "attn_k_norm", "attn_qkv", "attn_key"}
    [] parts = <<"attn", "v">>      -> {"attn_v", "attn_qkv"}
    [] parts = <<"attn", "output">> -> {"attn_output"}
    [] parts = <<"ffn", "gate">>    -> {"ffn_gate", "ffn_gate_inp", "ffn_gate_exps"}
    [] parts = <<"ffn", "up">>      -> {"ffn_up", "ffn_up_exps"}
    [] parts = <<"ffn", "down">>    -> {"ffn_down", "ffn_down_exps"}
AttnNames == {"attn_q", "attn_k", "attn_v", "attn_qkv", "attn_query", "attn_key", "attn_q_norm", "attn_k_norm",
              "attn_output", "attn_norm"}

\* The report looks for the parts in the whole name, prefix included: the k of
\* "blk" makes every attention tensor a key.
has_layer_weight(f, l, canonical, parts) ==
  \/ has(f, l, canonical)
  \/ \E n \in (IF parts = <<"attn", "k">> THEN AttnNames ELSE Containing(parts)) : has(f, l, n)

validate_gemma_layout(f) ==
  /\ "dims" \notin f.meta
  /\ HasAll(f, Top, {"token_embd", "output_norm"})
  /\ \A l \in Layers(f) :
       /\ HasAll(f, l, {"attn_norm", "ffn_norm"})
       /\ \A w \in {<<"attn_q", <<"attn", "q">>>>, <<"attn_k", <<"attn", "k">>>>, <<"attn_output", <<"attn", "output">>>>,
                    <<"ffn_gate", <<"ffn", "gate">>>>, <<"ffn_up", <<"ffn", "up">>>>, <<"ffn_down", <<"ffn", "down">>>>} :
            has_layer_weight(f, l, w[1], w[2])

validate_nomic_bert_layout(f) ==
  /\ "dims" \notin f.meta
  /\ HasAll(f, Top, {"token_embd", "token_embd_norm", "token_embd_norm_bias"})
  /\ \A l \in Layers(f) :
       /\ has(f, l, "attn_qkv") \/ HasAll(f, l, {"attn_q", "attn_k", "attn_v"})
       /\ HasAll(f, l, {"attn_output", "attn_output_norm", "attn_output_norm_bias", "ffn_up", "ffn_down",
                        "layer_output_norm", "layer_output_norm_bias"})
       /\ f.family = "nomic" => has(f, l, "ffn_gate")

validate_tensor_layout(f) ==
  CASE f.family = "gpt-oss"  -> TRUE
    [] f.family = "laguna"   -> validate_laguna_layout(f)
    [] f.family = "gemma"    -> validate_gemma_layout(f)
    [] f.family = "nemotron" -> validate_nemotron_h_layout(f)
    [] f.family = "qwen35"   -> validate_qwen35_layout(f)
    [] f.family \in {"nomic", "bert"} -> validate_nomic_bert_layout(f)
    [] f.family = "deepseek" -> DeepSeekLayout(f)
    [] f.family = "standard" -> StandardLayout(f)

\* "Returns true when the model can be loaded by the current runtime."
is_supported(f) ==
  /\ \A t \in DOMAIN f.tensors : f.tensors[t] # "type"
  /\ validate_tensor_layout(f)

(***************************************************************************)
(* Reading one tensor                                                      *)
(***************************************************************************)
\* Four loaders infer a tensor's size from where the next one begins, and so
\* take a quantised tensor that is cut for what is left of it; to the others,
\* and for f32 vectors, every byte must be there.
InferredSizes(f) == f.family \notin {"laguna", "nemotron", "qwen35"}

load_weight(f, l, name) ==
  /\ State(f, l, name) \notin {"missing", "type"}
  /\ State(f, l, name) = "cut" => InferredSizes(f)
load_f32_vec(f, l, name)       == State(f, l, name) \notin {"missing", "type", "cut"}
load_weight_rows(f, l, name)   == State(f, l, name) \in {"ok", "many"}
load_expert_weight(f, l, name) == State(f, l, name) \in {"ok", "few", "many"}
load_optional_f32_vec(f, l, name)   == has(f, l, name) => load_f32_vec(f, l, name)
load_optional_f32_slice(f, l, name) == has(f, l, name) => State(f, l, name) \in {"ok", "many"}
validate_global_shape(f, l, name)   == load_weight(f, l, name) /\ State(f, l, name) \in {"ok", "cut"}
ExactVec(f, l, name)           == State(f, l, name) = "ok"

Weights(f, l, names)       == \A n \in names : load_weight(f, l, n)
Vectors(f, l, names)       == \A n \in names : load_f32_vec(f, l, n)
Experts(f, l, names)       == \A n \in names : load_expert_weight(f, l, n)
Shaped(f, l, names)        == \A n \in names : validate_global_shape(f, l, n)
Optional(f, l, names)      == \A n \in names : load_optional_f32_vec(f, l, n)

(***************************************************************************)
(* The loaders: TRUE when nothing panics                                   *)
(***************************************************************************)
TiedOutput(f) == has(f, Top, "output") => load_weight(f, Top, "output")

\* Query, key and value of their own, or three row ranges of one tensor; the
\* standard loader looks for the query first, the encoder for the joint one.
SplitQkv(f, l) == Weights(f, l, {"attn_q", "attn_k", "attn_v"}) /\ Optional(f, l, {"attn_q_bias", "attn_k_bias", "attn_v_bias"})
JointQkv(f, l) == load_weight_rows(f, l, "attn_qkv") /\ load_optional_f32_slice(f, l, "attn_qkv_bias")

StandardFfn(f, l) ==
  IF has(f, l, "ffn_gate_inp")
  THEN load_weight(f, l, "ffn_gate_inp") /\ Experts(f, l, {"ffn_gate_exps", "ffn_up_exps", "ffn_down_exps"})
  ELSE /\ load_weight(f, l, "ffn_down")
       /\ IF has(f, l, "ffn_gate") THEN Weights(f, l, {"ffn_gate", "ffn_up"}) ELSE load_weight_rows(f, l, "ffn_up")

StandardLayer(f, l) ==
  /\ IF has(f, l, "attn_q") THEN SplitQkv(f, l) ELSE JointQkv(f, l)
  /\ StandardFfn(f, l)
  /\ Vectors(f, l, {"attn_norm", "ffn_norm"}) /\ load_weight(f, l, "attn_output")
  /\ Optional(f, l, {"attn_q_norm", "attn_k_norm"})

load_model(f) ==
  /\ load_weight(f, Top, "token_embd") /\ load_f32_vec(f, Top, "output_norm") /\ TiedOutput(f)
  /\ \A l \in Layers(f) : StandardLayer(f, l)

LagunaMlp(f, l) ==
  IF has(f, l, "ffn_gate") THEN Weights(f, l, {"ffn_gate", "ffn_up", "ffn_down"})
  ELSE /\ Weights(f, l, {"ffn_gate_inp", "ffn_gate_shexp", "ffn_up_shexp", "ffn_down_shexp"})
       /\ load_f32_vec(f, l, "exp_probs_b_bias")
       /\ Experts(f, l, {"ffn_gate_exps", "ffn_up_exps", "ffn_down_exps"})

LagunaLayer(f, l) ==
  /\ Weights(f, l, {"attn_q", "attn_k", "attn_v", "attn_gate", "attn_output"})
  /\ Vectors(f, l, {"attn_norm", "attn_q_norm", "attn_k_norm", "ffn_norm"})

load_laguna_model(f) ==
  /\ Weights(f, Top, {"token_embd", "output"}) /\ load_f32_vec(f, Top, "output_norm")
  /\ \A l \in Layers(f) : State(f, l, "attn_q") # "flat" /\ LagunaMlp(f, l) /\ LagunaLayer(f, l)

Mamba2Mixer(f, l) ==
  /\ Weights(f, l, {"ssm_in", "ssm_out"}) /\ Vectors(f, l, {"ssm_conv1d", "ssm_dt_bias", "ssm_a", "ssm_d"})
  /\ Optional(f, l, {"ssm_conv1d_bias", "ssm_norm"})
AttentionMixer(f, l) == Weights(f, l, {"attn_q", "attn_k", "attn_v", "attn_output"}) /\ Optional(f, l, {"attn_output_bias"})
MoeMixer(f, l) ==
  /\ Weights(f, l, {"ffn_gate_inp", "ffn_up_shexp", "ffn_down_shexp"})
  /\ Experts(f, l, {"ffn_up_exps", "ffn_down_exps"}) /\ Optional(f, l, {"exp_probs_b_bias"})
DenseFfnMixer(f, l) == Weights(f, l, {"ffn_up", "ffn_down"}) /\ Optional(f, l, {"ffn_up_bias", "ffn_down_bias"})

\* The kind of a layer comes from the metadata, as in the report.
NemotronMixer(f, l) ==
  CASE f.kinds[l] = "mamba"     -> Mamba2Mixer(f, l)
    [] f.kinds[l] = "attention" -> AttentionMixer(f, l)
    [] f.kinds[l] = "routed"    -> MoeMixer(f, l)
    [] f.kinds[l] = "dense"     -> DenseFfnMixer(f, l)

load_nemotron_h_model(f) ==
  /\ f.meta \cap {"ssm_missing", "ssm_kernel", "ssm_heads"} = {}
  /\ Layers(f) # {}
  /\ load_weight(f, Top, "token_embd") /\ TiedOutput(f) /\ load_f32_vec(f, Top, "output_norm")
  /\ \A l \in Layers(f) : NemotronMixer(f, l) /\ load_f32_vec(f, l, "attn_norm")

\* The draft head, in the order it is read: the first tensor that is missing
\* leaves it out, and one before that which cannot be used still panics.
MtpOrder == <<"mtp_eh_proj", "mtp_attn_q", "mtp_attn_k", "mtp_attn_v", "mtp_attn_output", "mtp_ffn_gate", "mtp_ffn_up",
              "mtp_ffn_down", "mtp_enorm", "mtp_hnorm", "mtp_attn_norm", "mtp_ffn_norm", "mtp_attn_q_norm",
              "mtp_attn_k_norm", "mtp_shared_head_norm", "mtp_embed_tokens", "mtp_shared_head_head">>
MtpFits(f, i) ==
  IF i <= 8 THEN validate_global_shape(f, Top, MtpOrder[i])
  ELSE IF i <= 15 THEN load_f32_vec(f, Top, MtpOrder[i])
  ELSE has(f, Top, MtpOrder[i]) => load_weight(f, Top, MtpOrder[i])
MtpHead(f) ==
  \/ \A i \in DOMAIN MtpOrder : MtpFits(f, i)
  \/ \E m \in 1 .. 15 : ~has(f, Top, MtpOrder[m]) /\ \A i \in 1 .. m - 1 : MtpFits(f, i)

Qwen35LinearMixer(f, l) ==
  /\ Shaped(f, l, {"attn_qkv", "attn_gate", "ssm_alpha", "ssm_beta", "ssm_out"})
  /\ \A n \in {"ssm_conv1d", "ssm_dt_bias", "ssm_a", "ssm_norm"} : ExactVec(f, l, n)
Qwen35AttentionMixer(f, l) ==
  /\ Shaped(f, l, {"attn_q", "attn_k", "attn_v", "attn_output"})
  /\ \A n \in {"attn_q_norm", "attn_k_norm"} : ExactVec(f, l, n)
Qwen35Layer(f, l) ==
  /\ Shaped(f, l, {"ffn_gate", "ffn_up", "ffn_down"})
  /\ Vectors(f, l, {"attn_norm", "post_attention_norm"})

load_qwen35_model(f) ==
  /\ f.meta \cap {"dims", "ssm_missing", "ssm_kernel", "ssm_heads", "rope"} = {}
  /\ Layers(f) # {}
  /\ load_weight(f, Top, "token_embd") /\ TiedOutput(f) /\ load_f32_vec(f, Top, "output_norm")
  /\ \A l \in Layers(f) :
       /\ IF has(f, l, "attn_qkv") THEN Qwen35LinearMixer(f, l) ELSE Qwen35AttentionMixer(f, l)
       /\ Qwen35Layer(f, l)
  /\ \E l \in Layers(f) : has(f, l, "attn_qkv")
  /\ \E l \in Layers(f) : ~has(f, l, "attn_qkv")
  /\ MtpHead(f)

GptOssLayer(f, l) ==
  /\ Weights(f, l, {"attn_q", "attn_k", "attn_v", "attn_output", "ffn_gate_inp"})
  /\ Vectors(f, l, {"attn_norm", "attn_q_bias", "attn_k_bias", "attn_v_bias", "attn_output_bias", "attn_sinks",
                    "post_attention_norm", "ffn_gate_inp_bias", "ffn_gate_exps_bias", "ffn_up_exps_bias",
                    "ffn_down_exps_bias"})
  /\ Experts(f, l, {"ffn_gate_exps", "ffn_up_exps", "ffn_down_exps"})

load_gpt_oss_model(f) ==
  /\ Weights(f, Top, {"token_embd", "output"}) /\ load_f32_vec(f, Top, "output_norm")
  /\ \A l \in Layers(f) : GptOssLayer(f, l)

validate_shape(f, l, name) == validate_global_shape(f, l, name)

\* Any tensor of the layer whose own name contains the parts, whichever the
\* hash map yields first; only a true synonym has the shape that is needed.
find_alternative(f, l, parts) == {n \in Containing(parts) : has(f, l, n)}
OrAlternative(f, l, canonical, parts) ==
  IF has(f, l, canonical) THEN validate_shape(f, l, canonical)
  ELSE /\ find_alternative(f, l, parts) # {}
       /\ \A n \in find_alternative(f, l, parts) : n \in {"attn_query", "attn_key"} /\ validate_shape(f, l, n)

\* A layer without values of its own uses its keys.
OwnOrKeys(f, l) == find_alternative(f, l, <<"attn", "v">>) = {} \/ OrAlternative(f, l, "attn_v", <<"attn", "v">>)

Gemma4Ffn(f, l) == \A n \in {"ffn_gate", "ffn_up", "ffn_down"} : validate_shape(f, l, n)
PerLayerInput(f, l) ==
  "per_layer" \in f.meta =>
    /\ \A n \in {"inp_gate", "proj"} : has(f, l, n) => validate_shape(f, l, n)
    /\ Optional(f, l, {"post_norm"})
PerLayerEmbedding(f) ==
  "per_layer" \in f.meta =>
    /\ \A n \in {"per_layer_token_embd", "per_layer_model_proj"} : has(f, Top, n) => validate_global_shape(f, Top, n)
    /\ Optional(f, Top, {"per_layer_proj_norm"})
Gemma4Norms(f, l) ==
  Vectors(f, l, {"attn_norm", "attn_q_norm", "attn_k_norm", "post_attention_norm", "ffn_norm", "post_ffw_norm",
                 "layer_output_scale"})

\* The rows of query, key, value and gate set the layer's own head and
\* feed-forward sizes, against which they and the others are measured.
Gemma4Layer(f, l) ==
  /\ OrAlternative(f, l, "attn_q", <<"attn", "q">>)
  /\ OrAlternative(f, l, "attn_k", <<"attn", "k">>)
  /\ OwnOrKeys(f, l)
  /\ OrAlternative(f, l, "attn_output", <<"attn", "output">>)
  /\ Gemma4Ffn(f, l) /\ PerLayerInput(f, l) /\ Gemma4Norms(f, l)

load_gemma4_model(f) ==
  /\ load_weight(f, Top, "token_embd") /\ load_f32_vec(f, Top, "output_norm") /\ TiedOutput(f)
  /\ Optional(f, Top, {"rope_freqs"}) /\ PerLayerEmbedding(f)
  /\ \A l \in Layers(f) : Gemma4Layer(f, l)

EncoderQkv(f, l) == IF has(f, l, "attn_qkv") THEN JointQkv(f, l) ELSE SplitQkv(f, l)
EncoderLayer(f, l) ==
  /\ Weights(f, l, {"attn_output", "ffn_up", "ffn_down"})
  /\ has(f, l, "ffn_gate") => load_weight(f, l, "ffn_gate")
  /\ Vectors(f, l, {"attn_output_norm", "attn_output_norm_bias", "layer_output_norm", "layer_output_norm_bias"})
  /\ Optional(f, l, {"attn_output_bias", "ffn_up_bias", "ffn_down_bias"})

load_nomic_bert_model(f) ==
  /\ load_weight(f, Top, "token_embd") /\ Vectors(f, Top, {"token_embd_norm", "token_embd_norm_bias"})
  /\ Optional(f, Top, {"token_types"})   \* its first row only
  /\ \A l \in Layers(f) : EncoderQkv(f, l) /\ EncoderLayer(f, l)

\* Runner::from_path: the loader of the architecture.
Loads(f) ==
  CASE f.family = "gpt-oss"  -> load_gpt_oss_model(f)
    [] f.family = "laguna"   -> load_laguna_model(f)
    [] f.family = "gemma"    -> load_gemma4_model(f)
    [] f.family = "nemotron" -> load_nemotron_h_model(f)
    [] f.family = "qwen35"   -> load_qwen35_model(f)
    [] f.family \in {"nomic", "bert"} -> load_nomic_bert_model(f)
    [] f.family \in {"standard", "deepseek"} -> load_model(f)
=============================================================================
