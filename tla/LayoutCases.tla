----------------------------- MODULE LayoutCases ----------------------------
(***************************************************************************)
(* Model files of every family, complete or with up to two faults: what    *)
(* the report promises against what the loader does.                       *)
(***************************************************************************)
EXTENDS ModelLayout, FiniteSets

CONSTANT Faults   \* what may be wrong with a tensor

Variants == {"split", "joint", "routed", "both", "deepseek", "laguna", "mamba", "mamba_routed", "linear", "draft", "gemma",
             "shared_kv", "synonyms", "nomic", "bert", "gpt-oss"}

FamilyOf(v) ==
  CASE v \in {"split", "joint", "routed", "both"} -> "standard"
    [] v \in {"mamba", "mamba_routed"}            -> "nemotron"
    [] v \in {"linear", "draft"}                  -> "qwen35"
    [] v \in {"gemma", "shared_kv", "synonyms"}   -> "gemma"
    [] OTHER                                      -> v

KindsOf(v) ==
  CASE v = "mamba"             -> <<"mamba", "attention", "dense">>
    [] v = "mamba_routed"      -> <<"mamba", "routed">>
    [] v \in {"linear", "draft", "laguna"} -> <<"first", "second">>
    [] OTHER                   -> <<"only">>

Qkv      == {"attn_q", "attn_k", "attn_v"}
QkvBias  == {"attn_q_bias", "attn_k_bias", "attn_v_bias"}
DenseFfn == {"ffn_gate", "ffn_up", "ffn_down"}
Routed   == {"ffn_gate_inp", "ffn_gate_exps", "ffn_up_exps", "ffn_down_exps"}
Shared   == {"ffn_gate_shexp", "ffn_up_shexp", "ffn_down_shexp"}
Decoder  == {"attn_norm", "attn_output", "ffn_norm"}
Encoder  == {"attn_output", "attn_output_bias", "attn_output_norm", "attn_output_norm_bias", "ffn_up", "ffn_up_bias",
             "ffn_down", "ffn_down_bias", "layer_output_norm", "layer_output_norm_bias"}
GemmaRest == {"attn_q_norm", "attn_k_norm", "post_attention_norm", "post_ffw_norm", "layer_output_scale", "inp_gate",
              "proj", "post_norm"} \cup Decoder \cup DenseFfn

GlobalsOf(v) ==
  CASE v \in {"nomic", "bert"} -> {"token_embd", "token_embd_norm", "token_embd_norm_bias", "token_types"}
    [] v = "draft" -> {"token_embd", "output_norm"} \cup {MtpOrder[i] : i \in DOMAIN MtpOrder}
    [] FamilyOf(v) = "gemma" -> {"token_embd", "output_norm", "rope_freqs", "per_layer_token_embd", "per_layer_proj_norm"}
    [] OTHER -> {"token_embd", "output_norm", "output"}

LayerOf(v, l) ==
  CASE v \in {"split", "deepseek"} -> Decoder \cup Qkv \cup QkvBias \cup DenseFfn \cup {"attn_q_norm"}
    [] v = "joint"  -> Decoder \cup {"attn_qkv", "attn_qkv_bias", "ffn_up", "ffn_down"}
    [] v = "routed" -> Decoder \cup {"attn_qkv"} \cup Routed
    [] v = "both"   -> Decoder \cup Qkv \cup {"attn_qkv"} \cup DenseFfn
    [] v = "laguna" -> Decoder \cup Qkv \cup {"attn_q_norm", "attn_k_norm", "attn_gate"}
                         \cup (IF l = 1 THEN DenseFfn ELSE {"exp_probs_b_bias"} \cup Routed \cup Shared)
    [] FamilyOf(v) = "nemotron" -> {"attn_norm"} \cup NemotronNeeds(KindsOf(v)[l])
                         \cup (IF l = 1 THEN {"ssm_conv1d_bias", "ssm_norm"} ELSE {})
    [] FamilyOf(v) = "qwen35" -> {"attn_norm", "post_attention_norm"} \cup DenseFfn
                         \cup (IF l = 1 THEN {"attn_qkv"} \cup Qwen35Linear ELSE Qwen35Full)
    [] v = "gemma"     -> GemmaRest \cup Qkv
    [] v = "shared_kv" -> GemmaRest \cup {"attn_q", "attn_k"}
    [] v = "synonyms"  -> GemmaRest \cup Qkv \cup {"attn_query", "attn_key"}
    [] v = "nomic"  -> Encoder \cup {"attn_qkv", "attn_qkv_bias", "ffn_gate"}
    [] v = "bert"   -> Encoder \cup Qkv \cup QkvBias
    [] v = "gpt-oss" -> Qkv \cup QkvBias \cup Routed
         \cup {"attn_norm", "attn_output", "attn_output_bias", "attn_sinks", "post_attention_norm", "ffn_gate_inp_bias",
               "ffn_gate_exps_bias", "ffn_up_exps_bias", "ffn_down_exps_bias"}

TensorsOf(v) == TopNames(GlobalsOf(v)) \cup UNION {LayerNames(l, LayerOf(v, l)) : l \in DOMAIN KindsOf(v)}

With(v, faults, meta) ==
  [family |-> FamilyOf(v), kinds |-> KindsOf(v), meta |-> meta,
   tensors |-> [t \in {t \in TensorsOf(v) : t \notin DOMAIN faults \/ faults[t] # "missing"} |->
                  IF t \in DOMAIN faults THEN faults[t] ELSE "ok"]]

MetaFaults == {{"dims"}, {"ssm_missing"}, {"ssm_kernel"}, {"ssm_heads"}, {"rope"}}
Plain(v)   == IF FamilyOf(v) = "gemma" THEN {"per_layer"} ELSE {}
Complete(v) == With(v, <<>>, Plain(v))
Vector(n)  == n \in {"output_norm", "attn_norm", "ffn_norm", "post_attention_norm", "post_ffw_norm", "post_norm",
                     "token_embd_norm", "attn_output_norm", "layer_output_norm", "attn_sinks", "layer_output_scale",
                     "attn_qkv_bias", "per_layer_proj_norm", "rope_freqs"} \cup Qwen35Vectors

\* One fault of any kind, or a tensor missing beside one that is missing or short.
FilesOf(v) ==
  {Complete(v)}
    \cup {With(v, <<>>, meta) : meta \in MetaFaults}
    \cup {With(v, [t \in {a} |-> x], Plain(v)) : a \in TensorsOf(v), x \in Faults}
    \cup {With(v, [t \in {a, b} |-> IF t = a THEN x ELSE "missing"], Plain(v)) :
            a \in TensorsOf(v), b \in TensorsOf(v), x \in Faults \cap {"missing", "few"}}

\* What the report does not look at: the bytes; rows too many; and rows too few,
\* but for the tensors whose rows it counts.
Measured(f, t) ==
  CASE f.family = "qwen35" ->
         t[1] # Top /\ t[2] \in {"attn_qkv"} \cup (IF has(f, t[1], "attn_qkv") THEN Qwen35Linear ELSE Qwen35Full)
    [] f.family \in {"standard", "deepseek"} ->
         t[2] = "attn_qkv" \/ (t[2] = "ffn_up" /\ ~has(f, t[1], "ffn_gate"))
    [] OTHER -> FALSE
Misshapen(f) ==
  \E t \in DOMAIN f.tensors :
    \/ f.tensors[t] \in {"many", "cut"}
    \/ f.tensors[t] \in {"few", "flat"} /\ (~Measured(f, t) \/ (f.tensors[t] = "flat" /\ Vector(t[2])))

\* Tensors the loader needs and the report never asks for.
Unlisted(f, l) ==
  CASE f.family \in {"standard", "deepseek"} ->
         (IF has(f, l, "ffn_gate") THEN {"ffn_up"} ELSE {})
           \cup (IF HasAll(f, l, {"attn_q", "attn_qkv"}) THEN {"attn_k", "attn_v"} ELSE {})
    [] f.family = "laguna" ->
         IF has(f, l, "ffn_gate") THEN {"ffn_up", "ffn_down"}
         ELSE {"exp_probs_b_bias"} \cup Shared \cup (Routed \ {"ffn_gate_inp"})
    [] f.family = "gemma" -> {"attn_q", "attn_k", "attn_q_norm", "attn_k_norm", "post_attention_norm", "post_ffw_norm",
                              "layer_output_scale"}
    [] OTHER -> {}
Unasked(f) ==
  \/ f.family = "gpt-oss"
  \/ \E l \in Layers(f) : \E n \in Unlisted(f, l) : ~has(f, l, n)
  \/ f.family = "nemotron" /\ f.meta \cap {"ssm_kernel", "ssm_heads"} # {}

\* What it asks for though the loader does without.
Stricter(f) ==
  \/ \E t \in DOMAIN f.tensors : f.tensors[t] = "type"
  \/ "dims" \in f.meta
  \/ f.family = "nomic" /\ ~has(f, 1, "ffn_gate")
  \/ f.family = "nemotron" /\ \A l \in Layers(f) : f.kinds[l] # "mamba"
  \/ \E l \in Layers(f) : HasAll(f, l, Qkv \cup {"attn_qkv"}) /\ State(f, l, "attn_qkv") \in {"few", "flat"}

\* A complete file is accepted and loads; one that is accepted and does not load
\* has a fault of the named kinds, as has one that is refused and would load.
ReportMatchesLoader(f) ==
  /\ \A v \in Variants : f = Complete(v) => is_supported(f) /\ Loads(f)
  /\ is_supported(f) /\ ~Loads(f) => Misshapen(f) \/ Unasked(f)
  /\ ~is_supported(f) /\ Loads(f) => Stricter(f)
=============================================================================
