----------------------------- MODULE ForwardCases ---------------------------
(***************************************************************************)
(* Small models of every architecture, and the ways the runtime can take   *)
(* the same tokens through them.                                           *)
(***************************************************************************)
EXTENDS ForwardPaths, FiniteSets

CONSTANTS
  MaxLayers,  \* bound on the layers of a model
  MaxPrompt,  \* bound on the tokens of a call
  Ubatches,   \* chunk sizes of the prefill
  Positions,  \* where a call starts
  Rings,      \* sliding windows (0: none), each with the slots of a cache
  Context     \* the slots of a cache without a ring

ASSUME ForwardAssumption ==
  /\ MaxLayers \in Nat /\ MaxPrompt \in Nat
  /\ Ubatches \subseteq Nat \ {0} /\ Positions \subseteq Nat
  /\ Rings \subseteq Nat \X (Nat \ {0})
  /\ Context \in Nat \ {0}

Bare == [bias |-> FALSE, q_norm |-> FALSE, k_norm |-> FALSE, moe |-> FALSE, f32 |-> {}]
StandardLayers ==
  {Bare, [Bare EXCEPT !.bias = TRUE], [Bare EXCEPT !.q_norm = TRUE], [Bare EXCEPT !.k_norm = TRUE],
   [Bare EXCEPT !.moe = TRUE], [Bare EXCEPT !.f32 = {"wq"}], [Bare EXCEPT !.f32 = {"w2"}]}
HybridLayer(kind, with, f32) == [kind |-> kind, norms |-> with, biases |-> with, f32 |-> f32]
QwenLayers ==
  {HybridLayer(k, w, f) : k \in {"linear", "attention"}, w \in BOOLEAN, f \in {{}, {"out"}}}
NemotronLayers ==
  {HybridLayer(k, w, {}) : k \in {"mamba2", "attention", "experts", "dense"}, w \in BOOLEAN}
  \cup {HybridLayer("dense", TRUE, {"up"})}
Plain == [swa |-> FALSE, shares |-> 0, has_v |-> TRUE, sparse |-> FALSE, ple |-> FALSE, scaled |-> FALSE]
LagunaLayers == {Plain, [Plain EXCEPT !.swa = TRUE], [Plain EXCEPT !.sparse = TRUE]}
GemmaLayers ==
  {Plain, [Plain EXCEPT !.swa = TRUE, !.ple = TRUE], [Plain EXCEPT !.has_v = FALSE, !.scaled = TRUE],
   [Plain EXCEPT !.shares = 1, !.ple = TRUE]}

UpTo(S, n) == UNION {[1 .. k -> S] : k \in 1 .. n}
Model(arch, layers, window, f32, storage) ==
  [arch |-> arch, layers |-> layers, sliding_window |-> window, output_f32 |-> f32,
   ple |-> TRUE, softcap |-> TRUE, storage |-> storage]

Architectures == {"standard", "qwen35", "nemotron_h", "gpt-oss", "laguna", "gemma4"}
\* With a cache that may be a ring, and without.
Ringed(arch, layers, f32s) ==
  {Model(arch, ls, ring[1], f, ring[2]) : ls \in layers, ring \in Rings, f \in f32s}
Unringed(arch, layers) == {Model(arch, ls, 0, f, Context) : ls \in layers, f \in BOOLEAN}
ModelsOf(arch) ==
  CASE arch = "standard"   -> Ringed(arch, UpTo(StandardLayers, MaxLayers), BOOLEAN)
    [] arch = "qwen35"     -> Unringed(arch, UpTo(QwenLayers, MaxLayers))
    [] arch = "nemotron_h" -> Unringed(arch, UpTo(NemotronLayers, MaxLayers))
    [] arch = "gpt-oss"    -> Ringed(arch, {[l \in 1 .. MaxLayers |-> Plain]}, {FALSE})
    [] arch = "laguna"     -> Ringed(arch, UpTo(LagunaLayers, MaxLayers), {FALSE})
    [] arch = "gemma4"     -> Ringed(arch, {ls \in UpTo(GemmaLayers, MaxLayers) : ls[1].shares = 0}, {FALSE})

Tokens(n) == [i \in 1 .. n |-> 100 + i]

\* A cache whose rows and recurrent state an earlier call left.
CacheOf(m, start) ==
  LET L == 1 .. Len(m.layers)
      c == Standard!CacheBefore(L, m.storage, start)
  IN  [k |-> c.k, v |-> c.v, storage_len |-> c.storage_len,
       conv |-> [n \in L |-> <<Standard!Atom("conv", 1), Standard!Atom("conv", 2)>>],
       ssm  |-> [n \in L |-> Standard!Atom("ssm", n)]]

\* The reference: one token after the other, each with its logits.
Decoded(m, tokens, start, cache) ==
  LET alone[i \in 0 .. Len(tokens)] ==
        IF i = 0 THEN [cache |-> cache]
        ELSE forward_token_into(m, tokens[i], start + i - 1, alone[i - 1].cache)
  IN  alone

\* The batch would go round the ring (see RingKeepsAttendedRows of KVCache).
Wraps(m, start, b) == m.arch = "standard" /\ b \in 2 .. m.storage /\ start + b > m.storage

Same(result, step) == result.cache = step.cache /\ result.logits = step.logits

ChunkWraps(m, tokens, start, ubatch) ==
  \E c \in 1 .. Chunks(tokens, ubatch) :
    Wraps(m, start + ChunkEnd(tokens, ubatch, c - 1), Len(Chunk(tokens, ubatch, c)))

PromptAgrees(m, tokens, start, ubatch, cache, alone) ==
  \/ Batchable(m) /\ ChunkWraps(m, tokens, start, ubatch)
  \/ Same(prefill_prompt_tokens(m, tokens, start, ubatch, cache), alone[Len(tokens)])

\* v is the verified batch.
BatchAgrees(m, v, n, alone) ==
  /\ v.cache = alone[n].cache
  /\ \A i \in 1 .. n : v.logits[i] = alone[i].logits
  /\ m.arch = "qwen35" => native_qwen_mtp(7, v.hidden[n]) = native_qwen_mtp(7, alone[n].x)

DraftAgrees(m, tokens, start, cache, alone) ==
  Verifiable(m) /\ ~Wraps(m, start, Len(tokens)) =>
    BatchAgrees(m, forward_verify_draft_batch(m, tokens, start, cache), Len(tokens), alone)

\* Gemma 4 caps its logits after the output projection.
HiddenAgrees(m, tokens, start, cache, alone) ==
  m.arch # "gemma4" =>
    Standard!Apply("output", 0, forward_hidden_token(m, tokens[1], start, cache)) = alone[1].logits

AllAgree(m, tokens, start, cache, alone) ==
  /\ \A ubatch \in Ubatches : PromptAgrees(m, tokens, start, ubatch, cache, alone)
  /\ DraftAgrees(m, tokens, start, cache, alone)
  /\ HiddenAgrees(m, tokens, start, cache, alone)

PathsAgree(m) ==
  \A start \in Positions, n \in 1 .. MaxPrompt :
    LET cache == CacheOf(m, start)
    IN  AllAgree(m, Tokens(n), start, cache, Decoded(m, Tokens(n), start, cache))
=============================================================================
