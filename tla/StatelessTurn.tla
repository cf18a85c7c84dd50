--------------------------- MODULE StatelessTurn ---------------------------
(***************************************************************************)
(* Stateless requests (Runner::generate_chat_stream of                     *)
(* src/src/runtime.rs) over the shared prefix cache.                       *)
(*                                                                         *)
(* A request holds the generation lock, so requests follow each other.     *)
(* Each allocates a KV cache of its own, as long as its context and token  *)
(* budget ask for, restores the snapshot of its whole prompt or prefills   *)
(* the prompt, offers the result to the prefix cache, and decodes.         *)
(* clear_shared_prefix_cache takes the prefix cache's lock only and comes  *)
(* at any time.  Chunks of the prefill are those of SessionTurn; without a *)
(* window they come to the same rows as token by token (ForwardBatchHolds  *)
(* of KVCacheProofs), which is how the prompt is evaluated here.           *)
(***************************************************************************)
EXTENDS PrefixCache

CONSTANTS
  Prompts,    \* rendered prompts
  Contexts,   \* effective_max_context of the requests
  Windows,    \* effective_sliding_window of the requests; 0 is none
  Budgets,    \* max_tokens of the requests
  Models      \* the kinds of model that may be loaded

ASSUME StatelessAssumption ==
  /\ Prompts \subseteq Seq(Tokens) \ {<<>>}
  /\ Contexts \subseteq Nat \ {0}
  /\ Windows \subseteq Nat \ {1}
  /\ Budgets \subseteq Nat \ {0}
  /\ Models \subseteq ModelKinds
  /\ MaxEntries \in Nat \ {0} /\ MaxTokens \in Nat \ {0} /\ MaxBytes \in Nat \ {0}
  /\ RowFloats \in Nat \ {0} /\ LogitsBytes \in Nat

VARIABLES
  model,      \* the kind of model loaded; never changes
  entries,    \* the prefix cache
  pc,
  tokens,     \* the request's prompt
  fed,        \* prompt tokens in the cache
  text,       \* the prompt and the tokens generated
  bf16,       \* the request's cache holds bf16 rows
  budget,     \* tokens it may still generate
  cache, logits,
  requested   \* history: the prompts that were looked up or kept, the last one first

request == <<tokens, fed, text, bf16, budget, cache, logits>>
vars == <<model, entries, pc, tokens, fed, text, bf16, budget, cache, logits, requested>>

NoLogits == [ctx |-> Garbage, sampled |-> FALSE]
NoRequest ==
  /\ pc = "idle" /\ tokens = <<>> /\ fed = 0 /\ text = <<>> /\ bf16 = FALSE /\ budget = 0
  /\ cache = NewCache(1, 0) /\ logits = NoLogits

Init == model \in Models /\ entries = <<>> /\ requested = <<>> /\ NoRequest

cache_len_for(prompt, context, max_tokens) == Least(context, Len(prompt) + max_tokens + 1)

\* kv_cache_wants_bf16: only some models have bf16 kernels.
WantsBf16(kind) == IF kind = "interleaved" THEN {FALSE} ELSE BOOLEAN

\* A prompt that was asked for or kept is the most recent one.
Renewed(prompt) ==
  IF \E i \in DOMAIN requested : requested[i] = prompt
  THEN <<prompt>> \o RemoveAt(requested, CHOOSE i \in DOMAIN requested : requested[i] = prompt)
  ELSE <<prompt>> \o requested

\* A request without a window asks the prefix cache first.
BeginRequest(prompt, context, window, max_tokens) ==
  /\ pc = "idle"
  /\ tokens' = prompt
  /\ text' = prompt
  /\ budget' = max_tokens
  /\ bf16' \in WantsBf16(model)
  /\ LET fresh == NewCache(cache_len_for(prompt, context, max_tokens), window)
         asks  == window = 0
         hit   == asks /\ Known(entries, prompt)
                       /\ Restorable(SnapshotOf(entries, prompt), fresh, bf16', model)
     IN  /\ entries' = IF asks THEN Restored(entries, prompt) ELSE entries
         /\ cache' = IF hit THEN RestoreRows(fresh, SnapshotOf(entries, prompt)) ELSE fresh
         /\ logits' = IF hit THEN SnapshotOf(entries, prompt).logits ELSE NoLogits
         /\ pc' = IF hit THEN "decode" ELSE "prefill"
         /\ fed' = IF hit THEN Len(prompt) ELSE 0
         /\ requested' = IF asks /\ Known(entries, prompt) THEN Renewed(prompt) ELSE requested
  /\ UNCHANGED model

\* prefill_prompt_tokens feeds all but the last prompt token for their rows.
PrefillToken ==
  /\ pc = "prefill"
  /\ fed < Len(tokens) - 1
  /\ InStorage(cache, fed)
  /\ cache' = Forward(cache, model, tokens[fed + 1], fed)
  /\ fed' = fed + 1
  /\ UNCHANGED <<model, entries, pc, tokens, text, bf16, budget, logits, requested>>

\* The last one yields the logits; what came of the prompt is offered to the
\* prefix cache.
PrefillLast ==
  /\ pc = "prefill"
  /\ fed = Len(tokens) - 1
  /\ InStorage(cache, fed)
  /\ cache' = Forward(cache, model, tokens[fed + 1], fed)
  /\ logits' = [ctx |-> ForwardRow(cache, model, tokens[fed + 1], fed), sampled |-> FALSE]
  /\ LET asks == cache.sliding_window = 0
     IN  /\ entries' = IF asks THEN Inserted(entries, tokens, cache', bf16, model, logits')
                       ELSE entries
         /\ requested' = IF asks /\ Insertable(tokens, cache', bf16, model)
                         THEN Renewed(tokens) ELSE requested
  /\ fed' = Len(tokens)
  /\ pc' = "decode"
  /\ UNCHANGED <<model, tokens, text, bf16, budget>>

\* A prompt beyond the context: the slice index panics.
Panic ==
  /\ pc = "prefill"
  /\ ~InStorage(cache, fed)
  /\ pc' = "panicked"
  /\ UNCHANGED <<model, entries, request, requested>>

\* The sampler works on the request's own copy of the logits.
Sample ==
  /\ pc = "decode"
  /\ budget > 0
  /\ \E token \in Tokens : text' = Append(text, token)
  /\ budget' = budget - 1
  /\ logits' = [logits EXCEPT !.sampled = TRUE]
  /\ pc' = IF budget' = 0 \/ Len(text) >= cache.max_len THEN "end" ELSE "forward"
  /\ UNCHANGED <<model, entries, tokens, fed, bf16, cache, requested>>

ForwardToken ==
  /\ pc = "forward"
  /\ LET pos == Len(text) - 1
     IN  /\ logits' = [ctx |-> ForwardRow(cache, model, text[pos + 1], pos), sampled |-> FALSE]
         /\ cache' = Forward(cache, model, text[pos + 1], pos)
  /\ pc' = "decode"
  /\ UNCHANGED <<model, entries, tokens, fed, text, bf16, budget, requested>>

\* A stop token or stop sequence, or nothing more to generate.
EndRequest ==
  /\ pc \in {"decode", "end"}
  /\ pc' = "idle" /\ tokens' = <<>> /\ fed' = 0 /\ text' = <<>> /\ bf16' = FALSE /\ budget' = 0
  /\ cache' = NewCache(1, 0) /\ logits' = NoLogits
  /\ UNCHANGED <<model, entries, requested>>

\* clear_shared_prefix_cache, which benchmarks call.
Clear ==
  /\ pc # "panicked"
  /\ entries' = <<>>
  /\ UNCHANGED <<model, pc, request, requested>>

Next ==
  \/ \E prompt \in Prompts, context \in Contexts, window \in Windows, n \in Budgets :
       BeginRequest(prompt, context, window, n)
  \/ PrefillToken \/ PrefillLast \/ Panic \/ Sample \/ ForwardToken \/ EndRequest \/ Clear

Spec == Init /\ [][Next]_vars

-----------------------------------------------------------------------------
(* Properties. *)

LogitsType == [ctx : Origins, sampled : BOOLEAN]

TypeOK ==
  /\ model \in Models
  /\ entries \in Seq([tokens : Seq(Tokens), rows : Seq(Origins), logits : LogitsType])
  /\ pc \in {"idle", "prefill", "decode", "forward", "end", "panicked"}
  /\ tokens \in Seq(Tokens) /\ fed \in 0 .. Len(tokens) /\ text \in Seq(Tokens)
  /\ bf16 \in BOOLEAN
  /\ budget \in Nat
  /\ CacheOK(cache)
  /\ logits \in LogitsType
  /\ requested \in Seq(Seq(Tokens))

(***************************************************************************)
(* A request without a window decodes as if it had prefilled its prompt    *)
(* itself, whatever requests, of whatever shape, came before it: it        *)
(* samples from unsampled logits of its own text, and its rows and         *)
(* recurrent state are those of its own text.                              *)
(***************************************************************************)
PrefixHitInvisible ==
  pc = "decode" /\ cache.sliding_window = 0 =>
    /\ logits = [ctx |-> text, sampled |-> FALSE]
    /\ \A p \in 0 .. Len(text) - 1 : cache.rows[p] = Prefix(text, p)
    /\ model = "hybrid" => cache.ssm = text

(***************************************************************************)
(* The snapshots are of different prompts, within the limits as insert     *)
(* counts them (an f32 as one byte), and are what the prefill left: not    *)
(* the tokens generated after it, not what a sampler made of the logits.   *)
(***************************************************************************)
SnapshotsOfPrompts ==
  /\ Len(entries) <= MaxEntries
  /\ \A i, j \in DOMAIN entries : entries[i].tokens = entries[j].tokens => i = j
  /\ \A i \in DOMAIN entries :
       LET prompt == entries[i].tokens
       IN  /\ Len(prompt) \in 1 .. MaxTokens
           /\ CountedBytes(prompt) <= MaxBytes
           /\ entries[i].rows = [p \in 1 .. Len(prompt) |-> SubSeq(prompt, 1, p)]
           /\ entries[i].logits = [ctx |-> prompt, sampled |-> FALSE]

(***************************************************************************)
(* A snapshot that makes room was asked for or kept before every snapshot  *)
(* that stays.                                                             *)
(***************************************************************************)
Recency(prompt) == CHOOSE i \in DOMAIN requested : requested[i] = prompt
Prompted == {entries[i].tokens : i \in DOMAIN entries}
EvictsLeastRecentPrompt ==
  [][Prompted' # {} =>
       \A gone \in Prompted \ Prompted', kept \in Prompted \cap Prompted' :
         Recency(kept) < Recency(gone)]_vars

-----------------------------------------------------------------------------
(* The inductive invariant behind the properties.                            *)

\* How far the request is.
ProgressInv ==
  /\ pc = "prefill" => fed < Len(tokens) /\ text = tokens
  /\ pc = "forward" => text # <<>> /\ InStorage(cache, Len(text) - 1)

\* A cache without a window holds the tokens evaluated so far.
RowsInv ==
  cache.sliding_window = 0 =>
    /\ pc = "prefill" => Holds(cache, model, tokens, fed)
    /\ pc = "decode" => Len(text) <= cache.max_len /\ Holds(cache, model, text, Len(text))
    /\ pc = "forward" => Holds(cache, model, text, Len(text) - 1)

\* The snapshots are of the prompts that were asked for or kept last, in that
\* order.
RecencyInv ==
  /\ Len(entries) <= Len(requested)
  /\ \A i \in DOMAIN entries : entries[i].tokens = requested[i]
  /\ \A i, j \in DOMAIN requested : requested[i] = requested[j] => i = j

StatelessInv ==
  TypeOK /\ ProgressInv /\ RowsInv /\ SnapshotsOfPrompts /\ RecencyInv /\ PrefixHitInvisible
=============================================================================
