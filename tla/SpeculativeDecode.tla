------------------------- MODULE SpeculativeDecode -------------------------
(***************************************************************************)
(* Greedy speculative decoding: the decode loop of generate_chat_stream    *)
(* with verify_batch (src/src/runtime.rs).                                 *)
(*                                                                         *)
(* A smaller assistant model, or the target's own draft head ("native"),   *)
(* proposes tokens.  The target evaluates the whole draft in one batch, or *)
(* token by token where it has no batched verifier, and keeps the tokens   *)
(* up to the first that is not its own greedy choice.  Both models then    *)
(* have to be brought back to the accepted text: a rejected suffix is      *)
(* overwritten in the KV cache, and recurrent state is restored from a     *)
(* snapshot and replayed.                                                  *)
(*                                                                         *)
(* Logits are the tokens they were computed from.  The assistant's choices *)
(* are arbitrary; the decision to give up drafting rests on measured times *)
(* and is arbitrary too.                                                   *)
(***************************************************************************)
EXTENDS KVCache

CONSTANTS
  StopTokens, Prompts, MaxTokens, MaxContext, EndsText(_),
  GreedyToken(_),   \* the sampler's choice: argmax after the repeat penalty
  ArgmaxToken(_),   \* the argmax of the logits after a sequence of tokens
  Windows(_),       \* sliding windows of a kind of target; 0 is none
  DraftContexts,    \* context lengths of the assistant
  MaxDraftTokens,   \* options.speculative.max_draft_tokens
  Adaptive,         \* options.speculative.adaptive
  Models,           \* the kinds of model the target may be
  Drafters          \* the kinds of drafter: assistant models and "native"

ASSUME SpeculativeAssumption ==
  /\ MaxTokens \in Nat \ {0} /\ MaxContext \in Nat \ {0} /\ MaxDraftTokens \in Nat \ {0}
  /\ DraftContexts \subseteq Nat \ {0}
  /\ Adaptive \in BOOLEAN
  /\ StopTokens \subseteq Tokens
  /\ Prompts \subseteq Seq(Tokens) \ {<<>>}
  /\ \A prompt \in Prompts : Len(prompt) <= MaxContext
  /\ \A kind \in Models : \A w \in Windows(kind) :
       w \in Nat /\ (w > 0 => \A prompt \in Prompts : Len(prompt) <= w)
  /\ Models \subseteq ModelKinds /\ Drafters \subseteq ModelKinds \cup {"native"}

VARIABLES
  model, drafter, batched,   \* never change; batched: the target has a batched verifier
  cache, logits,             \* the target
  emitted, prompt_len, pos,  \* the text, and the next position to forward
  dcache, dlogits, draft_limit, enabled,  \* SpeculativeState
  limit, draft,              \* tokens to draft in this round, and the draft
  target_logits,             \* the batched verifier's rows
  ssm_snapshot, assistant_ssm_snapshot,
  checked,                   \* draft tokens accepted so far
  rejected,
  replayed,                  \* accepted tokens replayed into recurrent state
  pc

setup == <<model, drafter, batched, prompt_len>>
target == <<cache, logits>>
assistant == <<dcache, dlogits>>
round == <<limit, draft, target_logits, ssm_snapshot, assistant_ssm_snapshot>>
vars == <<setup, target, assistant, round, emitted, pos, draft_limit, enabled,
          checked, rejected, replayed, pc>>

Plain == INSTANCE GreedyDecode WITH done <- pc = "done"

cache_len == Plain!cache_len_for(prompt_len)

\* A cache after prefill_prompt_tokens.
Prefilled(max_len, window, kind, prompt) ==
  LET kv == NewCache(max_len, window)
  IN  [kv EXCEPT !.rows = [s \in DOMAIN kv.rows |->
                             IF s < Len(prompt) THEN Prefix(prompt, s) ELSE Garbage],
                 !.ssm = IF kind = "hybrid" THEN prompt ELSE <<>>]

\* prepare_speculative_state: an assistant whose context the prompt fills is
\* not used.  The native head needs drafts of two and a hybrid target.
Init ==
  /\ model \in Models /\ drafter \in Drafters /\ batched \in BOOLEAN
  /\ batched => model \in {"batched", "hybrid"}
  /\ emitted \in Prompts
  /\ prompt_len = Len(emitted)
  /\ pos = prompt_len
  /\ logits = emitted
  /\ \E w \in Windows(model) : cache = Prefilled(cache_len, w, model, emitted)
  /\ \E n \in DraftContexts :
       LET len == IF drafter = "native" THEN cache_len ELSE Least(cache_len, n)
       IN  /\ enabled \in BOOLEAN
           /\ enabled => IF drafter = "native" THEN model = "hybrid" /\ MaxDraftTokens >= 2
                                               ELSE prompt_len < len
           /\ dcache = IF drafter # "native" /\ enabled
                       THEN Prefilled(len, 0, drafter, emitted) ELSE NewCache(len, 0)
           /\ dlogits = IF drafter # "native" /\ enabled THEN emitted ELSE Garbage
  /\ draft_limit = IF drafter = "native" THEN 2 ELSE Least(MaxDraftTokens, 2)
  /\ limit = 0 /\ draft = <<>> /\ target_logits = <<>>
  /\ ssm_snapshot = <<>> /\ assistant_ssm_snapshot = <<>>
  /\ checked = 0 /\ rejected = FALSE /\ replayed = 0
  /\ pc = "decode"

\* argmax_finite_token of logits that belong to no text may be anything.
Argmax(context) == IF context = Garbage THEN Tokens ELSE {ArgmaxToken(context)}
Sampled(context) == IF context = Garbage THEN Tokens ELSE {GreedyToken(context)}

Generated == Len(emitted) - prompt_len

\* Slip: the assistant's own context is not considered.
DraftLimitOfTarget == Least(Least(draft_limit, MaxTokens - Generated), cache_len - pos)

DraftLimit ==
  Least(Least(draft_limit, MaxTokens - Generated), Least(cache_len - pos, dcache.max_len - pos))

\* verify_batch goes ahead; else the loop samples one token.
CanDraft ==
  /\ enabled
  /\ pos < cache_len
  /\ DraftLimit >= (IF drafter = "native" THEN 2 ELSE 1)

StartDraft ==
  /\ pc = "decode"
  /\ CanDraft
  /\ limit' = DraftLimit
  /\ \/ drafter # "native" /\ draft' = <<>>
     \/ drafter = "native" /\ \E token \in Argmax(logits) \ StopTokens : draft' = <<token>>
  /\ ssm_snapshot' = cache.ssm
  /\ assistant_ssm_snapshot' = dcache.ssm
  /\ target_logits' = <<>>
  /\ checked' = 0 /\ rejected' = FALSE
  /\ pc' = "draft"
  /\ UNCHANGED <<setup, target, assistant, emitted, pos, draft_limit, enabled, replayed>>

\* The assistant proposes a token, and evaluates it unless it is the last.
DraftToken(token) ==
  /\ pc = "draft"
  /\ draft' = Append(draft, token)
  /\ \/ /\ token \in StopTokens \/ Len(draft) + 1 = limit
        /\ pc' = IF batched THEN "verify" ELSE "check"
        /\ UNCHANGED assistant
     \/ /\ token \notin StopTokens /\ Len(draft) + 1 < limit
        /\ dcache' = Forward(dcache, drafter, token, pos + Len(draft))
        /\ dlogits' = ForwardRow(dcache, drafter, token, pos + Len(draft))
        /\ pc' = pc
  /\ UNCHANGED <<setup, target, emitted, pos, draft_limit, enabled, limit, target_logits,
                 ssm_snapshot, assistant_ssm_snapshot, checked, rejected, replayed>>

\* The batch kernels evaluate the whole draft.
VerifyBatch ==
  /\ pc = "verify"
  /\ model = "batched" /\ Len(draft) <= cache.storage_len
  /\ cache' = ForwardBatch(cache, model, draft, pos)
  /\ target_logits' = [i \in 1 .. Len(draft) |-> cache'.rows[slot_for_pos(cache, pos + i - 1)]]
  /\ pc' = "check"
  /\ UNCHANGED <<setup, logits, assistant, emitted, pos, draft_limit, enabled, limit, draft,
                 ssm_snapshot, assistant_ssm_snapshot, checked, rejected, replayed>>

\* A hybrid trunk evaluates it in token order.
VerifyToken ==
  /\ pc = "verify"
  /\ ~(model = "batched" /\ Len(draft) <= cache.storage_len)
  /\ LET i == Len(target_logits)
     IN  /\ cache' = Forward(cache, model, draft[i + 1], pos + i)
         /\ target_logits' = Append(target_logits, ForwardRow(cache, model, draft[i + 1], pos + i))
         /\ pc' = IF i + 1 = Len(draft) THEN "check" ELSE pc
  /\ UNCHANGED <<setup, logits, assistant, emitted, pos, draft_limit, enabled, limit, draft,
                 ssm_snapshot, assistant_ssm_snapshot, checked, rejected, replayed>>

\* The logits the next draft token is compared with.
TargetRow == IF batched /\ checked > 0 THEN target_logits[checked] ELSE logits

Exhausted == Len(emitted') - prompt_len >= MaxTokens \/ pos >= cache_len

AfterAccept == IF checked + 1 = Len(draft) THEN "finish" ELSE "check"

\* The target's choice ends the text.
CheckStop ==
  /\ pc = "check"
  /\ \E token \in Argmax(TargetRow) : Plain!Stops(emitted, token)
  /\ pc' = "done"
  /\ UNCHANGED <<setup, target, assistant, round, emitted, pos, draft_limit, enabled,
                 checked, rejected, replayed>>

\* The target's choice is the drafted token.
Accept ==
  /\ pc = "check"
  /\ \E token \in Argmax(TargetRow) :
       /\ ~Plain!Stops(emitted, token)
       /\ token = draft[checked + 1]
       /\ emitted' = Append(emitted, token)
  /\ \/ /\ Exhausted
        /\ pc' = "done"
        /\ UNCHANGED <<pos, checked>>
     \/ /\ ~Exhausted /\ batched
        /\ pos' = pos + 1 /\ checked' = checked + 1
        /\ pc' = AfterAccept
     \/ /\ ~Exhausted /\ ~batched
        /\ pc' = "forward"
        /\ UNCHANGED <<pos, checked>>
  /\ UNCHANGED <<setup, target, assistant, round, draft_limit, enabled, rejected, replayed>>

\* It is another token, which takes the drafted one's place; recurrent state
\* goes back to the snapshot.
Reject ==
  /\ pc = "check"
  /\ \E token \in Argmax(TargetRow) :
       /\ ~Plain!Stops(emitted, token)
       /\ token # draft[checked + 1]
       /\ emitted' = Append(emitted, token)
  /\ rejected' = TRUE
  /\ pc' = IF Exhausted THEN "done" ELSE IF batched THEN "recover" ELSE "forward"
  /\ IF pc' = "recover" /\ model = "hybrid"
     THEN cache' = [cache EXCEPT !.ssm = ssm_snapshot] /\ replayed' = 0
     ELSE cache' = cache /\ replayed' = checked
  /\ UNCHANGED <<setup, logits, assistant, round, pos, draft_limit, enabled, checked>>

BatchStart == pos - checked

\* forward_prefill_token of an accepted token into the restored state.
Replay ==
  /\ pc = "recover"
  /\ replayed < checked
  /\ cache' = Forward(cache, model, draft[replayed + 1], BatchStart + replayed)
  /\ replayed' = replayed + 1
  /\ UNCHANGED <<setup, logits, assistant, round, emitted, pos, draft_limit, enabled,
                 checked, rejected, pc>>

\* Restoring the assistant's recurrent state before its replay.
RestoreAssistant ==
  IF drafter = "hybrid"
  THEN dcache' = [dcache EXCEPT !.ssm = assistant_ssm_snapshot] /\ replayed' = 0
  ELSE dcache' = dcache /\ replayed' = checked

\* The target forwards the token it put in the draft's place.
Recover ==
  /\ pc = "recover"
  /\ replayed = checked
  /\ LET token == emitted[Len(emitted)]
     IN  /\ cache' = Forward(cache, model, token, BatchStart + checked)
         /\ logits' = ForwardRow(cache, model, token, BatchStart + checked)
  /\ RestoreAssistant
  /\ pc' = "assist"
  /\ UNCHANGED <<setup, dlogits, round, emitted, pos, draft_limit, enabled, checked, rejected>>

\* Without a batched verifier, and in the plain loop, every emitted token is
\* forwarded before the next is looked at.
ForwardToken ==
  /\ pc = "forward"
  /\ LET token == emitted[Len(emitted)]
     IN  /\ cache' = Forward(cache, model, token, pos)
         /\ logits' = ForwardRow(cache, model, token, pos)
  /\ \/ \* plain loop
        /\ draft = <<>>
        /\ pos' = pos + 1
        /\ pc' = "decode"
        /\ UNCHANGED <<checked, dcache, replayed>>
     \/ /\ draft # <<>> /\ ~rejected
        /\ pos' = pos + 1 /\ checked' = checked + 1
        /\ pc' = AfterAccept
        /\ UNCHANGED <<dcache, replayed>>
     \/ /\ draft # <<>> /\ rejected
        /\ RestoreAssistant
        /\ pc' = "assist"
        /\ UNCHANGED <<pos, checked>>
  /\ UNCHANGED <<setup, dlogits, round, emitted, draft_limit, enabled, rejected>>

AssistantReplay ==
  /\ pc = "assist"
  /\ replayed < checked
  /\ dcache' = Forward(dcache, drafter, draft[replayed + 1], BatchStart + replayed)
  /\ replayed' = replayed + 1
  /\ UNCHANGED <<setup, target, dlogits, round, emitted, pos, draft_limit, enabled,
                 checked, rejected, pc>>

\* The assistant evaluates a token if it has a position for it.
AssistantForward(token, p) ==
  IF drafter # "native" /\ p < dcache.max_len
  THEN /\ dcache' = Forward(dcache, drafter, token, p)
       /\ dlogits' = ForwardRow(dcache, drafter, token, p)
  ELSE UNCHANGED assistant

\* The assistant takes over the target's token.
AssistantCorrect ==
  /\ pc = "assist"
  /\ replayed = checked
  /\ AssistantForward(emitted[Len(emitted)], pos)
  /\ pos' = pos + 1
  /\ pc' = "adapt"
  /\ UNCHANGED <<setup, target, round, emitted, draft_limit, enabled, checked, rejected, replayed>>

\* Slip: the last draft token is not evaluated by the assistant.
FinishLeavesAssistant ==
  /\ pc = "finish"
  /\ logits' = IF batched THEN target_logits[Len(draft)] ELSE logits
  /\ pc' = "adapt"
  /\ UNCHANGED <<setup, cache, assistant, round, emitted, pos, draft_limit, enabled, checked,
                 rejected, replayed>>

\* Slip: the logits stay those before the draft.
FinishKeepsLogits ==
  /\ pc = "finish"
  /\ AssistantForward(draft[Len(draft)], pos - 1)
  /\ pc' = "adapt"
  /\ UNCHANGED <<setup, target, round, emitted, pos, draft_limit, enabled, checked,
                 rejected, replayed>>

\* The whole draft was accepted: decoding goes on from its last row, and the
\* assistant evaluates the token it left out.
Finish ==
  /\ pc = "finish"
  /\ logits' = IF batched THEN target_logits[Len(draft)] ELSE logits
  /\ AssistantForward(draft[Len(draft)], pos - 1)
  /\ pc' = "adapt"
  /\ UNCHANGED <<setup, cache, round, emitted, pos, draft_limit, enabled, checked,
                 rejected, replayed>>

Larger(a, b) == IF a >= b THEN a ELSE b

\* Slip: the shrinking draft length has no lower bound.
AdaptedLimitUnbounded ==
  IF ~Adaptive \/ drafter = "native" THEN draft_limit
  ELSE IF rejected THEN draft_limit - 1
  ELSE Least(draft_limit + 1, MaxDraftTokens)

AdaptedLimit ==
  IF ~Adaptive \/ drafter = "native" THEN draft_limit
  ELSE IF rejected THEN Larger(draft_limit - 1, 1)
  ELSE Least(draft_limit + 1, MaxDraftTokens)

\* adapt_speculative_window: drafts grow, shrink, or are given up.
Adapt ==
  /\ pc = "adapt"
  /\ \/ enabled' = FALSE /\ UNCHANGED draft_limit
     \/ draft_limit' = AdaptedLimit /\ UNCHANGED enabled
  /\ limit' = 0 /\ draft' = <<>> /\ target_logits' = <<>>
  /\ ssm_snapshot' = <<>> /\ assistant_ssm_snapshot' = <<>>
  /\ checked' = 0 /\ rejected' = FALSE /\ replayed' = 0
  /\ pc' = "decode"
  /\ UNCHANGED <<setup, target, assistant, emitted, pos>>

\* The loop samples without a draft: none is possible, or the native head's
\* first token, the argmax itself, is a stop token.
Fallback ==
  ~CanDraft \/ (drafter = "native" /\ Argmax(logits) \cap StopTokens # {})

SampleStop ==
  /\ pc = "decode"
  /\ Fallback
  /\ \E token \in Sampled(logits) : Plain!Stops(emitted, token)
  /\ pc' = "done"
  /\ UNCHANGED <<setup, target, assistant, round, emitted, pos, draft_limit, enabled,
                 checked, rejected, replayed>>

Sample ==
  /\ pc = "decode"
  /\ Fallback
  /\ \E token \in Sampled(logits) :
       /\ ~Plain!Stops(emitted, token)
       /\ emitted' = Append(emitted, token)
  /\ pc' = IF Exhausted THEN "done" ELSE "forward"
  /\ UNCHANGED <<setup, target, assistant, round, pos, draft_limit, enabled,
                 checked, rejected, replayed>>

\* A decode that is done stays as it is.
Done == pc = "done" /\ UNCHANGED vars

Next ==
  \/ StartDraft \/ (\E token \in Tokens : DraftToken(token))
  \/ VerifyBatch \/ VerifyToken \/ CheckStop \/ Accept \/ Reject
  \/ Replay \/ Recover \/ ForwardToken \/ AssistantReplay \/ AssistantCorrect
  \/ Finish \/ Adapt \/ SampleStop \/ Sample \/ Done

Spec == Init /\ [][Next]_vars

\* The loop is one thread, which runs to its end.
FairSpec == Spec /\ WF_vars(Next)
-----------------------------------------------------------------------------
(* Properties. *)

\* Every variable keeps its type; the draft limit stays between one and the
\* configured maximum.
TypeOK ==
  /\ model \in ModelKinds /\ drafter \in ModelKinds \cup {"native"} /\ batched \in BOOLEAN
  /\ CacheOK(cache) /\ CacheOK(dcache)
  /\ logits \in Origins /\ dlogits \in Origins
  /\ emitted \in Seq(Tokens) /\ prompt_len \in 1 .. Len(emitted) /\ pos \in Nat
  /\ draft_limit \in 1 .. Larger(MaxDraftTokens, 2)
  /\ limit \in Nat /\ draft \in Seq(Tokens) /\ target_logits \in Seq(Origins)
  /\ ssm_snapshot \in Origins /\ assistant_ssm_snapshot \in Origins
  /\ checked \in 0 .. Len(draft) /\ replayed \in 0 .. Len(draft)
  /\ enabled \in BOOLEAN /\ rejected \in BOOLEAN
  /\ pc \in {"decode", "draft", "verify", "check", "recover", "forward", "assist",
             "finish", "adapt", "done"}

\* "Exact target-model verification" (docs/MTP.md): drafting changes neither a
\* token of the text nor where it ends, and the text does end.
ImplementsGreedy == Plain!Spec

\* Whenever the loop comes round, the target's rows, recurrent state and
\* logits are those of the emitted text, rejected suffixes or not.
TargetInSync ==
  pc = "decode" =>
    /\ logits = emitted /\ pos = Len(emitted)
    /\ \A p \in attention_start_pos(pos, cache.sliding_window) .. pos - 1 :
         cache.rows[slot_for_pos(cache, p)] = Prefix(emitted, p)
    /\ model = "hybrid" => cache.ssm = emitted

\* "... so the next draft starts from exactly the same accepted prefix as the
\* target" (the comment in verify_batch): the assistant's logits and recurrent
\* state are those of the emitted text, as long as its context lasts.
AssistantInSync ==
  pc = "decode" /\ enabled /\ drafter # "native" /\ pos <= dcache.max_len =>
    /\ dlogits = emitted
    /\ drafter = "hybrid" => dcache.ssm = emitted

\* Between rounds both models stand where the text stands: what verify_batch
\* rejects, restores, replays and leaves to the assistant adds up to the
\* accepted tokens, in both caches.
ModelsInSync == TargetInSync /\ AssistantInSync

\* No token is evaluated past the end of either cache.
CapacityRespected ==
  /\ pc = "draft" /\ drafter # "native" => InStorage(dcache, pos + limit - 1)
  /\ pc = "verify" => InStorage(cache, pos + Len(draft) - 1)
  /\ pc \in {"forward", "recover"} => InStorage(cache, pos)

-----------------------------------------------------------------------------
(* The inductive invariant behind the properties.  At "recover", "forward"   *)
(* and "assist" the last token of the text is not at its position yet.       *)

\* The text before the round, and the draft.
Drafted == SubSeq(emitted, 1, BatchStart) \o draft

\* A token was emitted whose position is still to come.
Ahead == pc \in {"recover", "forward", "assist"}

InRound ==
  \/ pc \in {"draft", "verify", "check", "recover", "assist", "finish"}
  \/ pc = "forward" /\ draft # <<>>

\* No row is lost that is still attended to: there is a slot for each, or every
\* layer keeps to the window and only tokens of the text are evaluated.
KeepsRows ==
  \/ cache.sliding_window = 0
  \/ cache.sliding_window > 1 /\ ~batched /\ model \notin {"interleaved", "hybrid"}

\* The target holds what the first n tokens of seq leave in it.
TargetHolds(kv, kind, seq, n) ==
  IF kv.sliding_window = 0 THEN Holds(kv, kind, seq, n) ELSE CacheOK(kv) /\ RingHolds(kv, seq, n)

\* The caches keep their sizes; the text leaves room for another token.
ProgressInv ==
  /\ dcache.sliding_window = 0 /\ cache.max_len = cache_len
  /\ batched => model \in {"batched", "hybrid"}
  /\ pc # "done" => /\ Generated < MaxTokens
                    /\ Len(emitted) = IF Ahead THEN pos + 1 ELSE pos
                    /\ pos <= cache_len
  /\ Ahead => pos < cache_len

\* A draft fits both caches, and its accepted tokens are in the text.
RoundInv ==
  /\ pc = "decode" => draft = <<>>
  /\ InRound =>
       /\ BatchStart \in prompt_len .. Len(emitted)
       /\ Len(draft) <= limit
       /\ BatchStart + limit <= cache_len /\ BatchStart + limit <= dcache.max_len
       /\ \A i \in 1 .. checked : emitted[BatchStart + i] = draft[i]
       /\ drafter = "hybrid" => assistant_ssm_snapshot = SubSeq(emitted, 1, BatchStart)
  /\ pc = "draft" => Len(draft) < limit /\ target_logits = <<>>
  /\ pc \in {"draft", "verify"} => checked = 0
  /\ pc \in {"verify", "check", "recover", "assist"} => checked < Len(draft)
  /\ pc \in {"verify", "recover"} => batched
  /\ pc = "verify" => Len(target_logits) < Len(draft)
  /\ pc \in {"check", "finish"} /\ batched => Len(target_logits) = Len(draft)
  /\ pc = "forward" /\ draft # <<>> =>
       /\ checked < Len(draft) /\ ~batched
       /\ rejected \/ emitted[Len(emitted)] = draft[checked + 1]
  /\ pc = "finish" => draft # <<>> /\ checked = Len(draft)
  /\ pc \in {"recover", "assist"} => replayed <= checked

\* What the target holds.
TargetState ==
  /\ pc \in {"decode", "draft", "assist", "adapt"} =>
       TargetHolds(cache, model, emitted, Len(emitted)) /\ logits = emitted
  /\ pc = "verify" =>
       TargetHolds(cache, model, Drafted, pos + Len(target_logits)) /\ logits = emitted
  /\ pc \in {"check", "finish"} =>
       IF batched
       THEN /\ logits = SubSeq(emitted, 1, BatchStart)
            /\ TargetHolds(cache, model, Drafted, BatchStart + Len(draft))
       ELSE TargetHolds(cache, model, emitted, pos) /\ logits = emitted
  /\ pc \in {"verify", "check", "finish"} /\ batched =>
       \A j \in 1 .. Len(target_logits) : target_logits[j] = SubSeq(Drafted, 1, BatchStart + j)
  /\ pc = "forward" => TargetHolds(cache, model, emitted, pos)
  /\ pc = "recover" => TargetHolds(cache, model, emitted, BatchStart + replayed)
  /\ InRound /\ model = "hybrid" => ssm_snapshot = SubSeq(emitted, 1, BatchStart)

TargetInv == KeepsRows => TargetState

\* What the assistant holds.
AssistantInv ==
  drafter # "native" =>
    /\ pc \in {"decode", "adapt"} /\ enabled /\ pos <= dcache.max_len =>
         Holds(dcache, drafter, emitted, pos) /\ dlogits = emitted
    /\ pc = "forward" /\ draft = <<>> /\ enabled => pos >= dcache.max_len
    /\ pc = "draft" => Holds(dcache, drafter, Drafted, pos + Len(draft))
    /\ pc \in {"verify", "check", "recover", "finish"} \/ (pc = "forward" /\ draft # <<>>) =>
         Holds(dcache, drafter, Drafted, BatchStart + Len(draft) - 1)
    /\ pc = "assist" => Holds(dcache, drafter, emitted, BatchStart + replayed)

SpeculativeInv == TypeOK /\ ProgressInv /\ RoundInv /\ TargetInv /\ AssistantInv
=============================================================================
