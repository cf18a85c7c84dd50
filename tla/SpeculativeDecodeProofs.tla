---------------------- MODULE SpeculativeDecodeProofs ----------------------
(***************************************************************************)
(* Proofs about speculative decoding: for every model, drafter, length of  *)
(* draft and choice of the assistant, both caches hold the accepted text   *)
(* between rounds, no token is evaluated without a position, and the text  *)
(* is that of plain greedy decoding.                                       *)
(*                                                                         *)
(* The theorems name what they need.  A target that evaluates rejected     *)
(* tokens into a ring loses rows to them (KeepsRows); with a repeat        *)
(* penalty the verifier and the sampler choose different tokens.           *)
(***************************************************************************)
EXTENDS SpeculativeDecode, KVCacheProofs, TLAPS

\* What is chosen is a token.
ChoosesTokens == \A seq \in Seq(Tokens) : ArgmaxToken(seq) \in Tokens /\ GreedyToken(seq) \in Tokens

\* Repeat penalty 1: the sampler's choice at temperature 0 is the argmax.
NoPenalty == \A seq \in Seq(Tokens) : GreedyToken(seq) = ArgmaxToken(seq)

-----------------------------------------------------------------------------
(* Texts and drafts. *)

\* A draft behind the beginning of a text.
LEMMA JoinedFacts ==
  ASSUME NEW seq \in Seq(Tokens), NEW n \in 0 .. Len(seq), NEW rest \in Seq(Tokens)
  PROVE  /\ SubSeq(seq, 1, n) \o rest \in Seq(Tokens)
         /\ Len(SubSeq(seq, 1, n) \o rest) = n + Len(rest)
         /\ \A i \in 1 .. n : (SubSeq(seq, 1, n) \o rest)[i] = seq[i]
         /\ \A i \in 1 .. Len(rest) : (SubSeq(seq, 1, n) \o rest)[n + i] = rest[i]
  <1> DEFINE start == SubSeq(seq, 1, n)
  <1>1. start \in Seq(Tokens) /\ Len(start) = n /\ \A i \in 1 .. n : start[i] = seq[i]
    BY PrefixFacts
  <1> HIDE DEF start
  <1>2. start \o rest \in Seq(Tokens) /\ Len(start \o rest) = n + Len(rest)
    <2>1. start \in Seq(Tokens) /\ Len(start) = n
      BY <1>1
    <2> QED BY <2>1
  <1>3. \A i \in 1 .. n : (start \o rest)[i] = seq[i]
    <2> TAKE i \in 1 .. n
    <2>1. i \in 1 .. Len(start)
      BY <1>1
    <2>2. (start \o rest)[i] = start[i]
      BY <1>1, <2>1
    <2> QED BY <1>1, <2>2
  <1>4. \A i \in 1 .. Len(rest) : (start \o rest)[n + i] = rest[i]
    BY <1>1
  <1> QED BY <1>2, <1>3, <1>4 DEF start

\* A cache has at least one position.
LEMMA CacheLen ==
  ASSUME NEW n \in Nat
  PROVE  Plain!cache_len_for(n) \in Nat \ {0}
  BY SpeculativeAssumption DEF Plain!cache_len_for

\* A prompt has one position and every one it needs.
LEMMA PromptFits ==
  ASSUME NEW prompt \in Prompts
  PROVE  /\ prompt \in Seq(Tokens) /\ Len(prompt) \in Nat \ {0}
         /\ Len(prompt) <= Plain!cache_len_for(Len(prompt))
  <1>1. prompt \in Seq(Tokens) /\ prompt # <<>> /\ Len(prompt) <= MaxContext
    BY SpeculativeAssumption
  <1>2. Len(prompt) \in Nat \ {0}
    BY <1>1
  <1> QED BY <1>1, <1>2, SpeculativeAssumption DEF Plain!cache_len_for

\* The rows a prefill leaves.
LEMMA PrefilledRows ==
  ASSUME NEW len \in Nat \ {0}, NEW window \in Nat, NEW kind, NEW prompt \in Seq(Tokens),
         Len(prompt) <= storage_len_for(len, window)
  PROVE  /\ CacheOK(Prefilled(len, window, kind, prompt))
         /\ Prefilled(len, window, kind, prompt).max_len = len
         /\ Prefilled(len, window, kind, prompt).sliding_window = window
         /\ \A p \in 0 .. Len(prompt) - 1 :
              Prefilled(len, window, kind, prompt).rows[p] = Prefix(prompt, p)
         /\ kind = "hybrid" => Prefilled(len, window, kind, prompt).ssm = prompt
  <1> DEFINE kv == NewCache(len, window)
             storage == storage_len_for(len, window)
             rows == [s \in DOMAIN kv.rows |-> IF s < Len(prompt) THEN Prefix(prompt, s) ELSE Garbage]
             ssm == IF kind = "hybrid" THEN prompt ELSE <<>>
  <1>1. /\ CacheOK(kv) /\ kv.max_len = len /\ kv.sliding_window = window
    BY NewCacheFacts
  <1>2. kv.storage_len = storage /\ kv.rows \in [0 .. storage - 1 -> Origins] /\ storage \in Nat
    <2>1. storage \in Nat
      BY StorageFacts
    <2>2. /\ kv.storage_len = storage_len_for(kv.max_len, kv.sliding_window)
          /\ kv.rows \in [0 .. kv.storage_len - 1 -> Origins]
      <3> HIDE DEF kv
      <3> QED BY <1>1, CacheFacts
    <2> HIDE DEF kv
    <2> QED BY <1>1, <2>1, <2>2
  <1>3. Prefilled(len, window, kind, prompt) = Replaced(kv, rows, ssm)
    BY DEF Prefilled, Replaced
  <1> HIDE DEF kv, storage
  <1>4. rows \in [0 .. kv.storage_len - 1 -> Origins]
    <2>1. ASSUME NEW s \in 0 .. storage - 1, s < Len(prompt)
          PROVE  Prefix(prompt, s) \in Origins
      BY <1>2, <2>1, PrefixFacts DEF Prefix, Origins
    <2> QED BY <1>2, <2>1 DEF Origins
  <1>5. ssm \in Origins
    BY DEF Origins
  <1>6. \A p \in 0 .. Len(prompt) - 1 : rows[p] = Prefix(prompt, p)
    BY <1>2 DEF storage
  <1>7. kind = "hybrid" => ssm = prompt
    OBVIOUS
  <1> HIDE DEF rows, ssm
  <1>8. /\ CacheOK(Replaced(kv, rows, ssm)) /\ SameShape(Replaced(kv, rows, ssm), kv)
        /\ Replaced(kv, rows, ssm).rows = rows /\ Replaced(kv, rows, ssm).ssm = ssm
    BY <1>1, <1>4, <1>5, ReplaceRows
  <1> QED BY <1>1, <1>3, <1>6, <1>7, <1>8 DEF SameShape

\* An assistant holds the prompt.
LEMMA PrefilledHolds ==
  ASSUME NEW len \in Nat \ {0}, NEW kind, NEW prompt \in Seq(Tokens), Len(prompt) <= len
  PROVE  Holds(Prefilled(len, 0, kind, prompt), kind, prompt, Len(prompt))
  <1>1. Len(prompt) <= storage_len_for(len, 0)
    BY StorageFacts
  <1>2. SubSeq(prompt, 1, Len(prompt)) = prompt
    BY WholePrefix
  <1>3. /\ CacheOK(Prefilled(len, 0, kind, prompt))
        /\ Prefilled(len, 0, kind, prompt).sliding_window = 0
        /\ \A p \in 0 .. Len(prompt) - 1 : Prefilled(len, 0, kind, prompt).rows[p] = Prefix(prompt, p)
        /\ kind = "hybrid" => Prefilled(len, 0, kind, prompt).ssm = prompt
    BY <1>1, PrefilledRows
  <1> QED BY <1>2, <1>3 DEF Holds

\* So does a target whose window the prompt fits.
LEMMA PrefilledTarget ==
  ASSUME NEW len \in Nat \ {0}, NEW window \in Nat, NEW kind, NEW prompt \in Seq(Tokens),
         Len(prompt) <= len, window > 0 => Len(prompt) <= window
  PROVE  /\ CacheOK(Prefilled(len, window, kind, prompt))
         /\ Prefilled(len, window, kind, prompt).max_len = len
         /\ TargetHolds(Prefilled(len, window, kind, prompt), kind, prompt, Len(prompt))
  <1> DEFINE kv == Prefilled(len, window, kind, prompt)
  <1>1. Len(prompt) <= storage_len_for(len, window)
    BY DEF storage_len_for, Least
  <1>2. /\ CacheOK(kv) /\ kv.max_len = len /\ kv.sliding_window = window
        /\ \A p \in 0 .. Len(prompt) - 1 : kv.rows[p] = Prefix(prompt, p)
    BY <1>1, PrefilledRows
  <1>3. CASE window = 0
    <2>1. Holds(kv, kind, prompt, Len(prompt))
      BY <1>3, PrefilledHolds
    <2>2. TargetHolds(kv, kind, prompt, Len(prompt))
      <3> HIDE DEF kv
      <3> QED BY <1>2, <1>3, <2>1 DEF TargetHolds
    <2> QED BY <1>2, <2>2
  <1>4. CASE window # 0
    <2>1. kv.storage_len \in Nat /\ kv.storage_len = storage_len_for(len, window)
      BY <1>2, CacheFacts
    <2>2. RingHolds(kv, prompt, Len(prompt))
      <3> HIDE DEF kv
      <3> SUFFICES ASSUME NEW p \in 0 .. Len(prompt) - 1
                   PROVE  kv.rows[slot_for_pos(kv, p)] = Prefix(prompt, p)
        BY DEF RingHolds
      <3>1. p \in Nat /\ p < kv.storage_len
        BY <1>1, <2>1
      <3>2. p % kv.storage_len = p
        BY <2>1, <3>1
      <3>3. slot_for_pos(kv, p) = p
        BY <1>2, <1>4, <3>2 DEF slot_for_pos
      <3> QED BY <1>2, <3>3
    <2>3. TargetHolds(kv, kind, prompt, Len(prompt))
      <3> HIDE DEF kv
      <3> QED BY <1>2, <1>4, <2>2 DEF TargetHolds
    <2> QED BY <1>2, <2>3
  <1> QED BY <1>2, <1>3, <1>4

\* A position of a cache has a slot.
LEMMA PositionHasSlot ==
  ASSUME NEW kv, CacheOK(kv), NEW at \in Nat, at < kv.max_len
  PROVE  InStorage(kv, at)
  BY InStorageFacts

\* What a target holds depends on the tokens it has seen.
LEMMA TargetCommonPrefix ==
  ASSUME NEW kv, NEW m, NEW a \in Seq(Tokens), NEW b \in Seq(Tokens), NEW n \in Nat,
         n <= Len(a), n <= Len(b), \A i \in 1 .. n : a[i] = b[i],
         TargetHolds(kv, m, a, n)
  PROVE  TargetHolds(kv, m, b, n)
  <1>1. CASE kv.sliding_window = 0
    BY <1>1, HoldsCommonPrefix DEF TargetHolds
  <1>2. CASE kv.sliding_window # 0
    BY <1>2, RingCommonPrefix DEF TargetHolds
  <1> QED BY <1>1, <1>2

\* The next token of the text is evaluated, and its row added.
LEMMA TargetEvaluates ==
  ASSUME CacheOK(cache), KeepsRows, NEW seq \in Seq(Tokens), NEW at \in 0 .. Len(seq) - 1,
         at < cache.max_len, TargetHolds(cache, model, seq, at)
  PROVE  /\ ForwardRow(cache, model, seq[at + 1], at) = SubSeq(seq, 1, at + 1)
         /\ TargetHolds(Forward(cache, model, seq[at + 1], at), model, seq, at + 1)
  <1>1. at \in Nat /\ seq[at + 1] \in Tokens
    OBVIOUS
  <1>2. /\ CacheOK(Forward(cache, model, seq[at + 1], at))
        /\ SameShape(Forward(cache, model, seq[at + 1], at), cache)
    BY <1>1, PositionHasSlot, ForwardType
  <1> DEFINE next == Forward(cache, model, seq[at + 1], at)
             row == ForwardRow(cache, model, seq[at + 1], at)
  <1>3. next.sliding_window = cache.sliding_window
    BY <1>2 DEF SameShape
  <1>4. CASE cache.sliding_window = 0
    <2>1. Holds(cache, model, seq, at)
      BY <1>4 DEF TargetHolds
    <2>2. row = SubSeq(seq, 1, at + 1) /\ Holds(next, model, seq, at + 1)
      BY <2>1, ForwardHolds
    <2> HIDE DEF next, row
    <2>3. TargetHolds(next, model, seq, at + 1)
      BY <1>3, <1>4, <2>2 DEF TargetHolds
    <2> QED BY <2>2, <2>3 DEF next, row
  <1>5. CASE cache.sliding_window # 0
    <2>1. /\ cache.sliding_window > 1 /\ model \notin {"interleaved", "hybrid"}
          /\ RingHolds(cache, seq, at)
      BY <1>5 DEF TargetHolds, KeepsRows
    <2>2. cache.max_len \in Nat
      BY CacheFacts
    <2>3. at + 1 <= cache.max_len
      BY <1>1, <2>2
    <2>4. row = SubSeq(seq, 1, at + 1) /\ RingHolds(next, seq, at + 1)
      BY <2>1, <2>3, RingForward
    <2>5. CacheOK(next)
      BY <1>2
    <2> HIDE DEF next, row
    <2>6. TargetHolds(next, model, seq, at + 1)
      BY <1>3, <1>5, <2>4, <2>5 DEF TargetHolds
    <2> QED BY <2>4, <2>6 DEF next, row
  <1> QED BY <1>4, <1>5

\* Rejected tokens are evaluated only by targets without a ring.
LEMMA BatchedKeeps ==
  ASSUME KeepsRows, batched
  PROVE  cache.sliding_window = 0
  BY DEF KeepsRows

\* Whatever logits the loop looks at, it chooses tokens.
LEMMA ChosenTokens ==
  ASSUME ChoosesTokens, NEW context \in Origins
  PROVE  Argmax(context) \subseteq Tokens /\ Sampled(context) \subseteq Tokens
  BY DEF ChoosesTokens, Origins, Argmax, Sampled

-----------------------------------------------------------------------------
(* The invariant holds initially. *)

LEMMA InitInv ==
  ASSUME Init
  PROVE  SpeculativeInv
  <1>1. /\ emitted \in Seq(Tokens) /\ Len(emitted) \in Nat \ {0} /\ Len(emitted) <= cache_len
        /\ prompt_len = Len(emitted) /\ pos = Len(emitted) /\ cache_len \in Nat \ {0}
    BY PromptFits, CacheLen DEF Init, cache_len
  <1>2. PICK w \in Windows(model) : cache = Prefilled(cache_len, w, model, emitted)
    BY DEF Init
  <1>3. /\ CacheOK(cache) /\ cache.max_len = cache_len
        /\ TargetHolds(cache, model, emitted, Len(emitted))
    <2>1. w \in Nat /\ (w > 0 => Len(emitted) <= w)
      BY <1>2, SpeculativeAssumption DEF Init
    <2> QED BY <1>1, <1>2, <2>1, PrefilledTarget
  <1>4. PICK n \in DraftContexts :
          LET len == IF drafter = "native" THEN cache_len ELSE Least(cache_len, n)
          IN  /\ enabled \in BOOLEAN
              /\ enabled => IF drafter = "native" THEN model = "hybrid" /\ MaxDraftTokens >= 2
                                                  ELSE prompt_len < len
              /\ dcache = IF drafter # "native" /\ enabled
                          THEN Prefilled(len, 0, drafter, emitted) ELSE NewCache(len, 0)
              /\ dlogits = IF drafter # "native" /\ enabled THEN emitted ELSE Garbage
    BY DEF Init
  <1> DEFINE len == IF drafter = "native" THEN cache_len ELSE Least(cache_len, n)
  <1>5. len \in Nat \ {0}
    BY <1>1, SpeculativeAssumption DEF Least
  <1>6. /\ CacheOK(dcache) /\ dcache.sliding_window = 0 /\ dlogits \in Origins
        /\ drafter # "native" /\ enabled =>
             Holds(dcache, drafter, emitted, Len(emitted)) /\ dlogits = emitted
    <2>1. CASE drafter # "native" /\ enabled
      <3>1. dcache = Prefilled(len, 0, drafter, emitted) /\ dlogits = emitted /\ Len(emitted) <= len
        BY <1>1, <1>4, <1>5, <2>1
      <3> HIDE DEF len
      <3>2. Holds(dcache, drafter, emitted, Len(emitted))
        BY <1>1, <1>5, <3>1, PrefilledHolds
      <3> QED BY <1>1, <3>1, <3>2 DEF Holds, Origins
    <2>2. CASE ~(drafter # "native" /\ enabled)
      <3>1. dcache = NewCache(len, 0) /\ dlogits = Garbage
        BY <1>4, <2>2
      <3> HIDE DEF len
      <3> QED BY <1>5, <2>2, <3>1, NewCacheFacts DEF Origins
    <2> QED BY <2>1, <2>2
  <1>7. /\ draft_limit \in 1 .. Larger(MaxDraftTokens, 2)
    BY SpeculativeAssumption DEF Init, Larger, Least
  <1>8. enabled \in BOOLEAN
    BY <1>4
  <1>9. /\ logits = emitted /\ limit = 0 /\ draft = <<>> /\ target_logits = <<>>
        /\ ssm_snapshot = <<>> /\ assistant_ssm_snapshot = <<>>
        /\ checked = 0 /\ rejected = FALSE /\ replayed = 0 /\ pc = "decode"
        /\ model \in Models /\ drafter \in Drafters /\ batched \in BOOLEAN
    BY DEF Init
  <1>10. TypeOK
    <2>1. logits \in Origins /\ <<>> \in Origins
      BY <1>1, <1>9 DEF Origins
    <2>2. rejected \in BOOLEAN
      BY <1>9, Zenon
    <2>3. model \in ModelKinds /\ drafter \in ModelKinds \cup {"native"}
      BY <1>9, SpeculativeAssumption
    <2>4. /\ draft \in Seq(Tokens) /\ target_logits \in Seq(Origins) /\ Len(draft) = 0
      BY <1>9
    <2> QED BY <1>1, <1>3, <1>6, <1>7, <1>8, <1>9, <2>1, <2>2, <2>3, <2>4 DEF TypeOK
  <1>11. ProgressInv
    <2>1. MaxTokens \in Nat \ {0} /\ (batched => model \in {"batched", "hybrid"})
      BY SpeculativeAssumption DEF Init
    <2> QED BY <1>1, <1>3, <1>6, <1>9, <2>1 DEF ProgressInv, Generated, Ahead
  <1>12. RoundInv
    BY <1>9 DEF RoundInv, InRound
  <1>13. TargetInv
    BY <1>3, <1>9 DEF TargetInv, TargetState, InRound
  <1>14. AssistantInv
    BY <1>1, <1>6, <1>9 DEF AssistantInv
  <1> QED BY <1>10, <1>11, <1>12, <1>13, <1>14 DEF SpeculativeInv

-----------------------------------------------------------------------------
(* What the invariant says in a round. *)

LEMMA RoundFacts ==
  ASSUME SpeculativeInv, InRound
  PROVE  /\ BatchStart \in Nat /\ BatchStart \in 0 .. Len(emitted) /\ pos = BatchStart + checked
         /\ emitted \in Seq(Tokens) /\ draft \in Seq(Tokens) /\ checked \in 0 .. Len(draft)
         /\ pos \in Nat /\ pos <= Len(emitted) /\ limit \in Nat
         /\ cache_len \in Nat /\ cache.max_len = cache_len /\ dcache.max_len \in Nat
         /\ Len(draft) <= limit
         /\ BatchStart + limit <= cache_len /\ BatchStart + limit <= dcache.max_len
  <1>1. /\ emitted \in Seq(Tokens) /\ draft \in Seq(Tokens) /\ checked \in 0 .. Len(draft)
        /\ pos \in Nat /\ prompt_len \in 1 .. Len(emitted) /\ limit \in Nat
    BY DEF SpeculativeInv, TypeOK
  <1>2. /\ BatchStart \in prompt_len .. Len(emitted) /\ Len(draft) <= limit
        /\ BatchStart + limit <= cache_len /\ BatchStart + limit <= dcache.max_len
    BY DEF SpeculativeInv, RoundInv
  <1>3. pos <= Len(emitted) /\ cache.max_len = cache_len
    <2>1. pc # "done"
      BY DEF InRound
    <2> QED BY <1>1, <2>1 DEF SpeculativeInv, ProgressInv
  <1>4. cache_len \in Nat
    BY <1>1, CacheLen DEF cache_len
  <1>5. dcache.max_len \in Nat
    BY CacheFacts DEF SpeculativeInv, TypeOK
  <1> QED BY <1>1, <1>2, <1>3, <1>4, <1>5 DEF BatchStart

\* The text agrees with the draft as far as it was accepted.
LEMMA DraftedFacts ==
  ASSUME SpeculativeInv, InRound
  PROVE  /\ Drafted \in Seq(Tokens) /\ Len(Drafted) = BatchStart + Len(draft)
         /\ \A i \in 1 .. BatchStart : Drafted[i] = emitted[i]
         /\ \A i \in 1 .. Len(draft) : Drafted[BatchStart + i] = draft[i]
         /\ \A i \in 1 .. pos : Drafted[i] = emitted[i]
  <1>1. /\ Drafted \in Seq(Tokens) /\ Len(Drafted) = BatchStart + Len(draft)
        /\ \A i \in 1 .. BatchStart : Drafted[i] = emitted[i]
        /\ \A i \in 1 .. Len(draft) : Drafted[BatchStart + i] = draft[i]
    BY RoundFacts, JoinedFacts DEF Drafted
  <1>2. \A i \in 1 .. checked : emitted[BatchStart + i] = draft[i]
    BY DEF SpeculativeInv, RoundInv
  <1>3. ASSUME NEW i \in 1 .. pos
        PROVE  Drafted[i] = emitted[i]
    <2>1. CASE i <= BatchStart
      BY <1>1, <2>1, RoundFacts
    <2>2. CASE i > BatchStart
      <3>1. i - BatchStart \in 1 .. checked /\ BatchStart + (i - BatchStart) = i
        BY <2>2, RoundFacts
      <3>2. i - BatchStart \in 1 .. Len(draft)
        BY <3>1, RoundFacts
      <3> QED BY <1>1, <1>2, <3>1, <3>2
    <2> QED BY <2>1, <2>2, RoundFacts
  <1> QED BY <1>1, <1>3

\* The logits a draft token is compared with are those of the text.
LEMMA TargetRowFacts ==
  ASSUME SpeculativeInv, pc = "check"
  PROVE  /\ TargetRow \in Origins /\ emitted # Garbage /\ Len(emitted) = pos
         /\ checked + 1 \in 1 .. Len(draft) /\ draft[checked + 1] \in Tokens
         /\ KeepsRows => TargetRow = emitted
  <1>1. InRound
    BY DEF InRound
  <1>2. /\ emitted \in Seq(Tokens) /\ draft \in Seq(Tokens) /\ checked \in 0 .. Len(draft)
        /\ pos = BatchStart + checked /\ BatchStart \in Nat
    BY <1>1, RoundFacts
  <1>3. Len(emitted) = pos /\ checked < Len(draft) /\ (batched => Len(target_logits) = Len(draft))
    BY DEF SpeculativeInv, ProgressInv, RoundInv, Ahead
  <1>4. SubSeq(emitted, 1, Len(emitted)) = emitted
    BY <1>2, WholePrefix
  <1>5. TargetRow \in Origins
    <2>1. logits \in Origins /\ target_logits \in Seq(Origins)
      BY DEF SpeculativeInv, TypeOK
    <2> QED BY <1>2, <1>3, <2>1 DEF TargetRow
  <1>6. ASSUME KeepsRows
        PROVE  TargetRow = emitted
    <2>1. TargetState
      BY <1>6 DEF SpeculativeInv, TargetInv
    <2>2. CASE ~batched
      BY <2>1, <2>2 DEF TargetState, TargetRow
    <2>3. CASE batched /\ checked = 0
      BY <1>2, <1>3, <1>4, <2>1, <2>3 DEF TargetState, TargetRow
    <2>4. CASE batched /\ checked > 0
      <3>1. \A j \in 1 .. Len(target_logits) : target_logits[j] = SubSeq(Drafted, 1, BatchStart + j)
        BY <2>1, <2>4 DEF TargetState
      <3>2. checked \in 1 .. Len(target_logits)
        BY <1>2, <1>3, <2>4
      <3>3. TargetRow = SubSeq(Drafted, 1, pos)
        BY <1>2, <2>4, <3>1, <3>2 DEF TargetRow
      <3>4. SubSeq(Drafted, 1, pos) = SubSeq(emitted, 1, pos)
        <4>1. /\ Drafted \in Seq(Tokens) /\ pos \in Nat /\ pos <= Len(Drafted) /\ pos <= Len(emitted)
              /\ \A i \in 1 .. pos : Drafted[i] = emitted[i]
          BY <1>1, <1>2, <1>3, DraftedFacts
        <4> QED BY <1>2, <4>1, CommonPrefix
      <3> QED BY <1>3, <1>4, <3>3, <3>4
    <2> QED BY <1>2, <2>2, <2>3, <2>4
  <1>7. emitted # Garbage
    BY <1>2, CacheAssumption
  <1>8. checked + 1 \in 1 .. Len(draft) /\ draft[checked + 1] \in Tokens
    BY <1>2, <1>3
  <1> QED BY <1>3, <1>5, <1>6, <1>7, <1>8

\* At the end nothing is said of the caches but their sizes.
LEMMA DoneInv ==
  ASSUME SpeculativeInv, TypeOK', pc' = "done",
         UNCHANGED <<model, batched, cache, dcache, prompt_len>>
  PROVE  SpeculativeInv'
  <1>1. ProgressInv'
    BY DEF SpeculativeInv, ProgressInv, Ahead, cache_len
  <1>2. RoundInv' /\ TargetState' /\ AssistantInv'
    BY DEF RoundInv, TargetState, AssistantInv, InRound
  <1> QED BY <1>1, <1>2 DEF SpeculativeInv, TargetInv

-----------------------------------------------------------------------------
(* One lemma per action. *)

LEMMA StartDraftInv ==
  ASSUME ChoosesTokens, SpeculativeInv, StartDraft
  PROVE  SpeculativeInv'
  <1>1. /\ pc = "decode" /\ pc' = "draft" /\ limit' = DraftLimit
        /\ ssm_snapshot' = cache.ssm /\ assistant_ssm_snapshot' = dcache.ssm
        /\ target_logits' = <<>> /\ checked' = 0 /\ rejected' = FALSE
        /\ UNCHANGED <<model, drafter, batched, prompt_len, cache, logits, dcache, dlogits,
                       emitted, pos, draft_limit, enabled, replayed>>
    BY DEF StartDraft, setup, target, assistant
  <1>2. TypeOK /\ draft = <<>> /\ Len(emitted) = pos
    BY <1>1 DEF SpeculativeInv, RoundInv, ProgressInv, Ahead
  <1>3. /\ emitted \in Seq(Tokens) /\ prompt_len \in 1 .. Len(emitted) /\ pos \in Nat
        /\ cache_len \in Nat /\ dcache.max_len \in Nat /\ draft_limit \in Nat /\ MaxTokens \in Nat
    <2>1. emitted \in Seq(Tokens) /\ prompt_len \in 1 .. Len(emitted) /\ pos \in Nat
      BY <1>2 DEF TypeOK
    <2>2. cache_len \in Nat
      BY <2>1, CacheLen DEF cache_len
    <2>3. dcache.max_len \in Nat
      BY <1>2, CacheFacts DEF TypeOK
    <2>4. draft_limit \in Nat /\ MaxTokens \in Nat
      BY <1>2, SpeculativeAssumption DEF TypeOK, Larger
    <2> QED BY <2>1, <2>2, <2>3, <2>4
  <1>4. /\ limit' \in Nat /\ limit' >= 1 /\ (drafter = "native" => limit' >= 2)
        /\ pos + limit' <= cache_len /\ pos + limit' <= dcache.max_len
    <2>1. DraftLimit >= (IF drafter = "native" THEN 2 ELSE 1)
      BY DEF StartDraft, CanDraft
    <2>2. DraftLimit \in Int /\ DraftLimit <= cache_len - pos /\ DraftLimit <= dcache.max_len - pos
      BY <1>3 DEF DraftLimit, Least, Generated
    <2> QED BY <1>1, <1>3, <2>1, <2>2
  <1>5. /\ draft' \in Seq(Tokens) /\ Len(draft') < limit' /\ (drafter # "native" => draft' = <<>>)
    <2>1. CASE drafter # "native"
      <3>1. draft' = <<>>
        BY <2>1 DEF StartDraft
      <3> QED BY <1>4, <2>1, <3>1
    <2>2. CASE drafter = "native"
      <3>1. PICK token \in Argmax(logits) : draft' = <<token>>
        BY <2>2 DEF StartDraft
      <3>2. token \in Tokens
        BY <1>2, ChosenTokens DEF TypeOK
      <3> QED BY <1>4, <2>2, <3>1, <3>2
    <2> QED BY <2>1, <2>2
  <1>6. TypeOK'
    <2>1. cache.ssm \in Origins /\ dcache.ssm \in Origins
      BY <1>2, CacheFacts DEF TypeOK
    <2>2. rejected' \in BOOLEAN
      BY <1>1, Zenon
    <2>3. target_logits' \in Seq(Origins) /\ checked' \in 0 .. Len(draft')
      BY <1>1, <1>5
    <2>4. replayed' \in 0 .. Len(draft')
      BY <1>1, <1>2, <1>5 DEF TypeOK
    <2> QED BY <1>1, <1>2, <1>4, <1>5, <2>1, <2>2, <2>3, <2>4 DEF TypeOK
  <1>7. ProgressInv'
    BY <1>1 DEF SpeculativeInv, ProgressInv, Ahead, Generated, cache_len
  <1>8. BatchStart' = pos /\ InRound'
    BY <1>1, <1>3 DEF BatchStart, InRound
  <1>9. drafter # "native" => Holds(dcache, drafter, emitted, pos)
    <2>1. pos <= dcache.max_len /\ enabled
      BY <1>3, <1>4 DEF StartDraft, CanDraft
    <2> QED BY <1>1, <2>1 DEF SpeculativeInv, AssistantInv
  <1>10. RoundInv'
    <2>1. drafter = "hybrid" => assistant_ssm_snapshot' = SubSeq(emitted', 1, BatchStart')
      BY <1>1, <1>8, <1>9 DEF Holds
    <2>2. BatchStart' \in prompt_len' .. Len(emitted')
      BY <1>1, <1>2, <1>3, <1>8
    <2>3. /\ Len(draft') <= limit' /\ BatchStart' + limit' <= cache_len'
          /\ BatchStart' + limit' <= dcache'.max_len
      BY <1>1, <1>4, <1>5, <1>8 DEF cache_len
    <2> QED BY <1>1, <1>5, <2>1, <2>2, <2>3 DEF RoundInv
  <1>11. TargetInv'
    <2> SUFFICES ASSUME KeepsRows
                 PROVE  TargetState'
      BY <1>1 DEF TargetInv, KeepsRows
    <2>1. TargetHolds(cache, model, emitted, Len(emitted)) /\ logits = emitted
      BY <1>1 DEF SpeculativeInv, TargetInv, TargetState
    <2>2. model = "hybrid" => ssm_snapshot' = SubSeq(emitted', 1, BatchStart')
      BY <1>1, <1>2, <1>8, <2>1 DEF TargetHolds, Holds, KeepsRows
    <2> QED BY <1>1, <2>1, <2>2 DEF TargetState
  <1>12. AssistantInv'
    <2>1. ASSUME drafter # "native"
          PROVE  Holds(dcache', drafter', Drafted', pos' + Len(draft'))
      <3>1. draft' = <<>> /\ Len(draft') = 0
        BY <1>5, <2>1
      <3>2. /\ Drafted' \in Seq(Tokens) /\ Len(Drafted') = pos
            /\ \A i \in 1 .. pos : Drafted'[i] = emitted[i]
        <4>1. Drafted' = SubSeq(emitted, 1, pos) \o draft'
          BY <1>1, <1>8 DEF Drafted
        <4>2. pos \in 0 .. Len(emitted)
          BY <1>2, <1>3
        <4> QED BY <1>3, <1>5, <3>1, <4>1, <4>2, JoinedFacts
      <3>3. Holds(dcache, drafter, Drafted', pos)
        BY <1>2, <1>3, <1>9, <2>1, <3>2, HoldsCommonPrefix
      <3> QED BY <1>1, <1>3, <3>1, <3>3
    <2> QED BY <1>1, <2>1 DEF AssistantInv
  <1> QED BY <1>6, <1>7, <1>10, <1>11, <1>12 DEF SpeculativeInv

LEMMA DraftTokenInv ==
  ASSUME SpeculativeInv, NEW token \in Tokens, DraftToken(token)
  PROVE  SpeculativeInv'
  <1> DEFINE at == pos + Len(draft)
             last == token \in StopTokens \/ Len(draft) + 1 = limit
  <1>1. /\ pc = "draft" /\ draft' = Append(draft, token)
        /\ UNCHANGED <<model, drafter, batched, prompt_len, cache, logits, emitted, pos, draft_limit,
                       enabled, limit, target_logits, ssm_snapshot, assistant_ssm_snapshot,
                       checked, rejected, replayed>>
    BY DEF DraftToken, setup, target
  <1>2. \/ /\ last /\ pc' = IF batched THEN "verify" ELSE "check"
           /\ UNCHANGED <<dcache, dlogits>>
        \/ /\ ~last /\ pc' = "draft" /\ Len(draft) + 1 < limit
           /\ dcache' = Forward(dcache, drafter, token, at)
           /\ dlogits' = ForwardRow(dcache, drafter, token, at)
    BY <1>1 DEF DraftToken, assistant
  <1>3. /\ TypeOK /\ InRound /\ checked = 0 /\ Len(draft) < limit /\ target_logits = <<>>
        /\ Len(emitted) = pos
    BY <1>1 DEF SpeculativeInv, RoundInv, ProgressInv, Ahead, InRound
  <1>4. /\ BatchStart = pos /\ emitted \in Seq(Tokens) /\ draft \in Seq(Tokens)
        /\ pos \in Nat /\ limit \in Nat
        /\ cache_len \in Nat /\ cache.max_len = cache_len /\ dcache.max_len \in Nat
        /\ pos + limit <= cache_len /\ pos + limit <= dcache.max_len
    BY <1>3, RoundFacts
  <1>5. /\ Drafted \in Seq(Tokens) /\ Len(Drafted) = at
        /\ \A i \in 1 .. pos : Drafted[i] = emitted[i]
        /\ \A i \in 1 .. Len(draft) : Drafted[pos + i] = draft[i]
    BY <1>3, <1>4, DraftedFacts
  <1>6. /\ draft' \in Seq(Tokens) /\ Len(draft') = Len(draft) + 1 /\ draft'[Len(draft) + 1] = token
        /\ \A i \in 1 .. Len(draft) : draft'[i] = draft[i]
    BY <1>1, <1>4
  <1>7. BatchStart' = pos /\ InRound' /\ ~Ahead'
    BY <1>1, <1>2, <1>3, <1>4 DEF BatchStart, InRound, Ahead
  <1>8. /\ Drafted' \in Seq(Tokens) /\ Len(Drafted') = at + 1 /\ Drafted'[at + 1] = token
        /\ \A i \in 1 .. pos : Drafted'[i] = emitted[i]
        /\ \A i \in 1 .. at : Drafted'[i] = Drafted[i]
    <2>1. Drafted' = SubSeq(emitted, 1, pos) \o draft'
      BY <1>1, <1>7 DEF Drafted
    <2>2. pos \in 0 .. Len(emitted)
      BY <1>3, <1>4
    <2>3. /\ Drafted' \in Seq(Tokens) /\ Len(Drafted') = pos + Len(draft')
          /\ \A i \in 1 .. pos : Drafted'[i] = emitted[i]
          /\ \A i \in 1 .. Len(draft') : Drafted'[pos + i] = draft'[i]
      BY <1>4, <1>6, <2>1, <2>2, JoinedFacts
    <2>4. Len(draft) \in Nat /\ Len(Drafted') = at + 1 /\ Drafted'[at + 1] = token
      <3>1. Len(draft) + 1 \in 1 .. Len(draft') /\ pos + (Len(draft) + 1) = at + 1
        BY <1>4, <1>6
      <3>2. Drafted'[pos + (Len(draft) + 1)] = token
        BY <1>6, <2>3, <3>1
      <3> QED BY <1>4, <1>6, <2>3, <3>1, <3>2
    <2>5. ASSUME NEW i \in 1 .. at
          PROVE  Drafted'[i] = Drafted[i]
      <3>1. CASE i <= pos
        BY <1>4, <1>5, <2>3, <3>1
      <3>2. CASE i > pos
        <4>1. i - pos \in 1 .. Len(draft) /\ i - pos \in 1 .. Len(draft') /\ pos + (i - pos) = i
          BY <1>4, <1>6, <3>2
        <4> QED BY <1>5, <1>6, <2>3, <4>1
      <3> QED BY <1>4, <3>1, <3>2
    <2> QED BY <2>3, <2>4, <2>5
  <1>9. at \in Nat /\ at < dcache.max_len /\ Len(draft) \in Nat
    BY <1>3, <1>4
  <1>10. /\ CacheOK(dcache') /\ SameShape(dcache', dcache) /\ dlogits' \in Origins
    <2>1. CASE last
      BY <1>2, <1>3, <2>1 DEF TypeOK, SameShape
    <2>2. CASE ~last
      <3>1. InStorage(dcache, at) /\ CacheOK(dcache)
        BY <1>3, <1>9, PositionHasSlot DEF TypeOK
      <3> QED BY <1>2, <1>9, <2>2, <3>1, ForwardType
    <2> QED BY <2>1, <2>2
  <1>11. TypeOK'
    <2>1. checked' \in 0 .. Len(draft') /\ replayed' \in 0 .. Len(draft')
      BY <1>1, <1>3, <1>6, <1>9 DEF TypeOK
    <2>2. pc' \in {"draft", "verify", "check"}
      BY <1>2
    <2> QED BY <1>1, <1>3, <1>6, <1>10, <2>1, <2>2 DEF TypeOK
  <1>12. ProgressInv'
    <2>1. pc' # "done" /\ pc # "done" /\ ~Ahead
      BY <1>1, <1>2 DEF Ahead
    <2> QED BY <1>1, <1>7, <1>10, <2>1 DEF SpeculativeInv, ProgressInv, Generated, cache_len, SameShape
  <1>13. RoundInv'
    <2>1. /\ BatchStart \in prompt_len .. Len(emitted)
          /\ drafter = "hybrid" => assistant_ssm_snapshot = SubSeq(emitted, 1, BatchStart)
      BY <1>3 DEF SpeculativeInv, RoundInv
    <2>2. /\ BatchStart' + limit' <= cache_len' /\ BatchStart' + limit' <= dcache'.max_len
          /\ Len(draft') <= limit' /\ (pc' = "draft" => Len(draft') < limit')
          /\ checked' < Len(draft') /\ draft' # <<>>
      BY <1>1, <1>2, <1>3, <1>4, <1>6, <1>7, <1>9, <1>10 DEF SameShape, cache_len
    <2>3. \A i \in 1 .. checked' : emitted'[BatchStart' + i] = draft'[i]
      BY <1>1, <1>3
    <2>4. pc' = "verify" => batched'
      BY <1>1, <1>2
    <2>5. pc' \in {"draft", "verify", "check"} /\ (pc' = "check" => ~batched')
      BY <1>1, <1>2
    <2>6. Len(target_logits') = 0 /\ Len(draft') > 0
      BY <1>1, <1>3, <1>6, <1>9
    <2> HIDE DEF at, last
    <2> QED BY <1>1, <1>3, <1>4, <1>7, <2>1, <2>2, <2>3, <2>4, <2>5, <2>6 DEF RoundInv
  <1>14. TargetInv'
    <2> SUFFICES ASSUME KeepsRows
                 PROVE  TargetState'
      BY <1>1 DEF TargetInv, KeepsRows
    <2>1. /\ TargetHolds(cache, model, emitted, Len(emitted)) /\ logits = emitted
          /\ model = "hybrid" => ssm_snapshot' = SubSeq(emitted', 1, BatchStart')
      BY <1>1, <1>3, <1>4, <1>7 DEF SpeculativeInv, TargetInv, TargetState
    <2>2. TargetHolds(cache, model, Drafted', pos)
      <3>1. pos <= Len(Drafted') /\ pos <= Len(emitted) /\ Drafted' \in Seq(Tokens)
        BY <1>3, <1>4, <1>8, <1>9
      <3>2. \A i \in 1 .. pos : emitted[i] = Drafted'[i]
        BY <1>8
      <3>3. TargetHolds(cache, model, emitted, pos)
        BY <1>3, <2>1
      <3> HIDE DEF at, last
      <3> QED BY <1>4, <3>1, <3>2, <3>3, TargetCommonPrefix
    <2>3. Len(target_logits) = 0 /\ pos + Len(target_logits) = pos
      BY <1>3, <1>4
    <2>4. CASE pc' = "draft"
      BY <1>1, <2>1, <2>4 DEF TargetState
    <2>5. CASE pc' = "verify"
      BY <1>1, <2>1, <2>2, <2>3, <2>5 DEF TargetState
    <2>6. CASE pc' = "check"
      <3>1. ~batched /\ ~batched'
        BY <1>1, <1>2, <2>6
      <3>2. TargetHolds(cache, model, emitted, pos)
        BY <1>3, <2>1
      <3> QED BY <1>1, <2>1, <2>6, <3>1, <3>2 DEF TargetState
    <2> QED BY <1>2, <2>4, <2>5, <2>6
  <1>15. AssistantInv'
    <2> SUFFICES ASSUME drafter # "native"
                 PROVE  /\ pc' = "draft" => Holds(dcache', drafter, Drafted', pos + Len(draft'))
                        /\ pc' # "draft" =>
                             Holds(dcache', drafter, Drafted', pos + Len(draft') - 1)
      BY <1>1, <1>2, <1>7 DEF AssistantInv
    <2>1. Holds(dcache, drafter, Drafted, at)
      BY <1>1 DEF SpeculativeInv, AssistantInv
    <2>2. Holds(dcache, drafter, Drafted', at)
      BY <1>5, <1>8, <1>9, <2>1, HoldsCommonPrefix
    <2>3. CASE last
      <3>1. pos + Len(draft') - 1 = at
        BY <1>4, <1>6, <1>9
      <3> QED BY <1>2, <2>2, <2>3, <3>1
    <2>4. CASE ~last
      <3>1. at \in 0 .. Len(Drafted') - 1 /\ pos + Len(draft') = at + 1
        <4>1. Len(Drafted') = at + 1 /\ at = pos + Len(draft) /\ at \in Nat
          BY <1>4, <1>6, <1>8, <1>9
        <4>2. pos \in Nat /\ Len(draft) \in Nat /\ Len(draft') = Len(draft) + 1
          BY <1>4, <1>6
        <4> HIDE DEF at
        <4> QED BY <4>1, <4>2
      <3>2. Holds(Forward(dcache, drafter, Drafted'[at + 1], at), drafter, Drafted', at + 1)
        BY <1>8, <1>9, <2>2, <3>1, ForwardHolds
      <3> QED BY <1>2, <1>8, <2>4, <3>1, <3>2
    <2> QED BY <2>3, <2>4
  <1> QED BY <1>11, <1>12, <1>13, <1>14, <1>15 DEF SpeculativeInv

LEMMA VerifyBatchInv ==
  ASSUME SpeculativeInv, VerifyBatch
  PROVE  SpeculativeInv'
  <1> DEFINE end == pos + Len(draft)
             row(i) == cache'.rows[slot_for_pos(cache, pos + i - 1)]
  <1>1. /\ pc = "verify" /\ model = "batched" /\ pc' = "check"
        /\ cache' = ForwardBatch(cache, model, draft, pos)
        /\ target_logits' = [i \in 1 .. Len(draft) |-> row(i)]
        /\ UNCHANGED <<model, drafter, batched, prompt_len, logits, dcache, dlogits, emitted, pos,
                       draft_limit, enabled, limit, draft, ssm_snapshot, assistant_ssm_snapshot,
                       checked, rejected, replayed>>
    BY DEF VerifyBatch, setup, assistant
  <1>2. /\ TypeOK /\ InRound /\ checked = 0 /\ batched /\ Len(emitted) = pos
        /\ checked < Len(draft)
    BY <1>1 DEF SpeculativeInv, RoundInv, ProgressInv, Ahead, InRound
  <1>3. /\ BatchStart = pos /\ emitted \in Seq(Tokens) /\ draft \in Seq(Tokens) /\ draft # <<>>
        /\ pos \in Nat /\ end <= cache.max_len /\ Len(draft) \in Nat /\ Len(draft) > 0
        /\ cache.max_len \in Nat
    BY <1>2, RoundFacts
  <1>4. Drafted \in Seq(Tokens) /\ Len(Drafted) = end
    BY <1>2, <1>3, DraftedFacts
  <1>5. SubSeq(Drafted, pos + 1, end) = draft
    <2>1. \A i \in 1 .. Len(draft) : Drafted[pos + i] = draft[i]
      BY <1>2, <1>3, DraftedFacts
    <2> QED BY <1>3, <1>4, <2>1
  <1>6. CacheOK(cache) /\ model # "hybrid"
    BY <1>1, <1>2 DEF TypeOK
  <1>7. CacheOK(cache') /\ SameShape(cache', cache)
    <2>1. InStorage(cache, pos)
      BY <1>3, <1>6, PositionHasSlot
    <2> QED BY <1>1, <1>3, <1>6, <2>1, ForwardBatchType
  <1>8. \A i \in 1 .. Len(draft) : row(i) \in Origins
    <2> TAKE i \in 1 .. Len(draft)
    <2>1. pos + i - 1 \in Nat /\ pos + i - 1 < cache.max_len
      BY <1>3
    <2>2. slot_for_pos(cache, pos + i - 1) \in 0 .. cache.storage_len - 1
      BY <1>6, <2>1, PositionHasSlot, SlotInStorage
    <2>3. cache'.rows \in [0 .. cache.storage_len - 1 -> Origins]
      BY <1>7, CacheFacts DEF SameShape
    <2> QED BY <2>2, <2>3
  <1> HIDE DEF row, end
  <1>9. target_logits' \in Seq(Origins) /\ Len(target_logits') = Len(draft)
    BY <1>1, <1>3, <1>8
  <1>10. Drafted' = Drafted /\ BatchStart' = BatchStart /\ InRound' /\ ~Ahead /\ ~Ahead'
    BY <1>1 DEF Drafted, BatchStart, InRound, Ahead
  <1>11. TypeOK'
    BY <1>1, <1>2, <1>7, <1>9 DEF TypeOK
  <1>12. ProgressInv'
    BY <1>1, <1>7, <1>10 DEF SpeculativeInv, ProgressInv, Generated, cache_len, SameShape
  <1>13. RoundInv'
    BY <1>1, <1>2, <1>9, <1>10 DEF SpeculativeInv, RoundInv, cache_len
  <1>14. TargetInv'
    <2> SUFFICES ASSUME KeepsRows
                 PROVE  TargetState'
      BY <1>1, <1>7 DEF TargetInv, KeepsRows, SameShape
    <2>1. /\ TargetHolds(cache, model, Drafted, pos + Len(target_logits)) /\ logits = emitted
          /\ model = "hybrid" => ssm_snapshot = SubSeq(emitted, 1, BatchStart)
      BY <1>1, <1>2 DEF SpeculativeInv, TargetInv, TargetState
    <2>2. cache.sliding_window = 0 /\ cache'.sliding_window = 0
      BY <1>2, <1>7, BatchedKeeps DEF SameShape
    <2>3. \A p \in 0 .. end - 1 : cache'.rows[p] = Prefix(Drafted, p)
      <3>1. \A p \in 0 .. pos - 1 : cache.rows[p] = Prefix(Drafted, p)
        <4>1. \A p \in 0 .. pos - 1 : p \in 0 .. (pos + Len(target_logits)) - 1
          BY <1>2, <1>3 DEF TypeOK
        <4>2. Holds(cache, model, Drafted, pos + Len(target_logits))
          BY <2>1, <2>2 DEF TargetHolds
        <4>3. \A p \in 0 .. (pos + Len(target_logits)) - 1 : cache.rows[p] = Prefix(Drafted, p)
          BY <4>2 DEF Holds
        <4> QED BY <4>1, <4>3
      <3>2. pos \in 0 .. Len(Drafted) /\ end \in pos + 1 .. Len(Drafted)
        BY <1>3, <1>4 DEF end
      <3>3. \A p \in 0 .. end - 1 :
              ForwardBatch(cache, model, SubSeq(Drafted, pos + 1, end), pos).rows[p] = Prefix(Drafted, p)
        <4>1. end <= cache.max_len /\ Drafted \in Seq(Tokens)
          BY <1>3, <1>4
        <4> QED BY <1>6, <2>2, <3>1, <3>2, <4>1, ForwardBatchHolds
      <3> QED BY <1>1, <1>5, <3>3
    <2>4. \A i \in 1 .. Len(draft) : row(i) = SubSeq(Drafted, 1, pos + i)
      <3> TAKE i \in 1 .. Len(draft)
      <3>1. pos + i - 1 \in 0 .. end - 1 /\ (pos + i - 1) + 1 = pos + i
        BY <1>3 DEF end
      <3>2. slot_for_pos(cache, pos + i - 1) = pos + i - 1
        BY <2>2 DEF slot_for_pos
      <3> QED BY <2>3, <3>1, <3>2 DEF Prefix, row
    <2>5. logits = SubSeq(emitted, 1, BatchStart)
      BY <1>2, <1>3, <2>1, WholePrefix
    <2>6. TargetHolds(cache', model, Drafted, BatchStart + Len(draft))
      BY <1>3, <1>6, <1>7, <2>2, <2>3 DEF Holds, TargetHolds, end
    <2>7. \A j \in 1 .. Len(target_logits') : target_logits'[j] = SubSeq(Drafted, 1, BatchStart + j)
      BY <1>1, <1>3, <1>9, <2>4
    <2> QED BY <1>1, <1>2, <1>10, <2>1, <2>5, <2>6, <2>7 DEF TargetState
  <1>15. AssistantInv'
    BY <1>1, <1>10 DEF SpeculativeInv, AssistantInv
  <1> QED BY <1>11, <1>12, <1>13, <1>14, <1>15 DEF SpeculativeInv

LEMMA VerifyTokenInv ==
  ASSUME SpeculativeInv, VerifyToken
  PROVE  SpeculativeInv'
  <1> DEFINE n == Len(target_logits)
             at == pos + n
             row == ForwardRow(cache, model, draft[n + 1], at)
  <1>1. /\ pc = "verify"
        /\ cache' = Forward(cache, model, draft[n + 1], at)
        /\ target_logits' = Append(target_logits, row)
        /\ pc' = IF n + 1 = Len(draft) THEN "check" ELSE "verify"
        /\ UNCHANGED <<model, drafter, batched, prompt_len, logits, dcache, dlogits, emitted, pos,
                       draft_limit, enabled, limit, draft, ssm_snapshot, assistant_ssm_snapshot,
                       checked, rejected, replayed>>
    BY DEF VerifyToken, setup, assistant
  <1>2. /\ TypeOK /\ InRound /\ checked = 0 /\ batched /\ Len(emitted) = pos /\ n < Len(draft)
    BY <1>1 DEF SpeculativeInv, RoundInv, ProgressInv, Ahead, InRound
  <1>3. /\ BatchStart = pos /\ emitted \in Seq(Tokens) /\ draft \in Seq(Tokens)
        /\ target_logits \in Seq(Origins) /\ n \in Nat
        /\ pos \in Nat /\ pos + Len(draft) <= cache.max_len /\ Len(draft) \in Nat
        /\ cache.max_len \in Nat
    BY <1>2, RoundFacts DEF TypeOK
  <1>4. /\ Drafted \in Seq(Tokens) /\ Len(Drafted) = pos + Len(draft)
        /\ \A i \in 1 .. Len(draft) : Drafted[pos + i] = draft[i]
    BY <1>2, <1>3, DraftedFacts
  <1>5. /\ at \in Nat /\ at \in 0 .. Len(Drafted) - 1 /\ at < cache.max_len
        /\ Drafted[at + 1] = draft[n + 1]
    <2>1. n + 1 \in 1 .. Len(draft) /\ pos + (n + 1) = at + 1
      BY <1>2, <1>3
    <2> QED BY <1>2, <1>3, <1>4, <2>1
  <1>6. row \in Origins /\ CacheOK(cache') /\ SameShape(cache', cache)
    <2>1. CacheOK(cache)
      BY <1>2 DEF TypeOK
    <2>2. InStorage(cache, at) /\ draft[n + 1] \in Tokens
      BY <1>2, <1>3, <1>5, <2>1, PositionHasSlot
    <2> QED BY <1>1, <1>5, <2>1, <2>2, ForwardType
  <1> HIDE DEF row
  <1>7. /\ target_logits' \in Seq(Origins) /\ Len(target_logits') = n + 1
        /\ \A j \in 1 .. n : target_logits'[j] = target_logits[j]
        /\ target_logits'[n + 1] = row
    BY <1>1, <1>3, <1>6
  <1>8. Drafted' = Drafted /\ BatchStart' = BatchStart /\ InRound' /\ ~Ahead /\ ~Ahead'
    BY <1>1 DEF Drafted, BatchStart, InRound, Ahead
  <1>9. TypeOK'
    BY <1>1, <1>2, <1>6, <1>7 DEF TypeOK
  <1>10. ProgressInv'
    BY <1>1, <1>6, <1>8 DEF SpeculativeInv, ProgressInv, Generated, cache_len, SameShape
  <1>11. RoundInv'
    <2>1. /\ pc' = "verify" => Len(target_logits') < Len(draft)
          /\ pc' = "check" => Len(target_logits') = Len(draft)
          /\ pc' \in {"verify", "check"}
      BY <1>1, <1>2, <1>3, <1>7
    <2> QED BY <1>1, <1>2, <1>8, <2>1 DEF SpeculativeInv, RoundInv, cache_len
  <1>12. TargetInv'
    <2> SUFFICES ASSUME KeepsRows
                 PROVE  TargetState'
      BY <1>1, <1>6 DEF TargetInv, KeepsRows, SameShape
    <2>1. /\ TargetHolds(cache, model, Drafted, at) /\ logits = emitted
          /\ \A j \in 1 .. n : target_logits[j] = SubSeq(Drafted, 1, BatchStart + j)
          /\ model = "hybrid" => ssm_snapshot = SubSeq(emitted, 1, BatchStart)
      BY <1>1, <1>2 DEF SpeculativeInv, TargetInv, TargetState
    <2>2. row = SubSeq(Drafted, 1, at + 1) /\ TargetHolds(cache', model, Drafted, at + 1)
      <3>1. Drafted \in Seq(Tokens) /\ CacheOK(cache)
        BY <1>2, <1>4 DEF TypeOK
      <3> HIDE DEF at, n
      <3>2. /\ ForwardRow(cache, model, Drafted[at + 1], at) = SubSeq(Drafted, 1, at + 1)
            /\ TargetHolds(Forward(cache, model, Drafted[at + 1], at), model, Drafted, at + 1)
        BY <1>5, <2>1, <3>1, TargetEvaluates
      <3> QED BY <1>1, <1>5, <3>2 DEF row
    <2>3. \A j \in 1 .. n + 1 : target_logits'[j] = SubSeq(Drafted, 1, BatchStart + j)
      <3> TAKE j \in 1 .. n + 1
      <3>1. CASE j = n + 1
        <4>1. BatchStart + j = at + 1
          BY <1>3, <3>1
        <4> QED BY <1>7, <2>2, <3>1, <4>1
      <3>2. CASE j # n + 1
        <4>1. j \in 1 .. n
          BY <1>3, <3>2
        <4> QED BY <1>7, <2>1, <4>1
      <3> QED BY <3>1, <3>2
    <2>4. CASE pc' = "check"
      <3>1. logits = SubSeq(emitted, 1, BatchStart)
        BY <1>2, <1>3, <2>1, WholePrefix
      <3>2. at + 1 = BatchStart + Len(draft)
        BY <1>1, <1>3, <2>4
      <3> HIDE DEF n, at
      <3> QED BY <1>1, <1>2, <1>7, <1>8, <2>1, <2>2, <2>3, <2>4, <3>1, <3>2 DEF TargetState
    <2>5. CASE pc' = "verify"
      <3>1. at + 1 = pos + (n + 1)
        BY <1>3
      <3> HIDE DEF n, at
      <3> QED BY <1>1, <1>2, <1>7, <1>8, <2>1, <2>2, <2>3, <2>5, <3>1 DEF TargetState
    <2> QED BY <1>1, <2>4, <2>5
  <1>13. AssistantInv'
    BY <1>1, <1>8 DEF SpeculativeInv, AssistantInv
  <1> QED BY <1>9, <1>10, <1>11, <1>12, <1>13 DEF SpeculativeInv

\* A token is emitted: the round began where it began.
LEMMA EmitFacts ==
  ASSUME SpeculativeInv, NEW token \in Tokens, emitted' = Append(emitted, token),
         UNCHANGED prompt_len
  PROVE  /\ emitted' \in Seq(Tokens) /\ Len(emitted') = Len(emitted) + 1
         /\ emitted'[Len(emitted) + 1] = token
         /\ \A i \in 1 .. Len(emitted) : emitted'[i] = emitted[i]
         /\ prompt_len \in 1 .. Len(emitted')
         /\ \A n \in 0 .. Len(emitted) : SubSeq(emitted', 1, n) = SubSeq(emitted, 1, n)
  <1>1. emitted \in Seq(Tokens) /\ prompt_len \in 1 .. Len(emitted)
    BY DEF SpeculativeInv, TypeOK
  <1>2. \A n \in 0 .. Len(emitted) : SubSeq(emitted', 1, n) = SubSeq(emitted, 1, n)
    BY <1>1, AppendPrefix
  <1> QED BY <1>1, <1>2

LEMMA AcceptInv ==
  ASSUME SpeculativeInv, Accept
  PROVE  SpeculativeInv'
  <1>1. /\ pc = "check"
        /\ UNCHANGED <<model, drafter, batched, prompt_len, cache, logits, dcache, dlogits, limit,
                       draft, target_logits, ssm_snapshot, assistant_ssm_snapshot,
                       draft_limit, enabled, rejected, replayed>>
    BY DEF Accept, setup, target, assistant, round
  <1>2. \/ Exhausted /\ pc' = "done" /\ UNCHANGED <<pos, checked>>
        \/ ~Exhausted /\ batched /\ pos' = pos + 1 /\ checked' = checked + 1 /\ pc' = AfterAccept
        \/ ~Exhausted /\ ~batched /\ pc' = "forward" /\ UNCHANGED <<pos, checked>>
    BY DEF Accept
  <1>3. TypeOK /\ InRound
    BY <1>1 DEF SpeculativeInv, InRound
  <1>4. /\ Len(emitted) = pos /\ pos \in Nat /\ checked + 1 \in 1 .. Len(draft)
        /\ draft[checked + 1] \in Tokens
    BY <1>1, <1>3, TargetRowFacts DEF TypeOK
  <1> DEFINE token == draft[checked + 1]
  <1>5. emitted' = Append(emitted, token)
    BY DEF Accept
  <1>6. /\ emitted' \in Seq(Tokens) /\ Len(emitted') = pos + 1 /\ emitted'[pos + 1] = token
        /\ \A i \in 1 .. pos : emitted'[i] = emitted[i]
        /\ prompt_len' \in 1 .. Len(emitted')
        /\ \A n \in 0 .. pos : SubSeq(emitted', 1, n) = SubSeq(emitted, 1, n)
    BY <1>1, <1>4, <1>5, EmitFacts
  <1>7. CASE pc' = "done"
    <2>1. UNCHANGED <<pos, checked>>
      BY <1>2, <1>7 DEF AfterAccept
    <2>2. TypeOK'
      BY <1>1, <1>3, <1>6, <1>7, <2>1 DEF TypeOK
    <2> QED BY <1>1, <1>7, <2>2, DoneInv
  <1>8. CASE pc' # "done"
    <2>1. ~Exhausted /\ checked \in Nat /\ Len(draft) \in Nat
      BY <1>2, <1>3, <1>8 DEF TypeOK
    <2>2. /\ Len(emitted') - prompt_len' < MaxTokens /\ pos < cache_len /\ pos' <= cache_len'
          /\ pos' \in Nat /\ checked' \in 0 .. Len(draft')
      <3>1. Len(emitted') - prompt_len < MaxTokens /\ pos < cache_len
        <4>1. ~(Len(emitted') - prompt_len >= MaxTokens) /\ ~(pos >= cache_len)
          BY <2>1 DEF Exhausted
        <4>2. MaxTokens \in Nat /\ prompt_len \in Nat /\ cache_len \in Nat
          BY <1>3, RoundFacts, SpeculativeAssumption DEF TypeOK
        <4> QED BY <1>4, <1>6, <4>1, <4>2
      <3>2. cache_len' = cache_len /\ cache_len \in Nat
        BY <1>1, <1>3, RoundFacts DEF cache_len
      <3> QED BY <1>1, <1>2, <1>4, <1>8, <2>1, <3>1, <3>2
    <2>3. BatchStart' = BatchStart /\ BatchStart \in 0 .. pos /\ pos = BatchStart + checked
      <3>1. BatchStart \in Nat /\ pos = BatchStart + checked /\ BatchStart \in 0 .. Len(emitted)
        BY <1>3, RoundFacts
      <3>2. pos' - checked' = pos - checked
        BY <1>2, <1>4, <1>8, <2>1
      <3> QED BY <1>4, <3>1, <3>2 DEF BatchStart
    <2>4. Drafted' = Drafted /\ SubSeq(emitted', 1, BatchStart) = SubSeq(emitted, 1, BatchStart)
      BY <1>1, <1>6, <2>3 DEF Drafted
    <2>5. /\ Drafted \in Seq(Tokens) /\ Len(Drafted) = BatchStart + Len(draft)
          /\ \A i \in 1 .. pos : Drafted[i] = emitted[i]
      BY <1>3, DraftedFacts
    <2>6. pc' \in {"check", "finish", "forward"} /\ InRound'
      <3>1. draft # <<>>
        BY <1>4
      <3> QED BY <1>1, <1>2, <1>8, <3>1 DEF AfterAccept, InRound
    <2>7. TypeOK'
      BY <1>1, <1>3, <1>6, <2>2, <2>6 DEF TypeOK
    <2>8. ProgressInv'
      <3>1. Len(emitted') = IF Ahead' THEN pos' + 1 ELSE pos'
        BY <1>2, <1>6, <1>8 DEF Ahead, AfterAccept
      <3>2. Ahead' => pos' < cache_len'
        BY <1>1, <1>2, <1>8, <2>2 DEF Ahead, AfterAccept, cache_len
      <3> QED
        BY <1>1, <2>2, <3>1, <3>2 DEF SpeculativeInv, ProgressInv, Generated, cache_len
    <2>9. \A i \in 1 .. checked + 1 : emitted'[BatchStart + i] = draft[i]
      <3> TAKE i \in 1 .. checked + 1
      <3>1. CASE i = checked + 1
        <4>1. BatchStart + i = pos + 1
          BY <1>4, <2>3, <3>1, <2>1
        <4> QED BY <1>6, <3>1, <4>1
      <3>2. CASE i # checked + 1
        <4>1. i \in 1 .. checked /\ BatchStart + i \in 1 .. pos
          BY <1>4, <2>1, <2>3, <3>2
        <4>2. emitted[BatchStart + i] = draft[i]
          BY <1>3, <4>1 DEF SpeculativeInv, RoundInv
        <4> QED BY <1>6, <4>1, <4>2
      <3> QED BY <3>1, <3>2
    <2>10. checked' \in checked .. checked + 1
      BY <1>2, <1>8, <2>1
    <2>11. RoundInv'
      <3>1. /\ BatchStart \in prompt_len .. Len(emitted) /\ Len(draft) <= limit
            /\ BatchStart + limit <= cache_len /\ BatchStart + limit <= dcache.max_len
            /\ drafter = "hybrid" => assistant_ssm_snapshot = SubSeq(emitted, 1, BatchStart)
            /\ batched => Len(target_logits) = Len(draft)
        BY <1>1, <1>3 DEF SpeculativeInv, RoundInv
      <3>2. BatchStart \in prompt_len .. Len(emitted')
        BY <1>4, <1>6, <3>1
      <3>3. \A i \in 1 .. checked' : emitted'[BatchStart + i] = draft[i]
        <4>1. \A i \in 1 .. checked' : i \in 1 .. checked + 1
          BY <2>1, <2>10
        <4> QED BY <2>9, <4>1
      <3>4. /\ pc' = "check" => checked' < Len(draft)
            /\ pc' = "finish" => checked' = Len(draft) /\ draft # <<>>
            /\ pc' = "forward" => checked' < Len(draft) /\ ~batched
                                  /\ emitted'[Len(emitted')] = draft[checked' + 1]
        BY <1>2, <1>4, <1>6, <1>8, <2>1 DEF AfterAccept
      <3> QED BY <1>1, <2>3, <2>4, <2>6, <3>1, <3>2, <3>3, <3>4 DEF RoundInv, cache_len
    <2>12. TargetInv'
      <3> SUFFICES ASSUME KeepsRows
                   PROVE  TargetState'
        BY <1>1 DEF TargetInv, KeepsRows
      <3>1. TargetState
        BY DEF SpeculativeInv, TargetInv
      <3>2. model = "hybrid" => ssm_snapshot = SubSeq(emitted, 1, BatchStart)
        BY <1>3, <3>1 DEF TargetState
      <3>3. CASE batched
        <4>1. pc' \in {"check", "finish"}
          BY <1>2, <1>8, <3>3 DEF AfterAccept
        <4>2. /\ logits = SubSeq(emitted, 1, BatchStart)
              /\ TargetHolds(cache, model, Drafted, BatchStart + Len(draft))
              /\ \A j \in 1 .. Len(target_logits) :
                   target_logits[j] = SubSeq(Drafted, 1, BatchStart + j)
          BY <1>1, <3>1, <3>3 DEF TargetState
        <4> QED BY <1>1, <2>3, <2>4, <3>2, <3>3, <4>1, <4>2 DEF TargetState
      <3>4. CASE ~batched
        <4>1. pc' = "forward" /\ pos' = pos
          BY <1>2, <1>8, <3>4
        <4>2. TargetHolds(cache, model, emitted, pos)
          BY <1>1, <3>1, <3>4 DEF TargetState
        <4>3. TargetHolds(cache, model, emitted', pos)
          <5>1. emitted \in Seq(Tokens) /\ pos <= Len(emitted) /\ pos <= Len(emitted')
            BY <1>3, <1>4, <1>6 DEF TypeOK
          <5> QED BY <1>4, <1>6, <4>2, <5>1, TargetCommonPrefix
        <4> QED BY <1>1, <2>3, <2>4, <3>2, <4>1, <4>3 DEF TargetState
      <3> QED BY <1>3, <3>3, <3>4 DEF TypeOK
    <2>13. AssistantInv'
      <3>1. drafter # "native" => Holds(dcache, drafter, Drafted, BatchStart + Len(draft) - 1)
        BY <1>1 DEF SpeculativeInv, AssistantInv
      <3>2. draft # <<>>
        BY <1>4
      <3> QED BY <1>1, <2>3, <2>4, <2>6, <3>1, <3>2 DEF AssistantInv
    <2> QED BY <2>7, <2>8, <2>11, <2>12, <2>13 DEF SpeculativeInv
  <1> QED BY <1>7, <1>8

LEMMA StopInv ==
  ASSUME SpeculativeInv, CheckStop \/ SampleStop
  PROVE  SpeculativeInv'
  <1>1. /\ pc' = "done"
        /\ UNCHANGED <<model, drafter, batched, prompt_len, cache, logits, dcache, dlogits, limit,
                       draft, target_logits, ssm_snapshot, assistant_ssm_snapshot,
                       emitted, pos, draft_limit, enabled, checked, rejected, replayed>>
    BY DEF CheckStop, SampleStop, setup, target, assistant, round
  <1>2. TypeOK'
    BY <1>1 DEF SpeculativeInv, TypeOK
  <1> QED BY <1>1, <1>2, DoneInv

\* A cache holds the beginning of what it holds, once its recurrent state is
\* what it was there.
LEMMA HoldsBeginning ==
  ASSUME NEW kv, NEW m, NEW seq \in Seq(Tokens), NEW n \in 0 .. Len(seq), NEW k \in 0 .. n,
         Holds(kv, m, seq, n)
  PROVE  /\ m # "hybrid" => Holds(kv, m, seq, k)
         /\ \A ssm : ssm = SubSeq(seq, 1, k) =>
              /\ Holds([kv EXCEPT !.ssm = ssm], m, seq, k)
              /\ SameShape([kv EXCEPT !.ssm = ssm], kv)
  <1>1. CacheOK(kv) /\ kv.sliding_window = 0 /\ \A p \in 0 .. k - 1 : kv.rows[p] = Prefix(seq, p)
    <2>1. \A p \in 0 .. k - 1 : p \in 0 .. n - 1
      OBVIOUS
    <2> QED BY <2>1 DEF Holds
  <1>2. m # "hybrid" => Holds(kv, m, seq, k)
    BY <1>1 DEF Holds
  <1>3. ASSUME NEW ssm, ssm = SubSeq(seq, 1, k)
        PROVE  /\ Holds([kv EXCEPT !.ssm = ssm], m, seq, k)
               /\ SameShape([kv EXCEPT !.ssm = ssm], kv)
    <2>1. ssm \in Origins
      BY <1>3, PrefixFacts DEF Origins
    <2>2. [kv EXCEPT !.ssm = ssm] = Replaced(kv, kv.rows, ssm)
      BY <1>1 DEF CacheOK, Replaced
    <2>3. kv.rows \in [0 .. kv.storage_len - 1 -> Origins]
      BY <1>1, CacheFacts
    <2>4. /\ CacheOK(Replaced(kv, kv.rows, ssm)) /\ SameShape(Replaced(kv, kv.rows, ssm), kv)
          /\ Replaced(kv, kv.rows, ssm).rows = kv.rows /\ Replaced(kv, kv.rows, ssm).ssm = ssm
      BY <1>1, <2>1, <2>3, ReplaceRows
    <2> QED BY <1>1, <1>3, <2>2, <2>4 DEF Holds, SameShape
  <1> QED BY <1>2, <1>3

LEMMA RejectInv ==
  ASSUME ChoosesTokens, SpeculativeInv, Reject
  PROVE  SpeculativeInv'
  <1>1. /\ pc = "check" /\ rejected' = TRUE
        /\ pc' = IF Exhausted THEN "done" ELSE IF batched THEN "recover" ELSE "forward"
        /\ UNCHANGED <<model, drafter, batched, prompt_len, logits, dcache, dlogits, limit,
                       draft, target_logits, ssm_snapshot, assistant_ssm_snapshot, pos,
                       draft_limit, enabled, checked>>
    BY DEF Reject, setup, assistant, round
  <1>2. IF pc' = "recover" /\ model = "hybrid"
        THEN cache' = [cache EXCEPT !.ssm = ssm_snapshot] /\ replayed' = 0
        ELSE cache' = cache /\ replayed' = checked
    BY DEF Reject
  <1>3. TypeOK /\ InRound
    BY <1>1 DEF SpeculativeInv, InRound
  <1>4. /\ Len(emitted) = pos /\ pos \in Nat /\ checked + 1 \in 1 .. Len(draft)
        /\ TargetRow \in Origins
    BY <1>1, <1>3, TargetRowFacts DEF TypeOK
  <1>5. PICK token \in Tokens : emitted' = Append(emitted, token)
    <2>1. PICK token \in Argmax(TargetRow) : emitted' = Append(emitted, token)
      BY DEF Reject
    <2>2. token \in Tokens
      BY <1>4, <2>1, ChosenTokens
    <2> QED BY <2>1, <2>2
  <1>6. /\ emitted' \in Seq(Tokens) /\ Len(emitted') = pos + 1
        /\ \A i \in 1 .. pos : emitted'[i] = emitted[i]
        /\ prompt_len' \in 1 .. Len(emitted')
        /\ \A n \in 0 .. pos : SubSeq(emitted', 1, n) = SubSeq(emitted, 1, n)
    BY <1>1, <1>4, <1>5, EmitFacts
  <1>7. /\ BatchStart' = BatchStart /\ BatchStart \in 0 .. pos /\ pos = BatchStart + checked
        /\ checked \in Nat /\ checked < Len(draft) /\ Len(draft) \in Nat
    <2>1. BatchStart \in Nat /\ pos = BatchStart + checked /\ BatchStart \in 0 .. Len(emitted)
      BY <1>3, RoundFacts
    <2> QED BY <1>1, <1>3, <1>4, <2>1 DEF BatchStart, TypeOK
  <1>8. Drafted' = Drafted /\ SubSeq(emitted', 1, BatchStart) = SubSeq(emitted, 1, BatchStart)
    BY <1>1, <1>6, <1>7 DEF Drafted
  <1>9. /\ Drafted \in Seq(Tokens) /\ Len(Drafted) = BatchStart + Len(draft)
        /\ \A i \in 1 .. pos : Drafted[i] = emitted[i]
    BY <1>3, DraftedFacts
  <1>10. rejected' \in BOOLEAN
    BY <1>1, Zenon
  <1>11. CASE pc' = "done"
    <2>1. cache' = cache /\ replayed' = checked
      BY <1>2, <1>11
    <2>2. TypeOK'
      BY <1>1, <1>3, <1>6, <1>10, <1>11, <2>1 DEF TypeOK
    <2> QED BY <1>1, <1>11, <2>1, <2>2, DoneInv
  <1>12. CASE pc' # "done"
    <2>1. Len(emitted') - prompt_len < MaxTokens /\ pos < cache_len /\ ~Exhausted
      <3>1. ~(Len(emitted') - prompt_len >= MaxTokens) /\ ~(pos >= cache_len)
        BY <1>1, <1>12 DEF Exhausted
      <3>2. MaxTokens \in Nat /\ prompt_len \in Nat /\ cache_len \in Nat
        BY <1>3, RoundFacts, SpeculativeAssumption DEF TypeOK
      <3> QED BY <1>1, <1>4, <1>6, <1>12, <3>1, <3>2
    <2>2. /\ pc' \in {"recover", "forward"} /\ InRound' /\ Ahead'
          /\ (pc' = "recover" <=> batched) /\ draft # <<>>
      <3>1. draft # <<>>
        BY <1>4
      <3> QED BY <1>1, <1>3, <1>12, <2>1, <3>1 DEF InRound, Ahead, TypeOK
    <2>3. CacheOK(cache') /\ SameShape(cache', cache) /\ replayed' \in 0 .. checked
      <3>1. CacheOK(cache) /\ ssm_snapshot \in Origins
        BY <1>3 DEF TypeOK
      <3>2. CASE cache' = cache /\ replayed' = checked
        BY <1>7, <3>1, <3>2 DEF SameShape
      <3>3. CASE cache' = [cache EXCEPT !.ssm = ssm_snapshot] /\ replayed' = 0
        <4>1. CacheOK(cache') /\ SameShape(cache', cache)
          BY <3>1, <3>3 DEF CacheOK, SameShape
        <4> QED BY <1>7, <3>3, <4>1
      <3> QED BY <1>2, <3>2, <3>3
    <2>4. TypeOK'
      <3>1. replayed' \in 0 .. Len(draft')
        BY <1>1, <1>7, <2>3
      <3> QED BY <1>1, <1>3, <1>6, <1>10, <2>2, <2>3, <3>1 DEF TypeOK
    <2>5. ProgressInv'
      BY <1>1, <1>4, <1>6, <2>1, <2>2, <2>3
         DEF SpeculativeInv, ProgressInv, Generated, cache_len, SameShape
    <2>6. RoundInv'
      <3>1. /\ BatchStart \in prompt_len .. Len(emitted) /\ Len(draft) <= limit
            /\ BatchStart + limit <= cache_len /\ BatchStart + limit <= dcache.max_len
            /\ drafter = "hybrid" => assistant_ssm_snapshot = SubSeq(emitted, 1, BatchStart)
        BY <1>3 DEF SpeculativeInv, RoundInv
      <3>2. BatchStart \in prompt_len .. Len(emitted')
        BY <1>4, <1>6, <3>1
      <3>3. \A i \in 1 .. checked : emitted'[BatchStart + i] = draft[i]
        <4>1. \A i \in 1 .. checked : emitted[BatchStart + i] = draft[i]
          BY <1>3 DEF SpeculativeInv, RoundInv
        <4>2. \A i \in 1 .. checked : BatchStart + i \in 1 .. pos
          BY <1>7
        <4> QED BY <1>6, <4>1, <4>2
      <3>4. replayed' <= checked
        BY <1>7, <2>3
      <3> QED BY <1>1, <1>7, <1>8, <2>2, <3>1, <3>2, <3>3, <3>4 DEF RoundInv, cache_len
    <2>7. TargetInv'
      <3> SUFFICES ASSUME KeepsRows
                   PROVE  TargetState'
        BY <1>1, <2>3 DEF TargetInv, KeepsRows, SameShape
      <3>1. /\ model = "hybrid" => ssm_snapshot = SubSeq(emitted, 1, BatchStart)
            /\ batched => TargetHolds(cache, model, Drafted, BatchStart + Len(draft))
            /\ ~batched => TargetHolds(cache, model, emitted, pos)
        BY <1>1, <1>3 DEF SpeculativeInv, TargetInv, TargetState
      <3>2. CASE pc' = "forward"
        <4>1. cache' = cache /\ ~batched
          BY <1>2, <2>2, <3>2
        <4>2. TargetHolds(cache, model, emitted', pos)
          <5>1. emitted \in Seq(Tokens) /\ pos <= Len(emitted) /\ pos <= Len(emitted')
            BY <1>3, <1>4, <1>6 DEF TypeOK
          <5> QED BY <1>4, <1>6, <3>1, <4>1, <5>1, TargetCommonPrefix
        <4> QED BY <1>1, <1>7, <1>8, <2>2, <3>1, <3>2, <4>1, <4>2 DEF TargetState
      <3>3. CASE pc' = "recover"
        <4>1. cache.sliding_window = 0 /\ Holds(cache, model, Drafted, BatchStart + Len(draft))
          BY <2>2, <3>1, <3>3, BatchedKeeps DEF TargetHolds
        <4>2. BatchStart + Len(draft) \in 0 .. Len(Drafted) /\ BatchStart \in Nat
          BY <1>7, <1>9
        <4>3. Holds(cache', model, Drafted, BatchStart + replayed')
          <5>1. CASE model = "hybrid"
            <6>1. cache' = [cache EXCEPT !.ssm = ssm_snapshot] /\ replayed' = 0
              BY <1>2, <3>3, <5>1
            <6>2. ssm_snapshot = SubSeq(Drafted, 1, BatchStart)
              <7>1. BatchStart <= Len(Drafted) /\ BatchStart <= Len(emitted)
                BY <1>4, <1>7, <4>2
              <7>2. \A i \in 1 .. BatchStart : Drafted[i] = emitted[i]
                <8>1. \A i \in 1 .. BatchStart : i \in 1 .. pos
                  BY <1>4, <1>7
                <8> QED BY <1>9, <8>1
              <7>3. emitted \in Seq(Tokens)
                BY <1>3 DEF TypeOK
              <7> QED BY <1>9, <3>1, <4>2, <5>1, <7>1, <7>2, <7>3, CommonPrefix
            <6>3. BatchStart \in 0 .. BatchStart + Len(draft)
              BY <1>7
            <6>4. Holds(cache', model, Drafted, BatchStart)
              BY <1>9, <4>1, <4>2, <6>1, <6>2, <6>3, HoldsBeginning
            <6>5. BatchStart + replayed' = BatchStart
              BY <4>2, <6>1
            <6> QED BY <6>4, <6>5
          <5>2. CASE model # "hybrid"
            <6>1. cache' = cache /\ replayed' = checked
              BY <1>2, <5>2
            <6>2. pos \in 0 .. BatchStart + Len(draft)
              BY <1>7
            <6>3. Holds(cache, model, Drafted, pos)
              BY <1>9, <4>1, <4>2, <5>2, <6>2, HoldsBeginning
            <6> QED BY <1>7, <6>1, <6>3
          <5> QED BY <5>1, <5>2
        <4>4. BatchStart + replayed' \in Nat /\ BatchStart + replayed' <= pos /\ pos <= Len(Drafted)
          <5>1. Len(Drafted) = BatchStart + Len(draft)
            BY <1>9
          <5>2. pos <= Len(Drafted)
            BY <1>4, <1>7, <5>1
          <5>3. BatchStart + replayed' \in Nat /\ BatchStart + replayed' <= pos
            <6>1. replayed' \in 0 .. checked
              BY <2>3
            <6>2. BatchStart \in Nat /\ checked \in Nat
              BY <1>4, <1>7
            <6>3. \A b, c \in Nat : \A r \in 0 .. c : b + r \in Nat /\ b + r <= b + c
              OBVIOUS
            <6>4. BatchStart + replayed' \in Nat /\ BatchStart + replayed' <= BatchStart + checked
              BY <6>1, <6>2, <6>3, Zenon
            <6> QED BY <1>7, <6>4
          <5> QED BY <5>2, <5>3
        <4>5. Holds(cache', model, emitted', BatchStart + replayed')
          <5> DEFINE n == BatchStart + replayed'
          <5>1. \A i \in 1 .. n : Drafted[i] = emitted'[i]
            <6>1. \A i \in 1 .. n : i \in 1 .. pos
              BY <1>4, <4>4
            <6> QED BY <1>6, <1>9, <6>1
          <5>2. n \in Nat /\ n <= Len(Drafted) /\ n <= Len(emitted')
            BY <1>4, <1>6, <1>9, <4>4
          <5>3. Holds(cache', model, Drafted, n)
            BY <4>3
          <5> HIDE DEF n
          <5>4. Holds(cache', model, emitted', n)
            BY <1>6, <1>9, <5>1, <5>2, <5>3, HoldsCommonPrefix
          <5> QED BY <5>4 DEF n
        <4>6. TargetHolds(cache', model, emitted', BatchStart + replayed')
          BY <2>3, <4>1, <4>5 DEF TargetHolds, SameShape
        <4> QED BY <1>1, <1>7, <1>8, <2>2, <3>1, <3>3, <4>6 DEF TargetState
      <3> QED BY <2>2, <3>2, <3>3
    <2>8. AssistantInv'
      <3>1. drafter # "native" => Holds(dcache, drafter, Drafted, BatchStart + Len(draft) - 1)
        BY <1>1 DEF SpeculativeInv, AssistantInv
      <3> QED BY <1>1, <1>7, <1>8, <2>2, <3>1 DEF AssistantInv
    <2> QED BY <2>4, <2>5, <2>6, <2>7, <2>8 DEF SpeculativeInv
  <1> QED BY <1>11, <1>12

LEMMA ReplayInv ==
  ASSUME SpeculativeInv, Replay
  PROVE  SpeculativeInv'
  <1> DEFINE at == BatchStart + replayed
  <1>1. /\ pc = "recover" /\ pc' = pc /\ replayed < checked /\ replayed' = replayed + 1
        /\ cache' = Forward(cache, model, draft[replayed + 1], at)
        /\ UNCHANGED <<model, drafter, batched, prompt_len, logits, dcache, dlogits, limit,
                       draft, target_logits, ssm_snapshot, assistant_ssm_snapshot, emitted, pos,
                       draft_limit, enabled, checked, rejected>>
    BY DEF Replay, setup, assistant, round
  <1>2. TypeOK /\ InRound
    BY <1>1 DEF SpeculativeInv, InRound
  <1>3. /\ Len(emitted) = pos + 1 /\ pos < cache_len
        /\ checked < Len(draft) /\ batched
    BY <1>1 DEF SpeculativeInv, ProgressInv, RoundInv, Ahead
  <1>4. /\ pos = BatchStart + checked /\ BatchStart \in Nat /\ replayed \in Nat /\ checked \in Nat
        /\ emitted \in Seq(Tokens) /\ cache.max_len = cache_len /\ cache_len \in Nat /\ pos \in Nat
        /\ Len(draft) \in Nat
    BY <1>2, RoundFacts DEF TypeOK
  <1>5. at \in Nat /\ at \in 0 .. Len(emitted) - 1 /\ at < cache.max_len
    BY <1>1, <1>3, <1>4
  <1>6. emitted[at + 1] = draft[replayed + 1] /\ emitted[at + 1] \in Tokens
    <2>1. replayed + 1 \in 1 .. checked /\ BatchStart + (replayed + 1) = at + 1
      BY <1>1, <1>4
    <2>2. emitted[BatchStart + (replayed + 1)] = draft[replayed + 1]
      BY <1>2, <2>1 DEF SpeculativeInv, RoundInv
    <2> QED BY <1>4, <1>5, <2>1, <2>2
  <1>7. CacheOK(cache)
    BY <1>2 DEF TypeOK
  <1>8. CacheOK(cache') /\ SameShape(cache', cache)
    BY <1>1, <1>5, <1>6, <1>7, PositionHasSlot, ForwardType
  <1>9. Drafted' = Drafted /\ BatchStart' = BatchStart /\ InRound' /\ Ahead /\ Ahead'
    BY <1>1 DEF Drafted, BatchStart, InRound, Ahead
  <1>10. TypeOK'
    <2>1. replayed' \in 0 .. Len(draft')
      BY <1>1, <1>3, <1>4
    <2> QED BY <1>1, <1>2, <1>8, <2>1 DEF TypeOK
  <1>11. ProgressInv'
    BY <1>1, <1>8, <1>9 DEF SpeculativeInv, ProgressInv, Generated, cache_len, SameShape
  <1>12. RoundInv'
    <2>1. replayed' <= checked
      BY <1>1, <1>4
    <2> QED BY <1>1, <1>2, <1>3, <1>9, <2>1 DEF SpeculativeInv, RoundInv, cache_len
  <1>13. TargetInv'
    <2> SUFFICES ASSUME KeepsRows
                 PROVE  TargetState'
      BY <1>1, <1>8 DEF TargetInv, KeepsRows, SameShape
    <2>1. /\ TargetHolds(cache, model, emitted, at)
          /\ model = "hybrid" => ssm_snapshot = SubSeq(emitted, 1, BatchStart)
      BY <1>1, <1>2 DEF SpeculativeInv, TargetInv, TargetState
    <2>2. TargetHolds(cache', model, emitted, at + 1)
      BY <1>1, <1>4, <1>5, <1>6, <1>7, <2>1, TargetEvaluates
    <2>3. at + 1 = BatchStart' + replayed'
      BY <1>1, <1>4, <1>9
    <2> QED BY <1>1, <1>9, <2>1, <2>2, <2>3 DEF TargetState
  <1>14. AssistantInv'
    BY <1>1, <1>9 DEF SpeculativeInv, AssistantInv
  <1> QED BY <1>10, <1>11, <1>12, <1>13, <1>14 DEF SpeculativeInv

\* The target evaluates the last token of the text.
LEMMA TargetForward ==
  ASSUME SpeculativeInv, pc \in {"recover", "forward"},
         KeepsRows => TargetHolds(cache, model, emitted, pos),
         cache' = Forward(cache, model, emitted[Len(emitted)], pos),
         logits' = ForwardRow(cache, model, emitted[Len(emitted)], pos)
  PROVE  /\ CacheOK(cache') /\ SameShape(cache', cache) /\ logits' \in Origins
         /\ KeepsRows => TargetHolds(cache', model, emitted, Len(emitted)) /\ logits' = emitted
         /\ Len(emitted) = pos + 1 /\ emitted \in Seq(Tokens) /\ pos \in Nat
         /\ pos + 1 <= cache_len /\ cache_len \in Nat
  <1>1. /\ emitted \in Seq(Tokens) /\ pos \in Nat /\ prompt_len \in Nat /\ CacheOK(cache)
        /\ Len(emitted) = pos + 1 /\ pos < cache_len /\ cache.max_len = cache_len
    BY DEF SpeculativeInv, TypeOK, ProgressInv, Ahead
  <1>2. cache_len \in Nat
    BY <1>1, CacheLen DEF cache_len
  <1>3. pos \in 0 .. Len(emitted) - 1 /\ pos < cache.max_len /\ emitted[pos + 1] \in Tokens
    BY <1>1
  <1>4. CacheOK(cache') /\ SameShape(cache', cache) /\ logits' \in Origins
    BY <1>1, <1>3, PositionHasSlot, ForwardType
  <1>5. ASSUME KeepsRows
        PROVE  TargetHolds(cache', model, emitted, Len(emitted)) /\ logits' = emitted
    <2>1. logits' = SubSeq(emitted, 1, pos + 1) /\ TargetHolds(cache', model, emitted, pos + 1)
      BY <1>1, <1>3, <1>5, TargetEvaluates
    <2>2. SubSeq(emitted, 1, pos + 1) = emitted
      BY <1>1, WholePrefix
    <2> QED BY <1>1, <2>1, <2>2
  <1> QED BY <1>1, <1>2, <1>4, <1>5

\* The assistant's recurrent state goes back to where the round began, or its
\* rows are those of the accepted tokens.
LEMMA RestoreAssistantHolds ==
  ASSUME SpeculativeInv, InRound, pc \in {"recover", "forward"}, RestoreAssistant
  PROVE  /\ CacheOK(dcache') /\ SameShape(dcache', dcache)
         /\ replayed' \in 0 .. checked /\ checked \in Nat /\ checked < Len(draft)
         /\ drafter # "native" => Holds(dcache', drafter, emitted, BatchStart + replayed')
  <1>1. TypeOK /\ checked < Len(draft)
    <2>1. pc = "forward" => draft # <<>>
      BY DEF InRound
    <2> QED BY <2>1 DEF SpeculativeInv, RoundInv
  <1>2. /\ BatchStart \in Nat /\ pos = BatchStart + checked /\ checked \in Nat
        /\ Len(draft) \in Nat /\ pos <= Len(emitted) /\ emitted \in Seq(Tokens)
        /\ BatchStart \in 0 .. Len(emitted)
    BY <1>1, RoundFacts
  <1>3. /\ Drafted \in Seq(Tokens) /\ Len(Drafted) = BatchStart + Len(draft)
        /\ \A i \in 1 .. pos : Drafted[i] = emitted[i]
    BY DraftedFacts
  <1>4. drafter # "native" => Holds(dcache, drafter, Drafted, BatchStart + Len(draft) - 1)
    BY DEF SpeculativeInv, AssistantInv, InRound
  <1>5. BatchStart + Len(draft) - 1 \in 0 .. Len(Drafted)
    BY <1>1, <1>2, <1>3
  <1>6. CASE drafter = "hybrid"
    <2>1. dcache' = [dcache EXCEPT !.ssm = assistant_ssm_snapshot] /\ replayed' = 0
      BY <1>6 DEF RestoreAssistant
    <2>2. assistant_ssm_snapshot = SubSeq(Drafted, 1, BatchStart)
      <3>1. assistant_ssm_snapshot = SubSeq(emitted, 1, BatchStart)
        BY <1>6 DEF SpeculativeInv, RoundInv
      <3>2. /\ \A i \in 1 .. BatchStart : Drafted[i] = emitted[i]
            /\ BatchStart <= Len(Drafted) /\ BatchStart <= Len(emitted)
        BY <1>2, <1>3
      <3> QED BY <1>2, <1>3, <3>1, <3>2, CommonPrefix
    <2>3. Holds(dcache', drafter, Drafted, BatchStart) /\ SameShape(dcache', dcache)
      <3>1. BatchStart \in 0 .. BatchStart + Len(draft) - 1
        BY <1>1, <1>2
      <3>2. Holds(dcache, drafter, Drafted, BatchStart + Len(draft) - 1)
        BY <1>4, <1>6
      <3> QED BY <1>3, <1>5, <2>1, <2>2, <3>1, <3>2, HoldsBeginning
    <2>4. Holds(dcache', drafter, emitted, BatchStart)
      <3>1. /\ \A i \in 1 .. BatchStart : Drafted[i] = emitted[i]
            /\ BatchStart <= Len(Drafted) /\ BatchStart <= Len(emitted)
        BY <1>2, <1>3
      <3> QED BY <1>2, <1>3, <2>3, <3>1, HoldsCommonPrefix
    <2>5. BatchStart + replayed' = BatchStart /\ replayed' \in 0 .. checked
      BY <1>2, <2>1
    <2> QED BY <1>1, <1>2, <2>3, <2>4, <2>5 DEF Holds
  <1>7. CASE drafter # "hybrid"
    <2>1. dcache' = dcache /\ replayed' = checked
      BY <1>7 DEF RestoreAssistant
    <2>2. ASSUME drafter # "native"
          PROVE  Holds(dcache, drafter, emitted, pos)
      <3>1. pos \in 0 .. BatchStart + Len(draft) - 1
        BY <1>1, <1>2
      <3>2. Holds(dcache, drafter, Drafted, BatchStart + Len(draft) - 1)
        BY <1>4, <2>2
      <3>3. Holds(dcache, drafter, Drafted, pos)
        BY <1>3, <1>5, <1>7, <3>1, <3>2, HoldsBeginning
      <3>4. pos <= Len(Drafted) /\ pos <= Len(emitted) /\ pos \in Nat
        BY <1>1, <1>2, <1>3
      <3> QED BY <1>2, <1>3, <3>3, <3>4, HoldsCommonPrefix
    <2>3. CacheOK(dcache)
      BY <1>1 DEF TypeOK
    <2> QED BY <1>1, <1>2, <2>1, <2>2, <2>3 DEF SameShape
  <1> QED BY <1>6, <1>7

\* Both ways to put the target's token in the draft's place.
LEMMA CorrectedInv ==
  ASSUME SpeculativeInv, InRound, pc \in {"recover", "forward"},
         KeepsRows => TargetHolds(cache, model, emitted, pos),
         cache' = Forward(cache, model, emitted[Len(emitted)], pos),
         logits' = ForwardRow(cache, model, emitted[Len(emitted)], pos),
         RestoreAssistant, pc' = "assist",
         UNCHANGED <<model, drafter, batched, prompt_len, dlogits, limit, draft, target_logits,
                     ssm_snapshot, assistant_ssm_snapshot, emitted, pos, draft_limit, enabled,
                     checked, rejected>>
  PROVE  SpeculativeInv'
  <1>1. /\ CacheOK(cache') /\ SameShape(cache', cache) /\ logits' \in Origins
        /\ KeepsRows => TargetHolds(cache', model, emitted, Len(emitted)) /\ logits' = emitted
    BY TargetForward
  <1>2. /\ CacheOK(dcache') /\ SameShape(dcache', dcache)
        /\ replayed' \in 0 .. checked /\ checked \in Nat /\ checked < Len(draft)
        /\ drafter # "native" => Holds(dcache', drafter, emitted, BatchStart + replayed')
    BY RestoreAssistantHolds
  <1>3. BatchStart' = BatchStart /\ InRound' /\ Ahead /\ Ahead' /\ pc # "done"
    BY DEF BatchStart, InRound, Ahead
  <1>4. TypeOK'
    <2>1. replayed' \in 0 .. Len(draft') /\ TypeOK
      BY <1>2 DEF SpeculativeInv, TypeOK
    <2> QED BY <1>1, <1>2, <2>1 DEF TypeOK
  <1>5. ProgressInv'
    BY <1>1, <1>2, <1>3 DEF SpeculativeInv, ProgressInv, Generated, cache_len, SameShape
  <1>6. RoundInv'
    <2>1. replayed' <= checked
      BY <1>2
    <2> QED BY <1>2, <1>3, <2>1 DEF SpeculativeInv, RoundInv, cache_len, SameShape
  <1>7. TargetInv'
    <2> SUFFICES ASSUME KeepsRows
                 PROVE  TargetState'
      BY <1>1 DEF TargetInv, KeepsRows, SameShape
    <2>1. model = "hybrid" => ssm_snapshot = SubSeq(emitted, 1, BatchStart)
      BY DEF SpeculativeInv, TargetInv, TargetState
    <2> QED BY <1>1, <1>3, <2>1 DEF TargetState
  <1>8. AssistantInv'
    BY <1>2, <1>3 DEF AssistantInv
  <1> QED BY <1>4, <1>5, <1>6, <1>7, <1>8 DEF SpeculativeInv

LEMMA RecoverInv ==
  ASSUME SpeculativeInv, Recover
  PROVE  SpeculativeInv'
  <1>1. /\ pc = "recover" /\ replayed = checked /\ pc' = "assist" /\ RestoreAssistant
        /\ cache' = Forward(cache, model, emitted[Len(emitted)], BatchStart + checked)
        /\ logits' = ForwardRow(cache, model, emitted[Len(emitted)], BatchStart + checked)
        /\ UNCHANGED <<model, drafter, batched, prompt_len, dlogits, limit, draft, target_logits,
                       ssm_snapshot, assistant_ssm_snapshot, emitted, pos, draft_limit, enabled,
                       checked, rejected>>
    BY DEF Recover, setup, round
  <1>2. InRound
    BY <1>1 DEF InRound
  <1>3. BatchStart + checked = pos
    BY <1>2, RoundFacts
  <1>4. KeepsRows => TargetHolds(cache, model, emitted, pos)
    BY <1>1, <1>3 DEF SpeculativeInv, TargetInv, TargetState
  <1> QED BY <1>1, <1>2, <1>3, <1>4, CorrectedInv

LEMMA ForwardTokenInv ==
  ASSUME SpeculativeInv, ForwardToken
  PROVE  SpeculativeInv'
  <1>1. /\ pc = "forward"
        /\ cache' = Forward(cache, model, emitted[Len(emitted)], pos)
        /\ logits' = ForwardRow(cache, model, emitted[Len(emitted)], pos)
        /\ UNCHANGED <<model, drafter, batched, prompt_len, dlogits, limit, draft, target_logits,
                       ssm_snapshot, assistant_ssm_snapshot, emitted, draft_limit, enabled, rejected>>
    BY DEF ForwardToken, setup, round
  <1>2. TypeOK /\ (KeepsRows => TargetHolds(cache, model, emitted, pos))
    BY <1>1 DEF SpeculativeInv, TargetInv, TargetState
  <1>3. /\ CacheOK(cache') /\ SameShape(cache', cache) /\ logits' \in Origins
        /\ KeepsRows => TargetHolds(cache', model, emitted, Len(emitted)) /\ logits' = emitted
        /\ Len(emitted) = pos + 1 /\ emitted \in Seq(Tokens) /\ pos \in Nat
        /\ pos + 1 <= cache_len /\ cache_len \in Nat
    BY <1>1, <1>2, TargetForward
  <1>4. CASE draft = <<>> /\ pos' = pos + 1 /\ pc' = "decode" /\ UNCHANGED <<checked, dcache, replayed>>
    <2>1. TypeOK'
      BY <1>1, <1>2, <1>3, <1>4 DEF TypeOK
    <2>2. ProgressInv'
      BY <1>1, <1>3, <1>4 DEF SpeculativeInv, ProgressInv, Generated, cache_len, SameShape, Ahead
    <2>3. RoundInv'
      BY <1>1, <1>4 DEF RoundInv, InRound
    <2>4. TargetInv'
      <3> SUFFICES ASSUME KeepsRows
                   PROVE  TargetState'
        BY <1>1, <1>3 DEF TargetInv, KeepsRows, SameShape
      <3>1. ~InRound'
        BY <1>4 DEF InRound
      <3> QED BY <1>1, <1>3, <1>4, <3>1 DEF TargetState
    <2>5. AssistantInv'
      <3>1. drafter # "native" /\ enabled => pos >= dcache.max_len
        BY <1>1, <1>4 DEF SpeculativeInv, AssistantInv
      <3>2. dcache.max_len \in Nat
        BY <1>2, CacheFacts DEF TypeOK
      <3>3. drafter # "native" /\ enabled => ~(pos + 1 <= dcache.max_len)
        BY <1>3, <3>1, <3>2
      <3> QED BY <1>1, <1>4, <3>3 DEF AssistantInv
    <2> QED BY <2>1, <2>2, <2>3, <2>4, <2>5 DEF SpeculativeInv
  <1>5. CASE /\ draft # <<>> /\ ~rejected /\ pos' = pos + 1 /\ checked' = checked + 1
             /\ pc' = AfterAccept /\ UNCHANGED <<dcache, replayed>>
    <2>1. /\ InRound /\ checked < Len(draft) /\ ~batched
          /\ emitted[Len(emitted)] = draft[checked + 1]
      BY <1>1, <1>5 DEF SpeculativeInv, RoundInv, InRound
    <2>2. /\ BatchStart \in Nat /\ pos = BatchStart + checked /\ checked \in Nat /\ Len(draft) \in Nat
      BY <2>1, RoundFacts
    <2>3. /\ pc' \in {"check", "finish"} /\ InRound' /\ ~Ahead' /\ Ahead
          /\ (pc' = "check" => checked + 1 < Len(draft))
          /\ (pc' = "finish" => checked + 1 = Len(draft))
      BY <1>1, <1>5, <2>1, <2>2 DEF AfterAccept, InRound, Ahead
    <2>4. BatchStart' = BatchStart
      BY <1>3, <1>5, <2>2 DEF BatchStart
    <2>5. Drafted' = Drafted
      BY <1>1, <2>4 DEF Drafted
    <2>6. TypeOK'
      <3>1. checked' \in 0 .. Len(draft') /\ pos' \in Nat
        BY <1>1, <1>3, <1>5, <2>1, <2>2
      <3> QED BY <1>1, <1>2, <1>3, <1>5, <2>3, <3>1 DEF TypeOK
    <2>7. ProgressInv'
      <3>1. Len(emitted') = pos' /\ pos' <= cache_len'
        BY <1>1, <1>3, <1>5 DEF cache_len
      <3> QED BY <1>1, <1>3, <1>5, <2>3, <3>1 DEF SpeculativeInv, ProgressInv, Generated, cache_len, SameShape
    <2>8. RoundInv'
      <3>1. \A i \in 1 .. checked' : emitted[BatchStart + i] = draft[i]
        <4> TAKE i \in 1 .. checked'
        <4>1. CASE i = checked + 1
          <5>1. BatchStart + i = Len(emitted)
            BY <1>3, <2>2, <4>1
          <5> QED BY <2>1, <4>1, <5>1
        <4>2. CASE i # checked + 1
          <5>1. i \in 1 .. checked
            BY <1>5, <2>2, <4>2
          <5> QED BY <2>1, <5>1 DEF SpeculativeInv, RoundInv
        <4> QED BY <4>1, <4>2
      <3> QED BY <1>1, <1>5, <2>1, <2>3, <2>4, <3>1 DEF SpeculativeInv, RoundInv, cache_len
    <2>9. TargetInv'
      <3> SUFFICES ASSUME KeepsRows
                   PROVE  TargetState'
        BY <1>1, <1>3 DEF TargetInv, KeepsRows, SameShape
      <3>1. model = "hybrid" => ssm_snapshot = SubSeq(emitted, 1, BatchStart)
        BY <2>1 DEF SpeculativeInv, TargetInv, TargetState
      <3>2. TargetHolds(cache', model', emitted', pos')
        BY <1>1, <1>3, <1>5
      <3> QED BY <1>1, <1>3, <1>5, <2>1, <2>3, <2>4, <3>1, <3>2 DEF TargetState
    <2>10. AssistantInv'
      <3>1. drafter # "native" => Holds(dcache, drafter, Drafted, BatchStart + Len(draft) - 1)
        BY <1>1, <1>5 DEF SpeculativeInv, AssistantInv
      <3> QED BY <1>1, <1>5, <2>3, <2>4, <2>5, <3>1 DEF AssistantInv
    <2> QED BY <2>6, <2>7, <2>8, <2>9, <2>10 DEF SpeculativeInv
  <1>6. CASE draft # <<>> /\ RestoreAssistant /\ pc' = "assist" /\ UNCHANGED <<pos, checked>>
    <2>1. InRound
      BY <1>1, <1>6 DEF InRound
    <2> QED BY <1>1, <1>2, <1>6, <2>1, CorrectedInv
  <1> QED BY <1>4, <1>5, <1>6 DEF ForwardToken

LEMMA AssistantReplayInv ==
  ASSUME SpeculativeInv, AssistantReplay
  PROVE  SpeculativeInv'
  <1> DEFINE at == BatchStart + replayed
  <1>1. /\ pc = "assist" /\ pc' = pc /\ replayed < checked /\ replayed' = replayed + 1
        /\ dcache' = Forward(dcache, drafter, draft[replayed + 1], at)
        /\ UNCHANGED <<model, drafter, batched, prompt_len, cache, logits, dlogits, limit,
                       draft, target_logits, ssm_snapshot, assistant_ssm_snapshot, emitted, pos,
                       draft_limit, enabled, checked, rejected>>
    BY DEF AssistantReplay, setup, target, round
  <1>2. TypeOK /\ InRound
    BY <1>1 DEF SpeculativeInv, InRound
  <1>3. Len(emitted) = pos + 1 /\ checked < Len(draft)
    BY <1>1 DEF SpeculativeInv, ProgressInv, RoundInv, Ahead
  <1>4. /\ pos = BatchStart + checked /\ BatchStart \in Nat /\ replayed \in Nat /\ checked \in Nat
        /\ emitted \in Seq(Tokens) /\ pos \in Nat /\ Len(draft) \in Nat
        /\ dcache.max_len \in Nat /\ BatchStart + limit <= dcache.max_len
        /\ limit \in Nat /\ Len(draft) <= limit
    BY <1>2, RoundFacts DEF TypeOK
  <1>5. at \in Nat /\ at \in 0 .. Len(emitted) - 1 /\ at < dcache.max_len
    BY <1>1, <1>3, <1>4
  <1>6. emitted[at + 1] = draft[replayed + 1] /\ emitted[at + 1] \in Tokens
    <2>1. replayed + 1 \in 1 .. checked /\ BatchStart + (replayed + 1) = at + 1
      BY <1>1, <1>4
    <2>2. emitted[BatchStart + (replayed + 1)] = draft[replayed + 1]
      BY <1>2, <2>1 DEF SpeculativeInv, RoundInv
    <2>3. emitted[at + 1] \in Tokens
      <3>1. at + 1 \in 1 .. Len(emitted)
        BY <1>5
      <3> QED BY <1>4, <3>1
    <2> QED BY <2>1, <2>2, <2>3
  <1>7. ASSUME drafter # "native"
        PROVE  Holds(dcache', drafter, emitted, at + 1)
    <2>1. Holds(dcache, drafter, emitted, at)
      BY <1>1, <1>7 DEF SpeculativeInv, AssistantInv
    <2> QED BY <1>1, <1>4, <1>5, <1>6, <2>1, ForwardHolds
  <1>8. CacheOK(dcache') /\ SameShape(dcache', dcache)
    <2>1. CacheOK(dcache)
      BY <1>2 DEF TypeOK
    <2>2. InStorage(dcache, at)
      BY <1>5, <2>1, PositionHasSlot
    <2> QED BY <1>1, <1>5, <1>6, <2>1, <2>2, ForwardType
  <1>9. BatchStart' = BatchStart /\ InRound' /\ Ahead /\ Ahead'
    BY <1>1 DEF BatchStart, InRound, Ahead
  <1>10. TypeOK'
    <2>1. replayed' \in 0 .. Len(draft')
      BY <1>1, <1>3, <1>4
    <2> QED BY <1>1, <1>2, <1>8, <2>1 DEF TypeOK
  <1>11. ProgressInv'
    BY <1>1, <1>8, <1>9 DEF SpeculativeInv, ProgressInv, Generated, cache_len, SameShape
  <1>12. RoundInv'
    <2>1. replayed' <= checked
      BY <1>1, <1>4
    <2> QED BY <1>1, <1>2, <1>3, <1>8, <1>9, <2>1 DEF SpeculativeInv, RoundInv, cache_len, SameShape
  <1>13. TargetInv'
    BY <1>1, <1>2, <1>9 DEF SpeculativeInv, TargetInv, TargetState, KeepsRows
  <1>14. AssistantInv'
    <2>1. at + 1 = BatchStart' + replayed'
      BY <1>1, <1>4, <1>9
    <2> QED BY <1>1, <1>7, <2>1 DEF AssistantInv
  <1> QED BY <1>10, <1>11, <1>12, <1>13, <1>14 DEF SpeculativeInv

\* The assistant evaluates the token of the text at p.
LEMMA AssistantForwardHolds ==
  ASSUME CacheOK(dcache), dcache.sliding_window = 0, dlogits \in Origins,
         emitted \in Seq(Tokens), NEW p \in 0 .. Len(emitted) - 1, p < dcache.max_len,
         drafter # "native" => Holds(dcache, drafter, emitted, p),
         AssistantForward(emitted[p + 1], p)
  PROVE  /\ CacheOK(dcache') /\ SameShape(dcache', dcache) /\ dlogits' \in Origins
         /\ drafter # "native" => /\ Holds(dcache', drafter, emitted, p + 1)
                                  /\ dlogits' = SubSeq(emitted, 1, p + 1)
  <1>1. CASE drafter # "native"
    <2>1. /\ dcache' = Forward(dcache, drafter, emitted[p + 1], p)
          /\ dlogits' = ForwardRow(dcache, drafter, emitted[p + 1], p)
      BY <1>1 DEF AssistantForward
    <2>2. p \in Nat /\ emitted[p + 1] \in Tokens
      OBVIOUS
    <2>3. InStorage(dcache, p)
      BY <2>2, PositionHasSlot
    <2>4. CacheOK(dcache') /\ SameShape(dcache', dcache) /\ dlogits' \in Origins
      BY <2>1, <2>2, <2>3, ForwardType
    <2>5. Holds(dcache', drafter, emitted, p + 1) /\ dlogits' = SubSeq(emitted, 1, p + 1)
      BY <1>1, <2>1, ForwardHolds
    <2> QED BY <2>4, <2>5
  <1>2. CASE drafter = "native"
    BY <1>2 DEF AssistantForward, assistant, SameShape
  <1> QED BY <1>1, <1>2

LEMMA AssistantCorrectInv ==
  ASSUME SpeculativeInv, AssistantCorrect
  PROVE  SpeculativeInv'
  <1>1. /\ pc = "assist" /\ replayed = checked /\ pos' = pos + 1 /\ pc' = "adapt"
        /\ AssistantForward(emitted[Len(emitted)], pos)
        /\ UNCHANGED <<model, drafter, batched, prompt_len, cache, logits, limit,
                       draft, target_logits, ssm_snapshot, assistant_ssm_snapshot, emitted,
                       draft_limit, enabled, checked, rejected, replayed>>
    BY DEF AssistantCorrect, setup, target, round
  <1>2. TypeOK /\ InRound
    BY <1>1 DEF SpeculativeInv, InRound
  <1>3. Len(emitted) = pos + 1 /\ checked < Len(draft) /\ pos < cache_len
    BY <1>1 DEF SpeculativeInv, ProgressInv, RoundInv, Ahead
  <1>4. /\ pos = BatchStart + checked /\ BatchStart \in Nat /\ checked \in Nat
        /\ emitted \in Seq(Tokens) /\ pos \in Nat /\ Len(draft) \in Nat
        /\ dcache.max_len \in Nat /\ BatchStart + limit <= dcache.max_len
        /\ limit \in Nat /\ Len(draft) <= limit /\ cache_len \in Nat
    BY <1>2, RoundFacts DEF TypeOK
  <1>5. pos \in 0 .. Len(emitted) - 1 /\ pos < dcache.max_len
    BY <1>3, <1>4
  <1>6. SubSeq(emitted, 1, pos + 1) = emitted
    BY <1>3, <1>4, WholePrefix
  <1>7. drafter # "native" => Holds(dcache, drafter, emitted, pos)
    BY <1>1, <1>4 DEF SpeculativeInv, AssistantInv
  <1>8. /\ CacheOK(dcache') /\ SameShape(dcache', dcache) /\ dlogits' \in Origins
        /\ drafter # "native" => Holds(dcache', drafter, emitted, pos + 1) /\ dlogits' = emitted
    <2>1. CacheOK(dcache) /\ dcache.sliding_window = 0 /\ dlogits \in Origins
      BY <1>2 DEF TypeOK, SpeculativeInv, ProgressInv
    <2>2. AssistantForward(emitted[pos + 1], pos)
      BY <1>1, <1>3
    <2> QED BY <1>4, <1>5, <1>6, <1>7, <2>1, <2>2, AssistantForwardHolds
  <1>9. TypeOK'
    BY <1>1, <1>2, <1>4, <1>8 DEF TypeOK
  <1>10. ProgressInv'
    <2>1. pos' <= cache_len' /\ Len(emitted') = pos'
      BY <1>1, <1>3, <1>4 DEF cache_len
    <2> QED BY <1>1, <1>8, <2>1 DEF SpeculativeInv, ProgressInv, Generated, cache_len, SameShape, Ahead
  <1>11. RoundInv'
    BY <1>1 DEF RoundInv, InRound
  <1>12. TargetInv'
    BY <1>1 DEF SpeculativeInv, TargetInv, TargetState, KeepsRows, InRound
  <1>13. AssistantInv'
    BY <1>1, <1>8 DEF AssistantInv
  <1> QED BY <1>9, <1>10, <1>11, <1>12, <1>13 DEF SpeculativeInv

LEMMA FinishInv ==
  ASSUME SpeculativeInv, Finish
  PROVE  SpeculativeInv'
  <1>1. /\ pc = "finish" /\ pc' = "adapt"
        /\ logits' = IF batched THEN target_logits[Len(draft)] ELSE logits
        /\ AssistantForward(draft[Len(draft)], pos - 1)
        /\ UNCHANGED <<model, drafter, batched, prompt_len, cache, limit,
                       draft, target_logits, ssm_snapshot, assistant_ssm_snapshot, emitted, pos,
                       draft_limit, enabled, checked, rejected, replayed>>
    BY DEF Finish, setup, round
  <1>2. TypeOK /\ InRound
    BY <1>1 DEF SpeculativeInv, InRound
  <1>3. Len(emitted) = pos /\ checked = Len(draft) /\ draft # <<>> /\ pos <= cache_len
    BY <1>1 DEF SpeculativeInv, ProgressInv, RoundInv, Ahead
  <1>4. /\ pos = BatchStart + Len(draft) /\ BatchStart \in Nat
        /\ emitted \in Seq(Tokens) /\ draft \in Seq(Tokens) /\ pos \in Nat
        /\ Len(draft) \in Nat /\ Len(draft) > 0
        /\ dcache.max_len \in Nat /\ pos <= dcache.max_len
    <2>1. /\ pos = BatchStart + checked /\ BatchStart \in Nat
          /\ emitted \in Seq(Tokens) /\ draft \in Seq(Tokens) /\ pos \in Nat
          /\ dcache.max_len \in Nat /\ BatchStart + limit <= dcache.max_len
          /\ limit \in Nat /\ Len(draft) <= limit
      BY <1>2, RoundFacts
    <2> QED BY <1>3, <2>1
  <1>5. /\ Drafted \in Seq(Tokens) /\ Len(Drafted) = pos
        /\ \A i \in 1 .. pos : Drafted[i] = emitted[i]
    BY <1>2, <1>4, DraftedFacts
  <1>6. SubSeq(emitted, 1, pos) = emitted /\ SubSeq(Drafted, 1, pos) = emitted
    <2>1. SubSeq(emitted, 1, pos) = emitted
      BY <1>3, <1>4, WholePrefix
    <2>2. SubSeq(Drafted, 1, pos) = SubSeq(emitted, 1, pos)
      <3>1. pos <= Len(Drafted) /\ pos <= Len(emitted)
        BY <1>3, <1>4, <1>5
      <3> QED BY <1>4, <1>5, <3>1, CommonPrefix
    <2> QED BY <2>1, <2>2
  <1>7. ASSUME KeepsRows
        PROVE  TargetHolds(cache, model, emitted, pos) /\ logits' = emitted
    <2>1. TargetState
      BY <1>7 DEF SpeculativeInv, TargetInv
    <2>2. CASE batched
      <3>1. /\ Len(target_logits) = Len(draft)
            /\ TargetHolds(cache, model, Drafted, BatchStart + Len(draft))
            /\ \A j \in 1 .. Len(target_logits) : target_logits[j] = SubSeq(Drafted, 1, BatchStart + j)
        BY <1>1, <2>1, <2>2 DEF SpeculativeInv, RoundInv, TargetState
      <3>2. logits' = SubSeq(Drafted, 1, pos)
        <4>1. Len(draft) \in 1 .. Len(target_logits)
          BY <1>4, <3>1
        <4> QED BY <1>1, <1>4, <2>2, <3>1, <4>1
      <3>3. TargetHolds(cache, model, emitted, pos)
        <4>1. pos <= Len(Drafted) /\ pos <= Len(emitted) /\ TargetHolds(cache, model, Drafted, pos)
          BY <1>3, <1>4, <1>5, <3>1
        <4> QED BY <1>4, <1>5, <4>1, TargetCommonPrefix
      <3> QED BY <1>6, <3>2, <3>3
    <2>3. CASE ~batched
      BY <1>1, <2>1, <2>3 DEF TargetState
    <2> QED BY <2>2, <2>3
  <1>8. /\ CacheOK(dcache') /\ SameShape(dcache', dcache) /\ dlogits' \in Origins
        /\ drafter # "native" => Holds(dcache', drafter, emitted, pos) /\ dlogits' = emitted
    <2> DEFINE p == pos - 1
    <2>1. CacheOK(dcache) /\ dcache.sliding_window = 0 /\ dlogits \in Origins
      BY <1>2 DEF TypeOK, SpeculativeInv, ProgressInv
    <2>2. p \in 0 .. Len(emitted) - 1 /\ p < dcache.max_len /\ p + 1 = pos /\ p \in Nat
      BY <1>3, <1>4
    <2>3. emitted[p + 1] = draft[Len(draft)]
      <3>1. Len(draft) \in 1 .. checked
        BY <1>3, <1>4
      <3>2. emitted[BatchStart + Len(draft)] = draft[Len(draft)]
        BY <1>2, <3>1 DEF SpeculativeInv, RoundInv
      <3> QED BY <1>4, <2>2, <3>2
    <2>4. drafter # "native" => Holds(dcache, drafter, emitted, p)
      <3>1. drafter # "native" => Holds(dcache, drafter, Drafted, BatchStart + Len(draft) - 1)
        BY <1>1 DEF SpeculativeInv, AssistantInv
      <3>2. drafter # "native" => Holds(dcache, drafter, Drafted, p)
        BY <1>4, <3>1
      <3>3. /\ p <= Len(Drafted) /\ p <= Len(emitted)
            /\ \A i \in 1 .. p : Drafted[i] = emitted[i]
        BY <1>3, <1>4, <1>5
      <3> HIDE DEF p
      <3> QED BY <1>4, <1>5, <2>2, <3>2, <3>3, HoldsCommonPrefix
    <2>5. AssistantForward(emitted[p + 1], p)
      BY <1>1, <2>3
    <2> HIDE DEF p
    <2>6. /\ CacheOK(dcache') /\ SameShape(dcache', dcache) /\ dlogits' \in Origins
          /\ drafter # "native" => /\ Holds(dcache', drafter, emitted, p + 1)
                                   /\ dlogits' = SubSeq(emitted, 1, p + 1)
      BY <1>4, <2>1, <2>2, <2>4, <2>5, AssistantForwardHolds
    <2> QED BY <1>6, <2>2, <2>6
  <1>9. TypeOK'
    <2>1. logits' \in Origins
      <3>1. batched => Len(draft) \in 1 .. Len(target_logits)
        BY <1>1, <1>4 DEF SpeculativeInv, RoundInv
      <3>2. logits \in Origins /\ target_logits \in Seq(Origins)
        BY <1>2 DEF TypeOK
      <3> QED BY <1>1, <3>1, <3>2
    <2> QED BY <1>1, <1>2, <1>8, <2>1 DEF TypeOK
  <1>10. ProgressInv'
    BY <1>1, <1>8 DEF SpeculativeInv, ProgressInv, Generated, cache_len, SameShape, Ahead
  <1>11. RoundInv'
    BY <1>1 DEF RoundInv, InRound
  <1>12. TargetInv'
    BY <1>1, <1>3, <1>7 DEF TargetInv, TargetState, KeepsRows, InRound
  <1>13. AssistantInv'
    BY <1>1, <1>8 DEF AssistantInv
  <1> QED BY <1>9, <1>10, <1>11, <1>12, <1>13 DEF SpeculativeInv

LEMMA AdaptInv ==
  ASSUME SpeculativeInv, Adapt
  PROVE  SpeculativeInv'
  <1>1. /\ pc = "adapt" /\ pc' = "decode" /\ limit' = 0 /\ draft' = <<>> /\ target_logits' = <<>>
        /\ ssm_snapshot' = <<>> /\ assistant_ssm_snapshot' = <<>>
        /\ checked' = 0 /\ rejected' = FALSE /\ replayed' = 0
        /\ UNCHANGED <<model, drafter, batched, prompt_len, cache, logits, dcache, dlogits,
                       emitted, pos>>
    BY DEF Adapt, setup, target, assistant
  <1>2. \/ enabled' = FALSE /\ draft_limit' = draft_limit
        \/ enabled' = enabled /\ draft_limit' = AdaptedLimit
    BY DEF Adapt
  <1>3. TypeOK
    BY DEF SpeculativeInv
  <1>4. draft_limit' \in 1 .. Larger(MaxDraftTokens, 2)
    <2>1. draft_limit \in 1 .. Larger(MaxDraftTokens, 2)
      BY <1>3 DEF TypeOK
    <2>2. AdaptedLimit \in 1 .. Larger(MaxDraftTokens, 2)
      BY <2>1, SpeculativeAssumption DEF AdaptedLimit, Larger, Least
    <2> QED BY <1>2, <2>1, <2>2
  <1>5. enabled' \in BOOLEAN /\ rejected' \in BOOLEAN /\ (enabled' => enabled)
    <2>1. enabled \in BOOLEAN
      BY <1>3 DEF TypeOK
    <2>2. enabled' = FALSE \/ enabled' = enabled
      BY <1>2
    <2>3. enabled' \in BOOLEAN
      BY <2>1, <2>2, Zenon
    <2>4. enabled' => enabled
      BY <2>2, Zenon
    <2>5. rejected' = FALSE
      BY <1>1
    <2>6. rejected' \in BOOLEAN
      BY <2>5, Zenon
    <2> QED BY <2>3, <2>4, <2>6
  <1>6. TypeOK'
    <2>1. /\ draft' \in Seq(Tokens) /\ target_logits' \in Seq(Origins) /\ Len(draft') = 0
          /\ ssm_snapshot' \in Origins /\ assistant_ssm_snapshot' \in Origins
      BY <1>1 DEF Origins
    <2>2. checked' \in 0 .. Len(draft') /\ replayed' \in 0 .. Len(draft') /\ limit' \in Nat
      BY <1>1, <2>1
    <2> QED BY <1>1, <1>3, <1>4, <1>5, <2>1, <2>2 DEF TypeOK
  <1>7. ProgressInv'
    BY <1>1 DEF SpeculativeInv, ProgressInv, Generated, cache_len, Ahead
  <1>8. RoundInv'
    BY <1>1 DEF RoundInv, InRound
  <1>9. TargetInv'
    BY <1>1 DEF SpeculativeInv, TargetInv, TargetState, KeepsRows, InRound
  <1>10. AssistantInv'
    BY <1>1, <1>5 DEF SpeculativeInv, AssistantInv
  <1> QED BY <1>6, <1>7, <1>8, <1>9, <1>10 DEF SpeculativeInv

LEMMA SampleInv ==
  ASSUME ChoosesTokens, SpeculativeInv, Sample
  PROVE  SpeculativeInv'
  <1>1. /\ pc = "decode" /\ pc' = IF Exhausted THEN "done" ELSE "forward"
        /\ UNCHANGED <<model, drafter, batched, prompt_len, cache, logits, dcache, dlogits, limit,
                       draft, target_logits, ssm_snapshot, assistant_ssm_snapshot, pos,
                       draft_limit, enabled, checked, rejected, replayed>>
    BY DEF Sample, setup, target, assistant, round
  <1>2. /\ TypeOK /\ draft = <<>>
        /\ Len(emitted) = pos /\ Generated < MaxTokens /\ ~Ahead
    BY <1>1 DEF SpeculativeInv, RoundInv, ProgressInv, Ahead
  <1>3. /\ emitted \in Seq(Tokens) /\ prompt_len \in Nat /\ pos \in Nat /\ MaxTokens \in Nat
        /\ cache_len \in Nat
    <2>1. emitted \in Seq(Tokens) /\ prompt_len \in Nat /\ pos \in Nat
      BY <1>2 DEF TypeOK
    <2>2. cache_len \in Nat
      BY <2>1, CacheLen DEF cache_len
    <2>3. MaxTokens \in Nat
      BY SpeculativeAssumption
    <2> QED BY <2>1, <2>2, <2>3
  <1>4. PICK token \in Tokens : emitted' = Append(emitted, token)
    <2>1. PICK token \in Sampled(logits) : emitted' = Append(emitted, token)
      BY DEF Sample
    <2>2. token \in Tokens
      BY <1>2, <2>1, ChosenTokens DEF TypeOK
    <2> QED BY <2>1, <2>2
  <1>5. /\ emitted' \in Seq(Tokens) /\ Len(emitted') = pos + 1
        /\ \A i \in 1 .. pos : emitted'[i] = emitted[i]
        /\ prompt_len' \in 1 .. Len(emitted')
    BY <1>1, <1>2, <1>4, EmitFacts
  <1>6. TypeOK'
    BY <1>1, <1>2, <1>5 DEF TypeOK
  <1>7. CASE Exhausted
    BY <1>1, <1>6, <1>7, DoneInv
  <1>8. CASE ~Exhausted
    <2>1. Len(emitted') - prompt_len < MaxTokens /\ pos < cache_len
      <3>1. ~(Len(emitted') - prompt_len >= MaxTokens) /\ ~(pos >= cache_len)
        BY <1>8 DEF Exhausted
      <3> QED BY <1>3, <1>5, <3>1
    <2>2. pc' = "forward" /\ Ahead' /\ draft' = <<>> /\ ~InRound'
      BY <1>1, <1>2, <1>8 DEF Ahead, InRound
    <2>3. ProgressInv'
      <3>1. Len(emitted') = pos' + 1 /\ pos' <= cache_len' /\ pos' < cache_len'
        BY <1>1, <1>3, <1>5, <2>1 DEF cache_len
      <3> QED BY <1>1, <2>1, <2>2, <3>1 DEF SpeculativeInv, ProgressInv, Generated, cache_len
    <2>4. RoundInv'
      BY <2>2 DEF RoundInv
    <2>5. TargetInv'
      <3> SUFFICES ASSUME KeepsRows
                   PROVE  TargetState'
        BY <1>1 DEF TargetInv, KeepsRows
      <3>1. TargetHolds(cache, model, emitted, Len(emitted))
        BY <1>1 DEF SpeculativeInv, TargetInv, TargetState
      <3>2. TargetHolds(cache, model, emitted', pos)
        <4>1. pos <= Len(emitted) /\ pos <= Len(emitted') /\ TargetHolds(cache, model, emitted, pos)
          BY <1>2, <1>3, <1>5, <3>1
        <4> QED BY <1>3, <1>5, <4>1, TargetCommonPrefix
      <3> QED BY <1>1, <2>2, <3>2 DEF TargetState
    <2>6. AssistantInv'
      <3>1. ASSUME drafter # "native", enabled
            PROVE  pos >= dcache.max_len
        <4>1. ~CanDraft
          BY <3>1 DEF Sample, Fallback
        <4>2. ~(DraftLimit >= 1)
          BY <2>1, <3>1, <4>1 DEF CanDraft
        <4>3. dcache.max_len \in Nat /\ draft_limit \in Nat /\ draft_limit >= 1
          BY <1>2, CacheFacts, SpeculativeAssumption DEF TypeOK, Larger
        <4>4. MaxTokens - Generated >= 1 /\ MaxTokens - Generated \in Int /\ cache_len - pos >= 1
          BY <1>2, <1>3, <2>1 DEF Generated
        <4> HIDE DEF Generated
        <4> QED BY <1>3, <4>2, <4>3, <4>4 DEF DraftLimit, Least
      <3> QED BY <1>1, <2>2, <3>1 DEF AssistantInv
    <2> QED BY <1>6, <2>3, <2>4, <2>5, <2>6 DEF SpeculativeInv
  <1> QED BY <1>7, <1>8

\* Every step of the decode loop keeps the invariant.
LEMMA StepInv ==
  ASSUME ChoosesTokens, SpeculativeInv, [Next]_vars
  PROVE  SpeculativeInv'
  <1>1. CASE StartDraft
    BY <1>1, StartDraftInv
  <1>2. CASE \E token \in Tokens : DraftToken(token)
    BY <1>2, DraftTokenInv
  <1>3. CASE VerifyBatch
    BY <1>3, VerifyBatchInv
  <1>4. CASE VerifyToken
    BY <1>4, VerifyTokenInv
  <1>5. CASE CheckStop \/ SampleStop
    BY <1>5, StopInv
  <1>6. CASE Accept
    BY <1>6, AcceptInv
  <1>7. CASE Reject
    BY <1>7, RejectInv
  <1>8. CASE Replay
    BY <1>8, ReplayInv
  <1>9. CASE Recover
    BY <1>9, RecoverInv
  <1>10. CASE ForwardToken
    BY <1>10, ForwardTokenInv
  <1>11. CASE AssistantReplay
    BY <1>11, AssistantReplayInv
  <1>12. CASE AssistantCorrect
    BY <1>12, AssistantCorrectInv
  <1>13. CASE Finish
    BY <1>13, FinishInv
  <1>14. CASE Adapt
    BY <1>14, AdaptInv
  <1>15. CASE Sample
    BY <1>15, SampleInv
  <1>16. CASE UNCHANGED vars
    <2>1. /\ UNCHANGED <<model, drafter, batched, prompt_len, cache, logits, dcache, dlogits>>
          /\ UNCHANGED <<limit, draft, target_logits, ssm_snapshot, assistant_ssm_snapshot>>
          /\ UNCHANGED <<emitted, pos, draft_limit, enabled, checked, rejected, replayed, pc>>
      BY <1>16 DEF vars, setup, target, assistant, round
    <2>2. TypeOK'
      BY <2>1 DEF SpeculativeInv, TypeOK
    <2>3. ProgressInv'
      BY <2>1 DEF SpeculativeInv, ProgressInv, Generated, Ahead, cache_len
    <2>4. RoundInv'
      BY <2>1 DEF SpeculativeInv, RoundInv, InRound, BatchStart, cache_len
    <2>5. TargetInv'
      BY <2>1 DEF SpeculativeInv, TargetInv, TargetState, KeepsRows, Drafted, BatchStart, InRound
    <2>6. AssistantInv'
      BY <2>1 DEF SpeculativeInv, AssistantInv, Drafted, BatchStart
    <2> QED BY <2>2, <2>3, <2>4, <2>5, <2>6 DEF SpeculativeInv
  <1> QED BY <1>1, <1>2, <1>3, <1>4, <1>5, <1>6, <1>7, <1>8, <1>9, <1>10, <1>11, <1>12,
             <1>13, <1>14, <1>15, <1>16 DEF Next, Done

\* The invariant holds in every state.
THEOREM SpeculativeInvariant ==
  ASSUME ChoosesTokens
  PROVE  Spec => []SpeculativeInv
  <1> QED BY InitInv, StepInv, PTL DEF Spec

\* Neither the window nor what the target is changes.
LEMMA KeepsRowsStays ==
  ASSUME SpeculativeInv, KeepsRows, [Next]_vars
  PROVE  KeepsRows'
  <1>1. UNCHANGED <<model, batched>>
    BY DEF Next, StartDraft, DraftToken, VerifyBatch, VerifyToken, CheckStop, Accept, Reject, Replay,
           Recover, ForwardToken, AssistantReplay, AssistantCorrect, Finish, Adapt, SampleStop,
           Sample, Done, setup, vars
  <1>2. \/ cache' = cache
        \/ \E token, at : cache' = Forward(cache, model, token, at)
        \/ cache' = ForwardBatch(cache, model, draft, pos)
        \/ cache' = [cache EXCEPT !.ssm = ssm_snapshot]
    <2>1. CASE VerifyBatch
      BY <2>1 DEF VerifyBatch
    <2>2. CASE VerifyToken
      BY <2>2 DEF VerifyToken
    <2>3. CASE Reject
      BY <2>3 DEF Reject
    <2>4. CASE Replay
      BY <2>4 DEF Replay
    <2>5. CASE Recover
      BY <2>5 DEF Recover
    <2>6. CASE ForwardToken
      BY <2>6 DEF ForwardToken
    <2>7. CASE \/ StartDraft \/ (\E token \in Tokens : DraftToken(token)) \/ CheckStop \/ Accept
               \/ AssistantReplay \/ AssistantCorrect \/ Finish \/ Adapt \/ SampleStop \/ Sample
               \/ UNCHANGED vars
      BY <2>7 DEF StartDraft, DraftToken, CheckStop, Accept, AssistantReplay, AssistantCorrect, Finish,
                  Adapt, SampleStop, Sample, target, vars
    <2> QED BY <2>1, <2>2, <2>3, <2>4, <2>5, <2>6, <2>7 DEF Next, Done
  <1>3. CacheOK(cache)
    BY DEF SpeculativeInv, TypeOK
  <1>4. cache'.sliding_window = cache.sliding_window
    <2>1. CASE cache' = cache
      BY <2>1
    <2>2. CASE \E token, at : cache' = Forward(cache, model, token, at)
      BY <1>3, <2>2 DEF CacheOK, Forward, WriteRow
    <2>3. CASE cache' = ForwardBatch(cache, model, draft, pos)
      BY <1>3, <2>3 DEF CacheOK, ForwardBatch
    <2>4. CASE cache' = [cache EXCEPT !.ssm = ssm_snapshot]
      BY <1>3, <2>4 DEF CacheOK
    <2> QED BY <1>2, <2>1, <2>2, <2>3, <2>4
  <1> QED BY <1>1, <1>4 DEF KeepsRows

\* A target that keeps its rows at the beginning always does.
THEOREM RowsAreKept ==
  ASSUME ChoosesTokens
  PROVE  Spec /\ KeepsRows => [](SpeculativeInv /\ KeepsRows)
  <1> QED BY SpeculativeInvariant, KeepsRowsStays, PTL DEF Spec

-----------------------------------------------------------------------------
(* The properties. *)

\* Every variable keeps its type, and the draft limit its bounds
\* (generate_chat_stream and verify_batch, src/src/runtime.rs).
THEOREM TypeCorrect ==
  ASSUME ChoosesTokens
  PROVE  Spec => []TypeOK
  <1>1. SpeculativeInv => TypeOK
    BY DEF SpeculativeInv
  <1> QED BY <1>1, SpeculativeInvariant, PTL

\* When the loop comes round, the rows, the recurrent state and the logits of
\* both models are those of the accepted text: what verify_batch restores and
\* replays after a rejection is what it has to.  With a ring this takes a target
\* that evaluates no rejected token.
THEOREM ModelsCorrect ==
  ASSUME ChoosesTokens
  PROVE  Spec /\ KeepsRows => []ModelsInSync
  <1>1. ASSUME SpeculativeInv, KeepsRows, pc = "decode"
        PROVE  /\ logits = emitted /\ pos = Len(emitted)
               /\ \A p \in attention_start_pos(pos, cache.sliding_window) .. pos - 1 :
                    cache.rows[slot_for_pos(cache, p)] = Prefix(emitted, p)
               /\ model = "hybrid" => cache.ssm = emitted
    <2>1. /\ logits = emitted /\ TargetHolds(cache, model, emitted, Len(emitted))
          /\ pos = Len(emitted) /\ emitted \in Seq(Tokens) /\ pos <= cache.max_len /\ CacheOK(cache)
      BY <1>1 DEF SpeculativeInv, TypeOK, ProgressInv, TargetInv, TargetState, Ahead
    <2>2. pos \in Nat /\ cache.max_len \in Nat \ {0} /\ cache.sliding_window \in Nat
      BY <2>1, CacheFacts
    <2>3. CASE cache.sliding_window = 0
      <3>1. /\ \A p \in 0 .. pos - 1 : cache.rows[p] = Prefix(emitted, p)
            /\ model = "hybrid" => cache.ssm = SubSeq(emitted, 1, pos)
        BY <2>1, <2>3 DEF Holds, TargetHolds
      <3>2. SubSeq(emitted, 1, pos) = emitted
        BY <2>1, WholePrefix
      <3> QED BY <2>1, <2>3, <3>1, <3>2 DEF attention_start_pos, slot_for_pos
    <2>4. CASE cache.sliding_window # 0
      <3>1. RingHolds(cache, emitted, pos) /\ model # "hybrid"
        BY <1>1, <2>1, <2>4 DEF TargetHolds, KeepsRows
      <3>2. cache.storage_len = IF cache.sliding_window <= cache.max_len
                                THEN cache.sliding_window ELSE cache.max_len
        BY <2>1, <2>2, <2>4, CacheFacts DEF storage_len_for, Least
      <3>3. ASSUME NEW p \in attention_start_pos(pos, cache.sliding_window) .. pos - 1
            PROVE  cache.rows[slot_for_pos(cache, p)] = Prefix(emitted, p)
        <4>1. p \in 0 .. pos - 1 /\ pos <= p + cache.storage_len
          <5>1. pos + 1 <= p + cache.sliding_window \/ pos < cache.sliding_window
            BY <2>2, <2>4 DEF attention_start_pos
          <5>2. p \in 0 .. pos - 1
            BY <2>2, <2>4 DEF attention_start_pos
          <5> QED BY <2>1, <2>2, <3>2, <5>1, <5>2
        <4> QED BY <3>1, <4>1 DEF RingHolds
      <3> QED BY <2>1, <3>1, <3>3
    <2> QED BY <2>3, <2>4
  <1>2. ASSUME SpeculativeInv, pc = "decode", enabled, drafter # "native", pos <= dcache.max_len
        PROVE  dlogits = emitted /\ (drafter = "hybrid" => dcache.ssm = emitted)
    <2>1. /\ Holds(dcache, drafter, emitted, pos) /\ dlogits = emitted /\ pos = Len(emitted)
          /\ emitted \in Seq(Tokens)
      BY <1>2 DEF SpeculativeInv, TypeOK, ProgressInv, AssistantInv, Ahead
    <2>2. SubSeq(emitted, 1, pos) = emitted
      BY <2>1, WholePrefix
    <2> QED BY <2>1, <2>2 DEF Holds
  <1>3. SpeculativeInv /\ KeepsRows => ModelsInSync
    BY <1>1, <1>2 DEF ModelsInSync, TargetInSync, AssistantInSync
  <1> QED BY <1>3, RowsAreKept, PTL

\* No token is evaluated past the end of a cache: a draft is never longer
\* than what is left of either, and no token is emitted that would have to be
\* forwarded at a position there is not.
THEOREM CapacityCorrect ==
  ASSUME ChoosesTokens
  PROVE  Spec => []CapacityRespected
  <1>1. SpeculativeInv => CacheOK(cache) /\ CacheOK(dcache)
    BY DEF SpeculativeInv, TypeOK
  <1>2. ASSUME SpeculativeInv, pc \in {"draft", "verify"}
        PROVE  /\ pos = BatchStart /\ InRound
               /\ pos \in Nat /\ limit \in Nat /\ pos + limit <= cache.max_len
               /\ pos + limit <= dcache.max_len /\ Len(draft) \in Nat /\ Len(draft) <= limit
    <2>1. InRound /\ checked = 0
      BY <1>2 DEF SpeculativeInv, RoundInv, InRound
    <2> QED BY <1>2, <2>1, RoundFacts DEF BatchStart
  <1>3. ASSUME SpeculativeInv, pc = "draft"
        PROVE  InStorage(dcache, pos + limit - 1)
    <2>1. /\ pos \in Nat /\ limit \in Nat /\ Len(draft) \in Nat /\ Len(draft) < limit
          /\ pos + limit <= dcache.max_len
      BY <1>2, <1>3 DEF SpeculativeInv, RoundInv
    <2>2. dcache.max_len \in Nat
      BY <1>1, <1>3, CacheFacts
    <2>3. pos + limit - 1 \in Nat /\ pos + limit - 1 < dcache.max_len
      BY <2>1, <2>2
    <2> QED BY <1>1, <1>3, <2>3, PositionHasSlot
  <1>4. ASSUME SpeculativeInv, pc = "verify"
        PROVE  InStorage(cache, pos + Len(draft) - 1)
    <2>1. /\ pos \in Nat /\ limit \in Nat /\ Len(draft) \in Nat /\ Len(draft) > 0
          /\ Len(draft) <= limit /\ pos + limit <= cache.max_len
      BY <1>2, <1>4 DEF SpeculativeInv, TypeOK, RoundInv
    <2>2. cache.max_len \in Nat
      BY <1>1, <1>4, CacheFacts
    <2>3. pos + Len(draft) - 1 \in Nat /\ pos + Len(draft) - 1 < cache.max_len
      BY <2>1, <2>2
    <2> QED BY <1>1, <1>4, <2>3, PositionHasSlot
  <1>5. ASSUME SpeculativeInv, pc \in {"forward", "recover"}
        PROVE  InStorage(cache, pos)
    <2>1. pos \in Nat /\ pos < cache.max_len
      BY <1>5 DEF SpeculativeInv, TypeOK, ProgressInv, Ahead
    <2> QED BY <1>1, <1>5, <2>1, PositionHasSlot
  <1>6. SpeculativeInv => CapacityRespected
    BY <1>3, <1>4, <1>5 DEF CapacityRespected
  <1> QED BY <1>6, SpeculativeInvariant, PTL

-----------------------------------------------------------------------------
(* Drafting implements plain greedy decoding. *)

\* Emitting the greedy token is a step of the plain loop, and the text is
\* full there when this loop ends.
LEMMA EmitsPlain ==
  ASSUME SpeculativeInv, pc \in {"decode", "check"}, NEW token, token = GreedyToken(emitted),
         ~Plain!Stops(emitted, token), emitted' = Append(emitted, token),
         (pc' = "done") <=> Exhausted, UNCHANGED prompt_len
  PROVE  Plain!Emit
  <1>1. /\ pc # "done" /\ emitted \in Seq(Tokens) /\ pos = Len(emitted)
    BY DEF SpeculativeInv, TypeOK, ProgressInv, Ahead
  <1>2. Len(emitted') - 1 = pos
    BY <1>1
  <1>3. Plain!Full(emitted', prompt_len) <=> Exhausted
    BY <1>2 DEF Plain!Full, Exhausted, cache_len
  <1>4. Plain!Full(emitted', prompt_len) \in BOOLEAN
    BY DEF Plain!Full
  <1>5. (pc = "done")' = Plain!Full(emitted', prompt_len)
    BY <1>3, <1>4
  <1>6. Append(emitted, token) = Append(emitted, GreedyToken(emitted))
    OBVIOUS
  <1> QED BY <1>1, <1>5, <1>6, Zenon DEF Plain!Emit

\* Where the text stops, the plain loop stops.
LEMMA StopsPlain ==
  ASSUME pc \in {"decode", "check"}, Plain!Stops(emitted, GreedyToken(emitted)),
         pc' = "done", UNCHANGED <<emitted, prompt_len>>
  PROVE  Plain!Stop
  BY DEF Plain!Stop

\* A step is one of the plain loop, or changes nothing it sees.
LEMMA StepPlain ==
  ASSUME NoPenalty, SpeculativeInv, KeepsRows, [Next]_vars
  PROVE  [Plain!Next]_(Plain!vars)
  <1>1. ASSUME pc = "check", NEW token \in Argmax(TargetRow)
        PROVE  token = GreedyToken(emitted)
    <2>1. TargetRow = emitted /\ emitted # Garbage /\ emitted \in Seq(Tokens)
      BY <1>1, TargetRowFacts DEF SpeculativeInv, TypeOK
    <2>2. token = ArgmaxToken(emitted)
      BY <1>1, <2>1 DEF Argmax
    <2> QED BY <2>1, <2>2 DEF NoPenalty
  <1>2. ASSUME pc = "decode", NEW token \in Sampled(logits)
        PROVE  token = GreedyToken(emitted)
    <2>1. logits = emitted /\ emitted \in Seq(Tokens)
      BY <1>2 DEF SpeculativeInv, TypeOK, TargetInv, TargetState
    <2>2. emitted # Garbage
      BY <2>1, CacheAssumption
    <2> QED BY <1>2, <2>1, <2>2 DEF Sampled
  <1>3. CASE CheckStop
    <2>1. PICK token \in Argmax(TargetRow) : Plain!Stops(emitted, token)
      BY <1>3 DEF CheckStop
    <2>2. pc = "check" /\ pc' = "done" /\ UNCHANGED <<emitted, prompt_len>>
      BY <1>3 DEF CheckStop, setup
    <2>3. token = GreedyToken(emitted)
      BY <1>1, <2>2
    <2> QED BY <2>1, <2>2, <2>3, StopsPlain DEF Plain!Next
  <1>4. CASE SampleStop
    <2>1. PICK token \in Sampled(logits) : Plain!Stops(emitted, token)
      BY <1>4 DEF SampleStop
    <2>2. pc = "decode" /\ pc' = "done" /\ UNCHANGED <<emitted, prompt_len>>
      BY <1>4 DEF SampleStop, setup
    <2>3. token = GreedyToken(emitted)
      BY <1>2, <2>2
    <2> QED BY <2>1, <2>2, <2>3, StopsPlain DEF Plain!Next
  <1>5. CASE Accept
    <2>1. PICK token \in Argmax(TargetRow) : /\ ~Plain!Stops(emitted, token)
                                              /\ emitted' = Append(emitted, token)
      BY <1>5 DEF Accept
    <2>2. pc = "check" /\ UNCHANGED prompt_len /\ ((pc' = "done") <=> Exhausted)
      BY <1>5 DEF Accept, setup, AfterAccept
    <2>3. token = GreedyToken(emitted)
      BY <1>1, <2>2
    <2> QED BY <2>1, <2>2, <2>3, EmitsPlain DEF Plain!Next
  <1>6. CASE Reject
    <2>1. PICK token \in Argmax(TargetRow) : /\ ~Plain!Stops(emitted, token)
                                              /\ emitted' = Append(emitted, token)
      BY <1>6 DEF Reject
    <2>2. pc = "check" /\ UNCHANGED prompt_len /\ ((pc' = "done") <=> Exhausted)
      BY <1>6 DEF Reject, setup
    <2>3. token = GreedyToken(emitted)
      BY <1>1, <2>2
    <2> QED BY <2>1, <2>2, <2>3, EmitsPlain DEF Plain!Next
  <1>7. CASE Sample
    <2>1. PICK token \in Sampled(logits) : /\ ~Plain!Stops(emitted, token)
                                            /\ emitted' = Append(emitted, token)
      BY <1>7 DEF Sample
    <2>2. pc = "decode" /\ UNCHANGED prompt_len /\ ((pc' = "done") <=> Exhausted)
      BY <1>7 DEF Sample, setup
    <2>3. token = GreedyToken(emitted)
      BY <1>2, <2>2
    <2> QED BY <2>1, <2>2, <2>3, EmitsPlain DEF Plain!Next
  <1>8. CASE \/ StartDraft \/ (\E token \in Tokens : DraftToken(token))
             \/ VerifyBatch \/ VerifyToken \/ Replay \/ Recover \/ ForwardToken
             \/ AssistantReplay \/ AssistantCorrect \/ Finish \/ Adapt \/ UNCHANGED vars
    <2>1. UNCHANGED <<emitted, prompt_len>> /\ ((pc' = "done") <=> (pc = "done"))
      BY <1>8 DEF StartDraft, DraftToken, VerifyBatch, VerifyToken, Replay, Recover, ForwardToken,
           AssistantReplay, AssistantCorrect, Finish, Adapt, AfterAccept, setup, vars
    <2> QED BY <2>1 DEF Plain!vars
  <1> QED BY <1>3, <1>4, <1>5, <1>6, <1>7, <1>8 DEF Next, Done

\* "Exact target-model verification" (docs/MTP.md): whatever the assistant
\* proposes, the text grows by the target's greedy tokens, one after the other,
\* and stops where it would stop without drafts.  The safety half of
\* ImplementsGreedy; that the text does end is TLC's.
THEOREM TextIsGreedy ==
  ASSUME ChoosesTokens, NoPenalty
  PROVE  Spec /\ KeepsRows => Plain!Init /\ [][Plain!Next]_(Plain!vars)
  <1>1. Init => Plain!Init
    BY DEF Init, Plain!Init
  <1> QED BY <1>1, RowsAreKept, StepPlain, PTL DEF Spec
=============================================================================
