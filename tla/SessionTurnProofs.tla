------------------------- MODULE SessionTurnProofs -------------------------
(***************************************************************************)
(* Proofs about the session turns: for every capacity, set of windows,     *)
(* chunk size and set of prompts, a session keeps its types, and as long   *)
(* as its cache has no sliding window the rows and the recurrent state are *)
(* those of the session's tokens, so that reusing them is invisible.       *)
(***************************************************************************)
EXTENDS SessionTurn, KVCacheProofs

-----------------------------------------------------------------------------
(* Type correctness. *)

LEMMA InitShape == Init => ShapeInv
  <1> SUFFICES ASSUME Init PROVE ShapeInv
    OBVIOUS
  <1>1. CacheOK(kv_cache) /\ kv_cache.max_len = MaxLen /\ kv_cache.sliding_window \in Windows
    BY NewCacheFacts, SessionAssumption DEF Init
  <1>2. model \in ModelKinds
    BY SessionAssumption DEF Init
  <1>3. last_logits \in Logits /\ logits \in Logits
    BY DEF Init, Logits
  <1>4. cached_tokens \in Seq(Tokens) /\ tokens \in Seq(Tokens)
    BY DEF Init
  <1> QED BY <1>1, <1>2, <1>3, <1>4 DEF Init, ShapeInv, TypeOK, ProgressInv, LogitsHeldInv

\* What the beginning of a turn does with the cache and the positions.
LEMMA BeginTurnFacts ==
  ASSUME ShapeInv, NEW prompt \in Prompts, NEW window \in Windows, NEW m \in 1 .. MaxTokens,
         BeginTurn(prompt, window, m)
  PROVE  /\ prompt \in Seq(Tokens) /\ prompt # <<>> /\ Len(prompt) \in Nat \ {0}
         /\ CacheOK(kv_cache') /\ kv_cache'.max_len = MaxLen
         /\ kv_cache'.sliding_window = window
         /\ fed' \in Nat /\ prefix_len' \in Nat
         /\ pc' = "prefill" => prefix_len' <= fed' /\ fed' <= Len(prompt) - 1
         /\ pc' = "sample" => last_logits # NoLogits /\ cached_tokens' = prompt
         /\ pc' \in {"prefill", "sample"}
         /\ cached_tokens' \in Seq(Tokens)
         /\ logits' \in {NoLogits, last_logits} /\ last_logits' \in {NoLogits, last_logits}
  <1>1. prompt \in Seq(Tokens) /\ prompt # <<>> /\ Len(prompt) \in Nat \ {0}
    BY SessionAssumption
  <1>2. PICK n \in 0 .. Len(prompt) :
          LET reset == MustReset(prompt, window, n)
              cache == set_sliding_window(kv_cache, window)
              reuse == n = Len(prompt) /\ last_logits # NoLogits /\ ~reset
          IN  /\ longest_common_prefix(prompt, cached_tokens, n)
              /\ kv_cache' = IF reset THEN [cache EXCEPT !.ssm = <<>>] ELSE cache
              /\ prefix_len' = IF reset THEN 0 ELSE n
              /\ \/ /\ reuse
                    /\ logits' = last_logits
                    /\ last_logits' = NoLogits
                    /\ fed' = n
                    /\ cached_tokens' = prompt
                    /\ pc' = "sample"
                 \/ /\ ~reuse
                    /\ logits' = NoLogits
                    /\ last_logits' = IF reset THEN NoLogits ELSE last_logits
                    /\ fed' = Least(prefix_len', Len(prompt) - 1)
                    /\ cached_tokens' = IF reset THEN <<>> ELSE cached_tokens
                    /\ pc' = "prefill"
    BY DEF BeginTurn
  <1> DEFINE reset == MustReset(prompt, window, n)
             cache == set_sliding_window(kv_cache, window)
  <1>3. CacheOK(cache) /\ cache.sliding_window = window /\ cache.max_len = MaxLen
    BY SetWindowFacts, SessionAssumption DEF ShapeInv, TypeOK
  <1>4. CacheOK(kv_cache') /\ kv_cache'.sliding_window = window /\ kv_cache'.max_len = MaxLen
    <2> HIDE DEF cache
    <2>1. CacheOK([cache EXCEPT !.ssm = <<>>]) /\ SameShape([cache EXCEPT !.ssm = <<>>], cache)
      BY <1>3, ResetFacts
    <2> QED BY <1>2, <1>3, <2>1 DEF SameShape, cache
  <1>5. cached_tokens \in Seq(Tokens) /\ pc = "idle"
    BY DEF ShapeInv, TypeOK, BeginTurn
  <1>6. prefix_len' \in Nat /\ fed' \in Nat
    BY <1>1, <1>2 DEF Least
  <1>7. pc' = "prefill" => prefix_len' <= fed' /\ fed' <= Len(prompt) - 1
    <2> SUFFICES ASSUME pc' = "prefill" PROVE prefix_len' <= fed' /\ fed' <= Len(prompt) - 1
      OBVIOUS
    <2>1. CASE prefix_len' < Len(prompt)
      BY <2>1, <1>1, <1>2 DEF Least
    <2>2. CASE ~(prefix_len' < Len(prompt))
      \* The session would hold the whole prompt but no logits.
      <3>1. ~reset /\ n = Len(prompt) /\ last_logits = NoLogits
        BY <2>2, <1>1, <1>2
      <3>2. cached_tokens = <<>>
        BY <3>1, <1>5 DEF ShapeInv, LogitsHeldInv
      <3>3. n <= Len(cached_tokens)
        BY <1>2 DEF longest_common_prefix
      <3> QED BY <3>1, <3>2, <3>3, <1>1
    <2> QED BY <2>1, <2>2
  <1>8. cached_tokens' \in {prompt, <<>>, cached_tokens}
    BY <1>2, ZenonT(30)
  <1>9. cached_tokens' \in Seq(Tokens)
    <2>1. <<>> \in Seq(Tokens)
      OBVIOUS
    <2> QED BY <2>1, <1>1, <1>5, <1>8, Zenon
  <1> QED BY <1>1, <1>2, <1>4, <1>6, <1>7, <1>9

\* The logits of a forward pass are logits.
LEMMA LogitsFacts ==
  ASSUME NEW ctx \in Origins, NEW sampled \in BOOLEAN
  PROVE  /\ [ctx |-> ctx, sampled |-> sampled] \in Logits
         /\ [ctx |-> ctx, sampled |-> sampled] # NoLogits
  <1>1. [ctx |-> ctx, sampled |-> sampled] \in [ctx : Origins, sampled : BOOLEAN]
    OBVIOUS
  <1> QED BY <1>1, SessionAssumption DEF Logits, Origins

\* A chunk of the prefill is not empty and leaves the last prompt token out.
LEMMA ChunkFacts ==
  ASSUME tokens \in Seq(Tokens), fed \in Nat, fed < Len(tokens) - 1
  PROVE  /\ ChunkEnd \in Nat /\ fed < ChunkEnd /\ ChunkEnd <= Len(tokens) - 1
         /\ Chunk \in Seq(Tokens) /\ Chunk # <<>>
         /\ Len(Chunk) = ChunkEnd - fed
  <1>1. ChunkEnd \in Nat /\ fed < ChunkEnd /\ ChunkEnd <= Len(tokens) - 1
    BY SessionAssumption DEF ChunkEnd, Least
  <1>2. Len(SubSeq(tokens, fed + 1, ChunkEnd)) = ChunkEnd - fed
        /\ SubSeq(tokens, fed + 1, ChunkEnd) \in Seq(Tokens)
    BY <1>1
  <1> QED BY <1>1, <1>2 DEF Chunk

\* Every step of a session keeps types, the progress of the turn and the
\* logits at hand.
LEMMA NextShape == ShapeInv /\ [Next]_vars => ShapeInv'
  <1> SUFFICES ASSUME ShapeInv, [Next]_vars PROVE ShapeInv'
    OBVIOUS
  <1> USE DEF ShapeInv, TypeOK, ProgressInv, LogitsHeldInv
  <1>1. ASSUME NEW prompt \in Prompts, NEW w \in Windows, NEW n \in 1 .. MaxTokens,
               BeginTurn(prompt, w, n)
        PROVE  ShapeInv'
    <2>1. model' = model /\ tokens' = prompt
          /\ pos' = Len(prompt) /\ budget' = n /\ cut' \in BOOLEAN
      BY <1>1 DEF BeginTurn
    <2>2. NoLogits \in Logits
      BY DEF Logits
    <2>3. pc' = "sample" => logits' # NoLogits
      BY <1>1 DEF BeginTurn
    <2> HIDE DEF Logits
    <2> QED BY <1>1, <2>1, <2>2, <2>3, BeginTurnFacts
  <1>2. CASE PrefillBatch
    <2>1. ChunkEnd \in Nat /\ fed < ChunkEnd /\ ChunkEnd <= Len(tokens) - 1
      BY <1>2, ChunkFacts DEF PrefillBatch
    <2>2. CacheOK(kv_cache') /\ SameShape(kv_cache', kv_cache)
      BY <1>2, ChunkFacts, ForwardBatchType DEF PrefillBatch
    <2> QED BY <1>2, <2>1, <2>2 DEF PrefillBatch, SameShape
  <1>3. CASE PrefillToken
    <2>1. tokens[fed + 1] \in Tokens
      BY <1>3 DEF PrefillToken
    <2>2. CacheOK(kv_cache') /\ SameShape(kv_cache', kv_cache)
      BY <1>3, <2>1, ForwardType DEF PrefillToken
    <2> QED BY <1>3, <2>2 DEF PrefillToken, SameShape
  <1>4. CASE PrefillLast
    <2>1. tokens[fed + 1] \in Tokens
      BY <1>4 DEF PrefillLast
    <2>2. CacheOK(kv_cache') /\ SameShape(kv_cache', kv_cache)
          /\ ForwardRow(kv_cache, model, tokens[fed + 1], fed) \in Origins
      BY <1>4, <2>1, ForwardType DEF PrefillLast
    <2>3. logits' \in Logits /\ logits' # NoLogits
      BY <1>4, <2>2, LogitsFacts DEF PrefillLast
    <2> QED BY <1>4, <2>2, <2>3 DEF PrefillLast, SameShape
  <1>5. CASE Panic
    BY <1>5 DEF Panic, sessionVars
  <1>6. ASSUME NEW token \in Tokens, Sample(token)
        PROVE  ShapeInv'
    <2>1. logits' \in Logits /\ logits' # NoLogits
      BY <1>6, SessionAssumption DEF Sample, Logits, Origins
    <2>2. cached_tokens' \in Seq(Tokens) /\ Len(cached_tokens') = pos + 1
      BY <1>6, AppendPrefix DEF Sample
    <2>3. pc' = "forward" => pos < MaxLen - 1
      BY <1>6, SessionAssumption DEF Sample
    <2> QED BY <1>6, <2>1, <2>2, <2>3 DEF Sample
  <1>7. CASE SampleStop
    <2>1. logits' \in Logits /\ logits' # NoLogits
      BY <1>7, SessionAssumption DEF SampleStop, Logits, Origins
    <2> QED BY <1>7, <2>1 DEF SampleStop, sessionVars
  <1>8. CASE ForwardToken
    <2> DEFINE token == cached_tokens[Len(cached_tokens)]
    <2>1. token \in Tokens
      BY <1>8 DEF ForwardToken
    <2>2. InStorage(kv_cache, pos)
      BY <1>8, InStorageFacts, SessionAssumption DEF ForwardToken
    <2>3. CacheOK(kv_cache') /\ SameShape(kv_cache', kv_cache)
          /\ ForwardRow(kv_cache, model, token, pos) \in Origins
      BY <1>8, <2>1, <2>2, ForwardType DEF ForwardToken
    <2>4. logits' \in Logits /\ logits' # NoLogits
      BY <1>8, <2>3, LogitsFacts DEF ForwardToken
    <2> QED BY <1>8, <2>3, <2>4 DEF ForwardToken, SameShape
  <1>9. CASE EndTurn
    BY <1>9 DEF EndTurn, Logits
  <1>10. CASE UNCHANGED vars
    BY <1>10 DEF vars
  <1> QED BY <1>1, <1>2, <1>3, <1>4, <1>5, <1>6, <1>7, <1>8, <1>9, <1>10 DEF Next

\* Every reachable state of a session is well formed.
THEOREM TypeCorrect == Spec => []TypeOK
  <1>1. ShapeInv => TypeOK
    BY DEF ShapeInv
  <1> QED BY <1>1, InitShape, NextShape, PTL DEF Spec

\* Where the storage ends.  A prompt that leaves it never comes back, and
\* nothing else does.
THEOREM CapacityCorrect == Spec => []PanicOnlyBeyondCapacity
  <1>1. Init => PanicOnlyBeyondCapacity
    BY DEF Init, PanicOnlyBeyondCapacity
  <1>2. ShapeInv /\ ShapeInv' /\ PanicOnlyBeyondCapacity /\ [Next]_vars => PanicOnlyBeyondCapacity'
    <2> SUFFICES ASSUME ShapeInv, ShapeInv', PanicOnlyBeyondCapacity, [Next]_vars
                 PROVE  PanicOnlyBeyondCapacity'
      OBVIOUS
    <2>1. pc' = "forward" => InStorage(kv_cache, pos)'
      <3>1. CacheOK(kv_cache') /\ pos' \in Nat /\ kv_cache'.max_len = MaxLen
        BY DEF ShapeInv, TypeOK
      <3>2. pc' = "forward" => pos' < MaxLen - 1
        BY DEF ShapeInv, ProgressInv
      <3>3. pc' = "forward" => InStorage(kv_cache', pos')
        BY <3>1, <3>2, InStorageFacts, SessionAssumption
      <3> QED BY <3>3 DEF InStorage, slot_for_pos
    <2>2. pc' = "panicked" => kv_cache'.sliding_window = 0 /\ Len(tokens') > MaxLen
      <3>1. CASE Panic
        <4>1. PICK p \in fed .. (IF fed < Len(tokens) - 1 /\ Batched THEN ChunkEnd - 1 ELSE fed) :
                ~InStorage(kv_cache, p)
          BY <3>1 DEF Panic
        <4>2. p \in Nat /\ p < Len(tokens)
          <5>1. CASE fed < Len(tokens) - 1
            BY <3>1, <4>1, <5>1, ChunkFacts DEF Panic, ShapeInv, TypeOK, ProgressInv
          <5>2. CASE ~(fed < Len(tokens) - 1)
            BY <3>1, <4>1, <5>2 DEF Panic, ShapeInv, TypeOK, ProgressInv
          <5> QED BY <5>1, <5>2
        <4>3. kv_cache.sliding_window = 0 /\ ~(p < MaxLen)
          BY <4>1, <4>2, InStorageFacts DEF ShapeInv, TypeOK
        <4> QED BY <3>1, <4>2, <4>3, SessionAssumption DEF Panic, sessionVars, ShapeInv, TypeOK
      <3>2. CASE UNCHANGED vars
        BY <3>2 DEF vars, PanicOnlyBeyondCapacity
      <3>3. ASSUME NEW prompt \in Prompts, NEW w \in Windows, NEW n \in 1 .. MaxTokens,
                   BeginTurn(prompt, w, n)
            PROVE  pc' # "panicked"
        BY <3>3, BeginTurnFacts
      <3>4. CASE PrefillBatch \/ PrefillToken \/ PrefillLast
        BY <3>4 DEF PrefillBatch, PrefillToken, PrefillLast
      <3>5. CASE (\E token \in Tokens : Sample(token)) \/ SampleStop \/ ForwardToken \/ EndTurn
        BY <3>5 DEF Sample, SampleStop, ForwardToken, EndTurn
      <3> QED BY <3>1, <3>2, <3>3, <3>4, <3>5 DEF Next
    <2> QED BY <2>1, <2>2 DEF PanicOnlyBeyondCapacity
  <1> QED BY <1>1, <1>2, InitShape, NextShape, PTL DEF Spec

\* A session that holds tokens holds logits to go with them.
THEOREM LogitsCorrect == Spec => []LogitsAccompanyTokens
  <1>1. ShapeInv => LogitsAccompanyTokens
    BY DEF ShapeInv, TypeOK, LogitsHeldInv, ProgressInv, LogitsAccompanyTokens
  <1> QED BY <1>1, InitShape, NextShape, PTL DEF Spec

-----------------------------------------------------------------------------
(* Without a window, reuse of the cache is invisible. *)

LEMMA InitSession == Init => SessionInv
  <1> SUFFICES ASSUME Init PROVE SessionInv
    OBVIOUS
  <1>1. pc = "idle" /\ cached_tokens = <<>> /\ last_logits = NoLogits
    BY DEF Init
  <1>2. kv_cache.ssm = <<>>
    BY DEF Init, NewCache
  <1>3. SubSeq(cached_tokens, 1, Len(cached_tokens)) = <<>> /\ Len(cached_tokens) = 0
    BY <1>1
  <1>4. RowsHold(cached_tokens, Least(Len(cached_tokens), MaxLen - 1))
    BY <1>3, SessionAssumption DEF RowsHold, Least
  <1>5. RowsInv
    BY <1>1, <1>2, <1>3, <1>4 DEF RowsInv, Consumed
  <1> QED BY <1>1, <1>5, InitShape DEF SessionInv, LogitsInv, ReuseInvisible

\* A turn that begins keeps the rows of the common prefix.
LEMMA BeginTurnSession ==
  ASSUME SessionInv, ShapeInv', NEW prompt \in Prompts, NEW window \in Windows,
         NEW m \in 1 .. MaxTokens, BeginTurn(prompt, window, m)
  PROVE  RowsInv' /\ LogitsInv' /\ ReuseInvisible'
  <1> SUFFICES ASSUME kv_cache'.sliding_window = 0
               PROVE  RowsInv' /\ LogitsInv' /\ ReuseInvisible'
    BY DEF RowsInv, LogitsInv, ReuseInvisible
  <1>1. /\ prompt \in Seq(Tokens) /\ prompt # <<>> /\ Len(prompt) \in Nat \ {0}
        /\ window = 0
        /\ pc' \in {"prefill", "sample"}
    BY BeginTurnFacts DEF SessionInv
  <1>2. PICK n \in 0 .. Len(prompt) :
          LET reset == MustReset(prompt, window, n)
              cache == set_sliding_window(kv_cache, window)
              reuse == n = Len(prompt) /\ last_logits # NoLogits /\ ~reset
          IN  /\ longest_common_prefix(prompt, cached_tokens, n)
              /\ kv_cache' = IF reset THEN [cache EXCEPT !.ssm = <<>>] ELSE cache
              /\ prefix_len' = IF reset THEN 0 ELSE n
              /\ cut' = (~reset /\ n > 0 /\ (cut \/ n < Len(cached_tokens)))
              /\ \/ /\ reuse
                    /\ logits' = last_logits
                    /\ last_logits' = NoLogits
                    /\ fed' = n
                    /\ cached_tokens' = prompt
                    /\ pc' = "sample"
                 \/ /\ ~reuse
                    /\ logits' = NoLogits
                    /\ last_logits' = IF reset THEN NoLogits ELSE last_logits
                    /\ fed' = Least(prefix_len', Len(prompt) - 1)
                    /\ cached_tokens' = IF reset THEN <<>> ELSE cached_tokens
                    /\ pc' = "prefill"
    BY DEF BeginTurn
  <1> DEFINE reset == MustReset(prompt, window, n)
             cache == set_sliding_window(kv_cache, window)
  <1>3. tokens' = prompt /\ pos' = Len(prompt) /\ model' = model /\ pc = "idle"
    BY DEF BeginTurn
  <1>4. CASE reset
    <2>1. kv_cache' = [cache EXCEPT !.ssm = <<>>] /\ prefix_len' = 0 /\ pc' = "prefill" /\ fed' = 0
      BY <1>1, <1>2, <1>4 DEF Least
    <2>2. kv_cache'.ssm = <<>>
      BY <2>1 DEF set_sliding_window, SessionInv, ShapeInv, TypeOK, CacheOK
    <2>3. SubSeq(prompt, 1, 0) = <<>>
      OBVIOUS
    <2> QED BY <1>3, <2>1, <2>2, <2>3 DEF RowsInv, LogitsInv, ReuseInvisible, RowsHold, Consumed
  <1>5. CASE ~reset
    <2>1. /\ kv_cache.sliding_window = 0
          /\ Len(prompt) < MaxLen
          /\ model = "hybrid" => n = Len(cached_tokens)
      BY <1>1, <1>5, SessionAssumption DEF MustReset, WindowChanges
    <2>2. kv_cache'.rows = kv_cache.rows /\ kv_cache'.ssm = kv_cache.ssm
      <3>1. kv_cache' = cache
        BY <1>2, <1>5
      <3>2. CacheOK(kv_cache)
        BY DEF SessionInv, ShapeInv, TypeOK
      <3>3. cache.rows = kv_cache.rows /\ cache.ssm = kv_cache.ssm
        BY <1>1, <2>1, <3>2, SetWindowFacts
      <3> QED BY <3>1, <3>3
    <2>3. /\ cached_tokens \in Seq(Tokens) /\ Len(cached_tokens) \in Nat
          /\ n <= Len(cached_tokens) /\ n <= Len(prompt) /\ n \in Nat
          /\ \A i \in 1 .. n : prompt[i] = cached_tokens[i]
      BY <1>2 DEF longest_common_prefix, SessionInv, ShapeInv, TypeOK
    <2>4. \A p \in 0 .. n - 1 : kv_cache'.rows[p] = Prefix(prompt, p)
      <3> TAKE p \in 0 .. n - 1
      <3>1. RowsHold(cached_tokens, Least(Len(cached_tokens), MaxLen - 1))
        BY <1>3, <2>1 DEF SessionInv, RowsInv
      <3>2. p \in 0 .. Least(Len(cached_tokens), MaxLen - 1) - 1
        BY <1>1, <2>1, <2>3, SessionAssumption DEF Least
      <3>3. kv_cache.rows[p] = Prefix(cached_tokens, p)
        BY <3>1, <3>2 DEF RowsHold
      <3>4. SubSeq(cached_tokens, 1, p + 1) = SubSeq(prompt, 1, p + 1)
        BY <1>1, <2>3, CommonPrefix
      <3> QED BY <2>2, <3>3, <3>4 DEF Prefix
    <2>5. model = "hybrid" => kv_cache'.ssm = SubSeq(prompt, 1, n)
      <3> SUFFICES ASSUME model = "hybrid" PROVE kv_cache'.ssm = SubSeq(prompt, 1, n)
        OBVIOUS
      <3>1. ~(Len(cached_tokens) >= MaxLen)
        BY <1>1, <2>1, <2>3, SessionAssumption
      <3>2. kv_cache.ssm = SubSeq(cached_tokens, 1, Len(cached_tokens))
        BY <1>3, <2>1, <3>1 DEF SessionInv, RowsInv, Consumed
      <3>3. SubSeq(cached_tokens, 1, n) = SubSeq(prompt, 1, n)
        BY <1>1, <2>3, CommonPrefix
      <3> QED BY <2>1, <2>2, <3>2, <3>3
    <2>6. fed' <= n /\ fed' \in Nat
      BY <1>1, <1>2, <1>5, <2>3 DEF Least
    <2>7. CASE pc' = "prefill"
      <3>1. fed' = n
        \* The branch that forwards the last prompt token again is not taken.
        BY <1>2, <1>5, <2>3, <2>6, <2>7 DEF ShapeInv, ProgressInv
      <3> QED BY <1>3, <2>4, <2>5, <2>7, <3>1
              DEF RowsInv, LogitsInv, ReuseInvisible, RowsHold, Consumed
    <2>8. CASE pc' = "sample"
      <3>1. /\ n = Len(prompt) /\ last_logits # NoLogits
            /\ logits' = last_logits /\ cached_tokens' = prompt
        BY <1>2, <2>8
      <3>2. prefix_len' = Len(tokens') /\ Len(cached_tokens') = Len(tokens')
        BY <1>2, <1>3, <1>5, <3>1
      <3>3. ~cut' => logits'.ctx = prompt
        <4> SUFFICES ASSUME ~cut' PROVE logits'.ctx = prompt
          OBVIOUS
        <4>1. ~cut /\ n = Len(cached_tokens)
          <5>1. ~(n > 0 /\ (cut \/ n < Len(cached_tokens)))
            BY <1>2, <1>5, Zenon
          <5>2. n > 0
            BY <1>1, <3>1
          <5>3. ~cut /\ ~(n < Len(cached_tokens))
            BY <5>1, <5>2, Zenon
          <5> QED BY <5>3, <2>3
        <4>2. last_logits.ctx = cached_tokens
          BY <1>1, <1>3, <2>1, <2>3, <3>1, <4>1, SessionAssumption DEF SessionInv, LogitsInv
        <4>3. SubSeq(cached_tokens, 1, n) = SubSeq(prompt, 1, n)
          BY <1>1, <2>3, CommonPrefix
        <4>4. cached_tokens = prompt
          BY <1>1, <2>3, <3>1, <4>1, <4>3, WholePrefix
        <4> QED BY <3>1, <4>2, <4>4
      <3>4. ReuseInvisible'
        BY <3>1, <3>2, <3>3 DEF ReuseInvisible, FromSavedLogits
      <3>5. RowsInv'
        BY <1>3, <2>1, <2>4, <2>5, <2>8, <3>1, SessionAssumption DEF RowsInv, RowsHold, Consumed
      <3> QED BY <2>8, <3>4, <3>5 DEF LogitsInv
    <2> QED BY <1>1, <2>7, <2>8
  <1> QED BY <1>4, <1>5

\* Every step keeps the rows, the recurrent state and the logits those of the
\* session's tokens.
LEMMA NextSession == SessionInv /\ ShapeInv' /\ [Next]_vars => SessionInv'
  <1> SUFFICES ASSUME SessionInv, ShapeInv', [Next]_vars
               PROVE  RowsInv' /\ LogitsInv' /\ ReuseInvisible'
    BY DEF SessionInv
  <1>0. /\ CacheOK(kv_cache) /\ kv_cache.sliding_window \in Nat /\ kv_cache.max_len = MaxLen
        /\ cached_tokens \in Seq(Tokens) /\ Len(cached_tokens) \in Nat
        /\ tokens \in Seq(Tokens) /\ Len(tokens) \in Nat
        /\ fed \in Nat /\ pos \in Nat /\ MaxLen \in Nat \ {0}
    <2>1. CacheOK(kv_cache) /\ kv_cache.sliding_window \in Nat /\ kv_cache.max_len = MaxLen
      BY CacheFacts DEF SessionInv, ShapeInv, TypeOK
    <2> QED BY <2>1, SessionAssumption DEF SessionInv, ShapeInv, TypeOK
  <1>1. ASSUME NEW prompt \in Prompts, NEW w \in Windows, NEW n \in 1 .. MaxTokens,
               BeginTurn(prompt, w, n)
        PROVE  RowsInv' /\ LogitsInv' /\ ReuseInvisible'
    BY <1>1, BeginTurnSession
  <1>2. CASE PrefillBatch
    <2> SUFFICES ASSUME kv_cache'.sliding_window = 0 PROVE RowsHold(tokens, fed)'
      BY <1>2 DEF PrefillBatch, Batched, RowsInv, LogitsInv, ReuseInvisible, Consumed
    <2>1. /\ ChunkEnd \in Nat /\ fed < ChunkEnd /\ ChunkEnd <= Len(tokens) - 1
          /\ Chunk \in Seq(Tokens) /\ Chunk # <<>>
      BY <1>0, <1>2, ChunkFacts DEF PrefillBatch
    <2>2. InStorage(kv_cache, fed) /\ InStorage(kv_cache, ChunkEnd - 1)
      BY <1>0, <1>2, <2>1 DEF PrefillBatch
    <2>3. kv_cache.sliding_window = 0
      BY <1>0, <1>2, <2>1, <2>2, ForwardBatchType DEF PrefillBatch, SameShape
    <2>4. ChunkEnd <= MaxLen
      BY <1>0, <2>1, <2>2, <2>3, InStorageFacts
    <2>5. \A p \in 0 .. fed - 1 : kv_cache.rows[p] = Prefix(tokens, p)
      BY <1>2, <2>3 DEF PrefillBatch, SessionInv, RowsInv, RowsHold
    <2>6. model # "hybrid" /\ fed \in 0 .. Len(tokens) /\ ChunkEnd \in fed + 1 .. Len(tokens)
      BY <1>0, <1>2, <2>1 DEF PrefillBatch, Batched
    <2>7. \A p \in 0 .. ChunkEnd - 1 : kv_cache'.rows[p] = Prefix(tokens, p)
      <3>1. CacheOK(kv_cache) /\ tokens \in Seq(Tokens) /\ ChunkEnd <= kv_cache.max_len
        BY <1>0, <2>4
      <3>2. \A p \in 0 .. ChunkEnd - 1 :
              ForwardBatch(kv_cache, model, SubSeq(tokens, fed + 1, ChunkEnd), fed).rows[p]
                = Prefix(tokens, p)
        BY <2>3, <2>5, <2>6, <3>1, ForwardBatchHolds
      <3> QED BY <1>2, <3>2 DEF PrefillBatch, Chunk
    <2> QED BY <1>2, <2>7 DEF PrefillBatch, RowsHold
  <1>3. CASE PrefillToken
    <2> SUFFICES ASSUME kv_cache'.sliding_window = 0
                 PROVE  RowsHold(tokens, fed)' /\ Consumed(tokens, fed)'
      BY <1>3 DEF PrefillToken, RowsInv, LogitsInv, ReuseInvisible
    <2>1. fed \in 0 .. Len(tokens) - 1 /\ tokens[fed + 1] \in Tokens
      BY <1>0, <1>3 DEF PrefillToken
    <2>2. kv_cache.sliding_window = 0
      BY <1>0, <1>3, <2>1, ForwardType DEF PrefillToken, SameShape
    <2>3. fed < MaxLen
      BY <1>0, <1>3, <2>2, InStorageFacts DEF PrefillToken
    <2>4. /\ \A p \in 0 .. fed - 1 : kv_cache.rows[p] = Prefix(tokens, p)
          /\ model = "hybrid" => kv_cache.ssm = SubSeq(tokens, 1, fed)
      BY <1>3, <2>2 DEF PrefillToken, SessionInv, RowsInv, RowsHold, Consumed
    <2>5. /\ ForwardRow(kv_cache, model, tokens[fed + 1], fed) = SubSeq(tokens, 1, fed + 1)
          /\ \A p \in 0 .. fed :
               Forward(kv_cache, model, tokens[fed + 1], fed).rows[p] = Prefix(tokens, p)
          /\ model = "hybrid" =>
               Forward(kv_cache, model, tokens[fed + 1], fed).ssm = SubSeq(tokens, 1, fed + 1)
      <3>1. Holds(kv_cache, model, tokens, fed)
        BY <1>0, <2>2, <2>4 DEF Holds
      <3>2. tokens \in Seq(Tokens) /\ fed < kv_cache.max_len
        BY <1>0, <2>3
      <3>3. /\ ForwardRow(kv_cache, model, tokens[fed + 1], fed) = SubSeq(tokens, 1, fed + 1)
            /\ Holds(Forward(kv_cache, model, tokens[fed + 1], fed), model, tokens, fed + 1)
        BY <2>1, <3>1, <3>2, ForwardHolds
      <3> QED BY <1>0, <3>3 DEF Holds
    <2> QED BY <1>0, <1>3, <2>5 DEF PrefillToken, RowsHold, Consumed
  <1>4. CASE PrefillLast
    <2> SUFFICES ASSUME kv_cache'.sliding_window = 0
                 PROVE  RowsInv' /\ LogitsInv' /\ ReuseInvisible'
      BY DEF RowsInv, LogitsInv, ReuseInvisible
    <2>1. fed \in 0 .. Len(tokens) - 1 /\ tokens[fed + 1] \in Tokens /\ fed + 1 = Len(tokens)
          /\ pos = Len(tokens)
      BY <1>0, <1>4 DEF PrefillLast, SessionInv, ShapeInv, ProgressInv
    <2>2. kv_cache.sliding_window = 0
      BY <1>0, <1>4, <2>1, ForwardType DEF PrefillLast, SameShape
    <2>3. fed < MaxLen
      BY <1>0, <1>4, <2>2, InStorageFacts DEF PrefillLast
    <2>4. /\ \A p \in 0 .. fed - 1 : kv_cache.rows[p] = Prefix(tokens, p)
          /\ model = "hybrid" => kv_cache.ssm = SubSeq(tokens, 1, fed)
      BY <1>4, <2>2 DEF PrefillLast, SessionInv, RowsInv, RowsHold, Consumed
    <2>5. /\ ForwardRow(kv_cache, model, tokens[fed + 1], fed) = SubSeq(tokens, 1, fed + 1)
          /\ \A p \in 0 .. fed :
               Forward(kv_cache, model, tokens[fed + 1], fed).rows[p] = Prefix(tokens, p)
          /\ model = "hybrid" =>
               Forward(kv_cache, model, tokens[fed + 1], fed).ssm = SubSeq(tokens, 1, fed + 1)
      <3>1. Holds(kv_cache, model, tokens, fed)
        BY <1>0, <2>2, <2>4 DEF Holds
      <3>2. tokens \in Seq(Tokens) /\ fed < kv_cache.max_len
        BY <1>0, <2>3
      <3>3. /\ ForwardRow(kv_cache, model, tokens[fed + 1], fed) = SubSeq(tokens, 1, fed + 1)
            /\ Holds(Forward(kv_cache, model, tokens[fed + 1], fed), model, tokens, fed + 1)
        BY <2>1, <3>1, <3>2, ForwardHolds
      <3> QED BY <1>0, <3>3 DEF Holds
    <2>6. logits'.ctx = tokens
      BY <1>4, <2>1, <2>5, <1>0, WholePrefix DEF PrefillLast
    <2>7. RowsInv'
      BY <1>0, <1>4, <2>1, <2>3, <2>5 DEF PrefillLast, RowsInv, RowsHold, Consumed
    <2> QED BY <1>4, <2>6, <2>7 DEF PrefillLast, LogitsInv, ReuseInvisible
  <1>5. CASE Panic
    BY <1>5 DEF Panic, RowsInv, LogitsInv, ReuseInvisible
  <1>6. ASSUME NEW token \in Tokens, Sample(token)
        PROVE  RowsInv' /\ LogitsInv' /\ ReuseInvisible'
    <2> SUFFICES ASSUME kv_cache.sliding_window = 0
                 PROVE  RowsInv' /\ LogitsInv' /\ ReuseInvisible'
      BY <1>6 DEF Sample, RowsInv, LogitsInv, ReuseInvisible
    <2>1. /\ pos <= MaxLen /\ Len(cached_tokens) = pos
          /\ RowsHold(cached_tokens, pos) /\ Consumed(cached_tokens, pos)
      BY <1>6 DEF Sample, SessionInv, RowsInv, ShapeInv, ProgressInv
    <2>2. /\ cached_tokens' \in Seq(Tokens) /\ Len(cached_tokens') = pos + 1
          /\ \A n \in 0 .. pos : SubSeq(cached_tokens', 1, n) = SubSeq(cached_tokens, 1, n)
      BY <1>0, <1>6, <2>1, AppendPrefix DEF Sample
    <2>3. \A p \in 0 .. pos - 1 : kv_cache'.rows[p] = Prefix(cached_tokens', p)
      BY <1>0, <1>6, <2>1, <2>2 DEF Sample, RowsHold, Prefix
    <2>4. model' = "hybrid" => kv_cache'.ssm = SubSeq(cached_tokens', 1, pos)
      BY <1>0, <1>6, <2>1, <2>2 DEF Sample, Consumed
    <2>5. CASE pos >= MaxLen - 1
      <3>1. pc' = "end" /\ Len(cached_tokens') >= MaxLen /\ cached_tokens' # <<>>
        BY <1>0, <1>6, <2>2, <2>5 DEF Sample
      <3>2. RowsHold(cached_tokens, Least(Len(cached_tokens), MaxLen - 1))'
        BY <1>0, <2>2, <2>3, <2>5 DEF RowsHold, Least
      <3>3. Consumed(cached_tokens, Len(cached_tokens) - 1)'
        BY <1>0, <2>2, <2>4 DEF Consumed
      <3>4. ~(Len(cached_tokens') < MaxLen)
        BY <1>0, <2>2, <2>5
      <3>5. RowsInv'
        BY <3>1, <3>2, <3>3 DEF RowsInv
      <3> QED BY <3>1, <3>4, <3>5 DEF LogitsInv, ReuseInvisible
    <2>6. CASE ~(pos >= MaxLen - 1)
      <3>1. pc' = "forward" /\ pos' = pos
        BY <1>6, <2>6 DEF Sample
      <3> QED BY <2>3, <2>4, <3>1 DEF RowsInv, RowsHold, Consumed, LogitsInv, ReuseInvisible
    <2> QED BY <2>5, <2>6
  <1>7. CASE SampleStop
    <2> SUFFICES ASSUME kv_cache.sliding_window = 0
                 PROVE  RowsInv' /\ LogitsInv' /\ ReuseInvisible'
      BY <1>7 DEF SampleStop, sessionVars, RowsInv, LogitsInv, ReuseInvisible
    <2>1. /\ pos <= MaxLen /\ Len(cached_tokens) = pos /\ Len(tokens) <= pos
          /\ RowsHold(cached_tokens, pos) /\ Consumed(cached_tokens, Len(cached_tokens))
      BY <1>7 DEF SampleStop, SessionInv, RowsInv, ShapeInv, ProgressInv
    <2>2. RowsHold(cached_tokens, Least(Len(cached_tokens), MaxLen - 1))
      BY <1>0, <2>1 DEF RowsHold, Least
    <2>3. ~cut => logits.ctx = cached_tokens
      BY <1>7 DEF SampleStop, SessionInv, ReuseInvisible
    <2>4. logits'.ctx = logits.ctx
      BY <1>7, <1>0 DEF SampleStop, SessionInv, ShapeInv, TypeOK, LogitsHeldInv, Logits
    <2>5. RowsInv'
      BY <1>7, <2>1, <2>2 DEF SampleStop, sessionVars, RowsInv, RowsHold, Consumed
    <2> QED BY <1>7, <2>3, <2>4, <2>5 DEF SampleStop, sessionVars, LogitsInv, ReuseInvisible
  <1>8. CASE ForwardToken
    <2> DEFINE token == cached_tokens[Len(cached_tokens)]
    <2> SUFFICES ASSUME kv_cache'.sliding_window = 0
                 PROVE  RowsInv' /\ LogitsInv' /\ ReuseInvisible'
      BY DEF RowsInv, LogitsInv, ReuseInvisible
    <2>1. /\ pos < MaxLen - 1 /\ Len(cached_tokens) = pos + 1
          /\ token = cached_tokens[pos + 1] /\ token \in Tokens
          /\ pos \in 0 .. Len(cached_tokens) - 1 /\ pos < MaxLen
      BY <1>0, <1>8 DEF ForwardToken, SessionInv, ShapeInv, ProgressInv
    <2>2. kv_cache.sliding_window = 0
      BY <1>0, <1>8, <2>1, ForwardType, InStorageFacts DEF ForwardToken, SameShape
    <2>3. /\ \A p \in 0 .. pos - 1 : kv_cache.rows[p] = Prefix(cached_tokens, p)
          /\ model = "hybrid" => kv_cache.ssm = SubSeq(cached_tokens, 1, pos)
      BY <1>8, <2>2 DEF ForwardToken, SessionInv, RowsInv, RowsHold, Consumed
    <2>4. /\ ForwardRow(kv_cache, model, cached_tokens[pos + 1], pos)
               = SubSeq(cached_tokens, 1, pos + 1)
          /\ \A p \in 0 .. pos :
               Forward(kv_cache, model, cached_tokens[pos + 1], pos).rows[p] = Prefix(cached_tokens, p)
          /\ model = "hybrid" =>
               Forward(kv_cache, model, cached_tokens[pos + 1], pos).ssm
                 = SubSeq(cached_tokens, 1, pos + 1)
      <3>1. Holds(kv_cache, model, cached_tokens, pos)
        BY <1>0, <2>2, <2>3 DEF Holds
      <3>2. cached_tokens \in Seq(Tokens) /\ pos < kv_cache.max_len
        BY <1>0, <2>1
      <3>3. /\ ForwardRow(kv_cache, model, cached_tokens[pos + 1], pos)
                 = SubSeq(cached_tokens, 1, pos + 1)
            /\ Holds(Forward(kv_cache, model, cached_tokens[pos + 1], pos),
                     model, cached_tokens, pos + 1)
        BY <2>1, <3>1, <3>2, ForwardHolds
      <3> QED BY <1>0, <3>3 DEF Holds
    <2>5. logits'.ctx = cached_tokens
      BY <1>0, <1>8, <2>1, <2>4, WholePrefix DEF ForwardToken
    <2>6. RowsInv'
      BY <1>0, <1>8, <2>1, <2>4 DEF ForwardToken, RowsInv, RowsHold, Consumed
    <2> QED BY <1>8, <2>5, <2>6 DEF ForwardToken, LogitsInv, ReuseInvisible
  <1>9. CASE EndTurn
    <2> SUFFICES ASSUME kv_cache.sliding_window = 0
                 PROVE  RowsInv' /\ LogitsInv' /\ ReuseInvisible'
      BY <1>9 DEF EndTurn, RowsInv, LogitsInv, ReuseInvisible
    <2>1. CASE pc = "end"
      BY <1>9, <2>1 DEF EndTurn, SessionInv, RowsInv, RowsHold, Consumed, LogitsInv, ReuseInvisible
    <2>2. CASE pc = "sample"
      <3>1. /\ pos <= MaxLen /\ Len(cached_tokens) = pos
            /\ RowsHold(cached_tokens, pos) /\ Consumed(cached_tokens, Len(cached_tokens))
        BY <2>2 DEF SessionInv, RowsInv, ShapeInv, ProgressInv
      <3>2. RowsHold(cached_tokens, Least(Len(cached_tokens), MaxLen - 1))
        BY <1>0, <3>1 DEF RowsHold, Least
      <3>3. ~cut => logits.ctx = cached_tokens
        BY <2>2 DEF SessionInv, ReuseInvisible
      <3>4. RowsInv'
        BY <1>9, <3>1, <3>2 DEF EndTurn, RowsInv, RowsHold, Consumed
      <3> QED BY <1>9, <3>3, <3>4 DEF EndTurn, LogitsInv, ReuseInvisible
    <2> QED BY <1>9, <2>1, <2>2 DEF EndTurn
  <1>10. CASE UNCHANGED vars
    BY <1>10 DEF vars, SessionInv, RowsInv, RowsHold, Consumed, LogitsInv, ReuseInvisible, FromSavedLogits
  <1> QED BY <1>1, <1>2, <1>3, <1>4, <1>5, <1>6, <1>7, <1>8, <1>9, <1>10 DEF Next

\* The inductive invariant of a session.
LEMMA SessionCorrect == Spec => []SessionInv
  BY InitShape, InitSession, NextShape, NextSession, PTL DEF Spec, SessionInv

\* Without a window a turn samples from the logits of its own conversation,
\* whatever the session reused, unless the saved logits are of a sequence the
\* prompt cut short.
THEOREM ReuseCorrect == Spec => []ReuseInvisible
  BY SessionCorrect, PTL DEF SessionInv

\* Between turns the rows a later prompt may reuse are those of cached_tokens.
THEOREM CacheCorrect == Spec => []CacheReflectsTokens
  <1>1. SessionInv => CacheReflectsTokens
    <2> SUFFICES ASSUME SessionInv, pc = "idle", kv_cache.sliding_window = 0
                 PROVE  CacheReflectsTokens
      BY DEF CacheReflectsTokens
    <2>1. cached_tokens \in Seq(Tokens)
      BY DEF SessionInv, ShapeInv, TypeOK
    <2>2. SubSeq(cached_tokens, 1, Len(cached_tokens)) = cached_tokens
      BY <2>1, WholePrefix
    <2>3. Len(cached_tokens) - 2 + 1 = Len(cached_tokens) - 1
      BY <2>1
    <2> QED BY <2>2, <2>3 DEF CacheReflectsTokens, SessionInv, RowsInv, RowsHold, Consumed, Prefix
  <1> QED BY <1>1, SessionCorrect, PTL

-----------------------------------------------------------------------------
(* With a window, reuse is invisible while the conversation grows. *)

LEMMA InitRing == Init => RingInv /\ RingReuseInvisible
  <1> SUFFICES ASSUME Init PROVE RingInv /\ RingReuseInvisible
    OBVIOUS
  <1>1. pc = "idle" /\ cached_tokens = <<>> /\ last_logits = NoLogits
    BY DEF Init
  <1>2. RingHolds(kv_cache, cached_tokens, Len(cached_tokens))
    BY <1>1 DEF RingHolds
  <1> QED BY <1>1, <1>2 DEF RingInv, RingReuseInvisible

\* A turn that begins goes on from the ring, or from nothing.
LEMMA BeginTurnRing ==
  ASSUME RingSessionInv, ShapeInv', NEW prompt \in Prompts, NEW window \in Windows,
         NEW m \in 1 .. MaxTokens, BeginTurn(prompt, window, m)
  PROVE  RingInv' /\ RingReuseInvisible'
  <1> SUFFICES ASSUME kv_cache'.sliding_window > 0, model' = "standard", ~cut'
               PROVE  RingInv' /\ RingReuseInvisible'
    BY DEF RingInv, RingReuseInvisible
  <1>1. /\ prompt \in Seq(Tokens) /\ prompt # <<>> /\ Len(prompt) \in Nat \ {0}
        /\ kv_cache'.sliding_window = window
        /\ pc' \in {"prefill", "sample"}
    BY BeginTurnFacts DEF RingSessionInv
  <1>2. PICK n \in 0 .. Len(prompt) :
          LET reset == MustReset(prompt, window, n)
              cache == set_sliding_window(kv_cache, window)
              reuse == n = Len(prompt) /\ last_logits # NoLogits /\ ~reset
          IN  /\ longest_common_prefix(prompt, cached_tokens, n)
              /\ kv_cache' = IF reset THEN [cache EXCEPT !.ssm = <<>>] ELSE cache
              /\ prefix_len' = IF reset THEN 0 ELSE n
              /\ cut' = (~reset /\ n > 0 /\ (cut \/ n < Len(cached_tokens)))
              /\ \/ /\ reuse
                    /\ logits' = last_logits
                    /\ last_logits' = NoLogits
                    /\ fed' = n
                    /\ cached_tokens' = prompt
                    /\ pc' = "sample"
                 \/ /\ ~reuse
                    /\ logits' = NoLogits
                    /\ last_logits' = IF reset THEN NoLogits ELSE last_logits
                    /\ fed' = Least(prefix_len', Len(prompt) - 1)
                    /\ cached_tokens' = IF reset THEN <<>> ELSE cached_tokens
                    /\ pc' = "prefill"
    BY DEF BeginTurn
  <1> DEFINE reset == MustReset(prompt, window, n)
             cache == set_sliding_window(kv_cache, window)
  <1>3. /\ tokens' = prompt /\ pos' = Len(prompt) /\ pc = "idle"
        /\ model = "standard"
    BY DEF BeginTurn
  <1>4. fed' = prefix_len' /\ (pc' = "sample" => ~reset /\ n = Len(prompt) /\ prefix_len' = n)
    \* The branch that forwards the last prompt token again is not taken.
    <2>1. prefix_len' \in Nat /\ fed' \in Nat /\ prefix_len' \in {0, n}
      BY <1>2 DEF ShapeInv, TypeOK
    <2>2. CASE pc' = "prefill"
      <3>1. prefix_len' <= fed'
        BY <2>2 DEF ShapeInv, ProgressInv
      <3>2. fed' <= prefix_len'
        BY <1>1, <1>2, <2>1, <2>2 DEF Least
      <3> QED BY <2>1, <2>2, <3>1, <3>2
    <2>3. CASE pc' = "sample"
      BY <1>2, <2>3
    <2> QED BY <1>1, <2>2, <2>3
  <1>5. CASE prefix_len' = 0
    <2>1. pc' = "prefill" /\ fed' = 0
      BY <1>1, <1>4, <1>5
    <2>2. RingHolds(kv_cache', tokens', fed')
      BY <2>1 DEF RingHolds
    <2> QED BY <2>1, <2>2 DEF RingInv, RingReuseInvisible
  <1>6. CASE prefix_len' # 0
    <2>1. ~reset /\ n > 0 /\ prefix_len' = n /\ fed' = n
      BY <1>2, <1>4, <1>6
    <2>2. kv_cache.sliding_window = window /\ Len(prompt) < MaxLen
      BY <1>1, <2>1, SessionAssumption DEF MustReset, WindowChanges
    <2>3. /\ cached_tokens \in Seq(Tokens) /\ Len(cached_tokens) \in Nat
          /\ n <= Len(cached_tokens) /\ n <= Len(prompt) /\ n \in Nat
          /\ \A i \in 1 .. n : prompt[i] = cached_tokens[i]
      BY <1>2 DEF longest_common_prefix, RingSessionInv, ShapeInv, TypeOK
    <2>4. ~cut /\ n = Len(cached_tokens)
      <3>1. ~(n > 0 /\ (cut \/ n < Len(cached_tokens)))
        BY <1>2, <2>1, Zenon
      <3>2. ~cut /\ ~(n < Len(cached_tokens))
        BY <2>1, <3>1, Zenon
      <3> QED BY <3>2, <2>3
    <2>5. Len(cached_tokens) < MaxLen
      BY <1>1, <2>2, <2>3, <2>4, SessionAssumption
    <2>6. /\ RingHolds(kv_cache, cached_tokens, n)
          /\ last_logits # NoLogits => last_logits.ctx = cached_tokens
      BY <1>1, <1>3, <2>2, <2>4, <2>5 DEF RingSessionInv, RingInv
    <2>7. RingHolds(kv_cache', cached_tokens, n)
      <3>1. kv_cache' = cache
        BY <1>2, <2>1
      <3>2. CacheOK(kv_cache) /\ window \in Nat
        BY SessionAssumption DEF RingSessionInv, ShapeInv, TypeOK
      <3>3. cache.rows = kv_cache.rows /\ SameShape(cache, kv_cache)
        <4>1. /\ CacheOK(cache) /\ cache.sliding_window = kv_cache.sliding_window
              /\ cache.max_len = kv_cache.max_len /\ cache.rows = kv_cache.rows
          BY <2>2, <3>2, SetWindowFacts
        <4>2. cache.storage_len = kv_cache.storage_len
          <5> HIDE DEF cache
          <5> QED BY <3>2, <4>1, CacheFacts
        <4> QED BY <4>1, <4>2 DEF SameShape
      <3> HIDE DEF cache
      <3> QED BY <2>6, <3>1, <3>3 DEF RingHolds, SameShape, slot_for_pos
    <2>8. RingHolds(kv_cache', prompt, n)
      BY <1>1, <2>3, <2>7, RingCommonPrefix
    <2>9. CASE pc' = "prefill"
      BY <1>3, <2>1, <2>8, <2>9 DEF RingInv, RingReuseInvisible
    <2>10. CASE pc' = "sample"
      <3>1. /\ n = Len(prompt) /\ last_logits # NoLogits
            /\ logits' = last_logits /\ cached_tokens' = prompt
        BY <1>2, <2>10
      <3>2. cached_tokens = prompt
        <4>1. SubSeq(cached_tokens, 1, n) = SubSeq(prompt, 1, n)
          BY <1>1, <2>3, CommonPrefix
        <4> QED BY <1>1, <2>3, <2>4, <3>1, <4>1, WholePrefix
      <3>3. logits'.ctx = cached_tokens'
        BY <2>6, <3>1, <3>2
      <3> QED BY <1>3, <2>8, <2>10, <3>1, <3>3 DEF RingInv, RingReuseInvisible
    <2> QED BY <1>1, <2>9, <2>10
  <1> QED BY <1>5, <1>6

\* Every step keeps the ring, and the logits that go with it.
LEMMA NextRing == RingSessionInv /\ ShapeInv' /\ [Next]_vars => RingInv' /\ RingReuseInvisible'
  <1> SUFFICES ASSUME RingSessionInv, ShapeInv', [Next]_vars
               PROVE  RingInv' /\ RingReuseInvisible'
    OBVIOUS
  <1>0. /\ CacheOK(kv_cache) /\ kv_cache.max_len = MaxLen
        /\ kv_cache.sliding_window > 0 => kv_cache.sliding_window > 1
        /\ cached_tokens \in Seq(Tokens) /\ Len(cached_tokens) \in Nat
        /\ tokens \in Seq(Tokens) /\ Len(tokens) \in Nat
        /\ fed \in Nat /\ pos \in Nat /\ MaxLen \in Nat \ {0}
    <2>1. CacheOK(kv_cache) /\ kv_cache.max_len = MaxLen /\ kv_cache.sliding_window \in Windows
      BY DEF RingSessionInv, ShapeInv, TypeOK
    <2>2. kv_cache.sliding_window \in Nat \ {1}
      BY <2>1, SessionAssumption
    <2> QED BY <2>1, <2>2, SessionAssumption DEF RingSessionInv, ShapeInv, TypeOK
  \* What a forward pass of a token in its place does.
  <1>1. ASSUME NEW seq \in Seq(Tokens), NEW at \in 0 .. Len(seq) - 1,
               kv_cache.sliding_window > 0, model = "standard", RingReaches(at + 1),
               RingHolds(kv_cache, seq, at)
        PROVE  /\ ForwardRow(kv_cache, model, seq[at + 1], at) = SubSeq(seq, 1, at + 1)
               /\ RingHolds(Forward(kv_cache, model, seq[at + 1], at), seq, at + 1)
    <2>1. /\ kv_cache.sliding_window > 1
          /\ kv_cache.sliding_window <= kv_cache.max_len \/ at + 1 <= kv_cache.max_len
          /\ model \notin {"interleaved", "hybrid"}
      BY <1>0, <1>1 DEF RingReaches
    <2> QED BY <1>0, <1>1, <2>1, RingForward
  <1>2. ASSUME NEW seq \in Seq(Tokens), NEW at \in 0 .. Len(seq) - 1,
               kv_cache' = Forward(kv_cache, model, seq[at + 1], at)
        PROVE  SameShape(kv_cache', kv_cache) \/ ~InStorage(kv_cache, at)
    BY <1>0, <1>2, ForwardType
  <1>3. ASSUME NEW prompt \in Prompts, NEW w \in Windows, NEW n \in 1 .. MaxTokens,
               BeginTurn(prompt, w, n)
        PROVE  RingInv' /\ RingReuseInvisible'
    BY <1>3, BeginTurnRing
  <1>4. CASE PrefillBatch
    BY <1>4 DEF PrefillBatch, Batched, RingInv, RingReuseInvisible
  <1>5. CASE PrefillToken
    <2>1. fed \in 0 .. Len(tokens) - 1
      BY <1>0, <1>5 DEF PrefillToken
    <2>2. SameShape(kv_cache', kv_cache)
      BY <1>0, <1>2, <1>5, <2>1 DEF PrefillToken
    <2>3. /\ pc = "prefill" /\ pc' = "prefill" /\ fed' = fed + 1
          /\ UNCHANGED <<model, tokens, cut>>
      BY <1>5 DEF PrefillToken
    <2>4. ASSUME kv_cache'.sliding_window > 0, model' = "standard", ~cut', RingReaches(fed)'
          PROVE  RingHolds(kv_cache', tokens', fed')
      <3>1. kv_cache.sliding_window > 0 /\ RingReaches(fed + 1) /\ RingReaches(fed)
        BY <1>0, <2>2, <2>3, <2>4 DEF SameShape, RingReaches
      <3>2. RingHolds(kv_cache, tokens, fed)
        BY <2>3, <2>4, <3>1 DEF RingSessionInv, RingInv
      <3>3. RingHolds(Forward(kv_cache, model, tokens[fed + 1], fed), tokens, fed + 1)
        BY <1>0, <1>1, <2>1, <2>3, <2>4, <3>1, <3>2
      <3> QED BY <1>5, <2>3, <3>3 DEF PrefillToken
    <2> QED BY <2>3, <2>4 DEF RingInv, RingReuseInvisible
  <1>6. CASE PrefillLast
    <2>1. fed \in 0 .. Len(tokens) - 1 /\ fed + 1 = Len(tokens) /\ pos = Len(tokens)
      BY <1>0, <1>6 DEF PrefillLast, RingSessionInv, ShapeInv, ProgressInv
    <2>2. SameShape(kv_cache', kv_cache)
      BY <1>0, <1>2, <1>6, <2>1 DEF PrefillLast
    <2>3. /\ pc = "prefill" /\ pc' = "sample" /\ cached_tokens' = tokens
          /\ UNCHANGED <<model, tokens, pos, cut>>
          /\ logits'.ctx = ForwardRow(kv_cache, model, tokens[fed + 1], fed)
          /\ kv_cache' = Forward(kv_cache, model, tokens[fed + 1], fed)
      BY <1>6 DEF PrefillLast
    <2>4. ASSUME kv_cache'.sliding_window > 0, model' = "standard", ~cut', RingReaches(pos)'
          PROVE  RingHolds(kv_cache', cached_tokens', pos') /\ logits'.ctx = cached_tokens'
      <3>1. kv_cache.sliding_window > 0 /\ RingReaches(fed + 1) /\ RingReaches(fed)
        BY <1>0, <2>1, <2>2, <2>3, <2>4 DEF SameShape, RingReaches
      <3>2. RingHolds(kv_cache, tokens, fed)
        BY <2>3, <2>4, <3>1 DEF RingSessionInv, RingInv
      <3>3. /\ ForwardRow(kv_cache, model, tokens[fed + 1], fed) = SubSeq(tokens, 1, fed + 1)
            /\ RingHolds(Forward(kv_cache, model, tokens[fed + 1], fed), tokens, fed + 1)
        BY <1>0, <1>1, <2>1, <2>3, <2>4, <3>1, <3>2
      <3>4. SubSeq(tokens, 1, fed + 1) = tokens
        BY <1>0, <2>1, WholePrefix
      <3> QED BY <2>1, <2>3, <3>3, <3>4
    <2> QED BY <1>0, <2>2, <2>3, <2>4 DEF RingInv, RingReuseInvisible, RingReaches
  <1>7. CASE Panic
    BY <1>7 DEF Panic, RingInv, RingReuseInvisible
  <1>8. ASSUME NEW token \in Tokens, Sample(token)
        PROVE  RingInv' /\ RingReuseInvisible'
    <2>1. /\ pc = "sample" /\ Len(cached_tokens) = pos
          /\ cached_tokens' = Append(cached_tokens, token)
          /\ pc' = IF pos >= MaxLen - 1 THEN "end" ELSE "forward"
          /\ UNCHANGED <<model, kv_cache, pos, cut>>
      BY <1>8 DEF Sample, RingSessionInv, ShapeInv, ProgressInv
    <2>2. /\ cached_tokens' \in Seq(Tokens) /\ Len(cached_tokens') = pos + 1
          /\ \A i \in 1 .. pos : cached_tokens[i] = cached_tokens'[i]
      BY <1>0, <1>8, <2>1
    <2>3. CASE pos >= MaxLen - 1
      <3>1. pc' = "end" /\ ~(Len(cached_tokens') < MaxLen)
        BY <1>0, <2>1, <2>2, <2>3
      <3> QED BY <3>1 DEF RingInv, RingReuseInvisible
    <2>4. CASE ~(pos >= MaxLen - 1)
      <3>1. pc' = "forward" /\ pos <= MaxLen
        BY <1>0, <2>1, <2>4
      <3>2. ASSUME kv_cache.sliding_window > 0, model = "standard", ~cut
            PROVE  RingHolds(kv_cache, cached_tokens', pos)
        <4>1. RingHolds(kv_cache, cached_tokens, pos)
          BY <2>1, <3>1, <3>2 DEF RingSessionInv, RingInv, RingReaches
        <4>2. pos <= Len(cached_tokens) /\ pos <= Len(cached_tokens')
          BY <1>0, <2>1, <2>2
        <4> QED BY <1>0, <2>2, <4>1, <4>2, RingCommonPrefix
      <3> QED BY <2>1, <3>1, <3>2 DEF RingInv, RingReuseInvisible
    <2> QED BY <2>3, <2>4
  <1>9. CASE SampleStop
    <2>1. /\ pc = "sample" /\ pc' = "end" /\ Len(cached_tokens) = pos
          /\ UNCHANGED <<model, kv_cache, cached_tokens, cut>>
      BY <1>9 DEF SampleStop, sessionVars, RingSessionInv, ShapeInv, ProgressInv
    <2>2. logits'.ctx = logits.ctx
      BY <1>9 DEF SampleStop, RingSessionInv, ShapeInv, TypeOK, LogitsHeldInv, Logits
    <2>3. ASSUME kv_cache.sliding_window > 0, model = "standard", ~cut, Len(cached_tokens) < MaxLen
          PROVE  /\ RingHolds(kv_cache, cached_tokens, Len(cached_tokens))
                 /\ logits.ctx = cached_tokens
      <3>1. pos <= MaxLen
        BY <1>0, <2>1, <2>3
      <3> QED BY <2>1, <2>3, <3>1 DEF RingSessionInv, RingInv, RingReaches, RingReuseInvisible
    <2> QED BY <2>1, <2>2, <2>3 DEF RingInv, RingReuseInvisible
  <1>10. CASE ForwardToken
    <2>1. /\ pos < MaxLen - 1 /\ Len(cached_tokens) = pos + 1 /\ pos \in 0 .. Len(cached_tokens) - 1
          /\ pc = "forward" /\ pc' = "sample" /\ pos' = pos + 1
          /\ UNCHANGED <<model, cached_tokens, cut>>
      BY <1>0, <1>10 DEF ForwardToken, RingSessionInv, ShapeInv, ProgressInv
    <2>2. /\ logits'.ctx = ForwardRow(kv_cache, model, cached_tokens[pos + 1], pos)
          /\ kv_cache' = Forward(kv_cache, model, cached_tokens[pos + 1], pos)
      BY <1>10, <2>1 DEF ForwardToken
    <2>3. SameShape(kv_cache', kv_cache)
      <3>1. InStorage(kv_cache, pos)
        BY <1>0, <2>1, CacheFacts, InStorageFacts
      <3> QED BY <1>0, <1>2, <2>1, <2>2, <3>1
    <2>4. ASSUME kv_cache'.sliding_window > 0, model' = "standard", ~cut'
          PROVE  RingHolds(kv_cache', cached_tokens', pos') /\ logits'.ctx = cached_tokens'
      <3>1. kv_cache.sliding_window > 0 /\ RingReaches(pos + 1)
        BY <1>0, <2>1, <2>3, <2>4 DEF SameShape, RingReaches
      <3>2. RingHolds(kv_cache, cached_tokens, pos)
        BY <2>1, <2>4, <3>1 DEF RingSessionInv, RingInv
      <3>3. /\ ForwardRow(kv_cache, model, cached_tokens[pos + 1], pos)
                 = SubSeq(cached_tokens, 1, pos + 1)
            /\ RingHolds(Forward(kv_cache, model, cached_tokens[pos + 1], pos),
                         cached_tokens, pos + 1)
        BY <1>0, <1>1, <2>1, <2>4, <3>1, <3>2
      <3>4. SubSeq(cached_tokens, 1, pos + 1) = cached_tokens
        BY <1>0, <2>1, WholePrefix
      <3> QED BY <2>1, <2>2, <3>3, <3>4
    <2> QED BY <2>1, <2>4 DEF RingInv, RingReuseInvisible
  <1>11. CASE EndTurn
    <2>1. /\ pc' = "idle" /\ last_logits' = logits
          /\ UNCHANGED <<model, kv_cache, cached_tokens, cut>>
      BY <1>11 DEF EndTurn
    <2>2. ASSUME kv_cache.sliding_window > 0, model = "standard", ~cut, Len(cached_tokens) < MaxLen
          PROVE  /\ RingHolds(kv_cache, cached_tokens, Len(cached_tokens))
                 /\ logits.ctx = cached_tokens
      <3>1. CASE pc = "end"
        BY <2>2, <3>1 DEF RingSessionInv, RingInv
      <3>2. CASE pc = "sample"
        <4>1. Len(cached_tokens) = pos /\ pos <= MaxLen
          BY <1>0, <2>2, <3>2 DEF RingSessionInv, ShapeInv, ProgressInv
        <4> QED BY <2>2, <3>2, <4>1 DEF RingSessionInv, RingInv, RingReaches, RingReuseInvisible
      <3> QED BY <1>11, <3>1, <3>2 DEF EndTurn
    <2> QED BY <2>1, <2>2 DEF RingInv, RingReuseInvisible
  <1>12. CASE UNCHANGED vars
    <2>1. UNCHANGED <<model, kv_cache, cached_tokens, last_logits, pc, tokens, fed, pos, logits, cut>>
      BY <1>12 DEF vars
    <2> QED BY <2>1 DEF RingSessionInv, RingInv, RingReuseInvisible, RingReaches
  <1> QED BY <1>3, <1>4, <1>5, <1>6, <1>7, <1>8, <1>9, <1>10, <1>11, <1>12 DEF Next

\* With a window a turn samples from the logits of its own conversation, as
\* long as the prompts only extend it and the ring reaches as far as the window
\* or the conversation (KVCache::set_sliding_window, Session::cached_tokens).
THEOREM RingReuseCorrect == Spec => []RingReuseInvisible
  <1>1. Init => RingSessionInv
    BY InitShape, InitRing DEF RingSessionInv
  <1>2. RingSessionInv /\ [Next]_vars => RingSessionInv'
    BY NextShape, NextRing DEF RingSessionInv
  <1>3. RingSessionInv => RingReuseInvisible
    BY DEF RingSessionInv
  <1> QED BY <1>1, <1>2, <1>3, PTL DEF Spec
=============================================================================
