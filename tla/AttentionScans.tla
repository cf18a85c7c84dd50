--------------------------- MODULE AttentionScans ---------------------------
(***************************************************************************)
(* Attention over the KV cache (src/src/model.rs): the online softmax, its *)
(* grouped form for query heads that share a KV head, and the ways the     *)
(* (token, head) pairs of a call are handed to workers: per head, per      *)
(* token and head, and in tiles of tokens over blocks of positions.        *)
(*                                                                         *)
(* Scores are integers.  A weight exp(a) is its exponent a, a weighted sum *)
(* of rows the sequence of its terms [row, exp] in the order they were     *)
(* added, and a sum of weights the sequence of their exponents.  A call is *)
(*   [n_kv_heads, kv_mul, slot_count, sliding_window, start_pos, b, mem,   *)
(*    score, sink, parallel]: mem[s] is the position whose row slot s      *)
(* holds, score[q][p] the score of query q (one per token and head, token  *)
(* after token) at position p, and parallel whether the work reaches       *)
(* attention_parallel_min_work.                                            *)
(***************************************************************************)
EXTENDS Integers, Sequences

CONSTANTS
  KV_TILE_BLOCK,       \* 128 in the code
  PREFILL_TOKEN_TILE,  \* 64
  MAX_KV_MUL           \* 16

ASSUME TilesAssumption ==
  KV_TILE_BLOCK \in Nat \ {0} /\ PREFILL_TOKEN_TILE \in Nat \ {0} /\ MAX_KV_MUL \in Nat

Least(a, b) == IF a <= b THEN a ELSE b
SatSub(a, b) == IF a >= b THEN a - b ELSE 0
DivCeil(a, b) == (a + b - 1) \div b

NegInf == -1000      \* below every score
Vanishing == -2000   \* the exponent of the factor 0
Unwritten == <<[row |-> -2, exp |-> 0]>>  \* what an output buffer held before

attention_start_pos(pos, sliding_window) ==
  IF sliding_window > 0 THEN SatSub(pos + 1, sliding_window) ELSE 0

attention_uses_linear_slots(start_t, end_t, slot_count) ==
  start_t <= end_t /\ end_t < slot_count

\* The slots of start_t .. end_t in the order they are visited.
SlotWalk(start_t, end_t, slot_count) ==
  LET n == end_t - start_t + 1
      slot[i \in 1 .. n] ==
        IF i = 1
        THEN IF attention_uses_linear_slots(start_t, end_t, slot_count) THEN start_t
             ELSE start_t % slot_count
        ELSE IF slot[i - 1] + 1 = slot_count THEN 0 ELSE slot[i - 1] + 1
  IN  IF slot_count = 0 \/ start_t > end_t THEN <<>> ELSE [i \in 1 .. n |-> slot[i]]

-----------------------------------------------------------------------------
(* The online softmax: [max, denom, out]. *)

Start(out) == [max |-> NegInf, denom |-> <<>>, out |-> out]
StartAtSink(sink, out) == [max |-> sink, denom |-> <<0>>, out |-> out]

\* out * multiplier + weight * row, and what the same does to the denominator;
\* multiplying by 0 leaves nothing.
Affine(out, multiplier, weight, row) ==
  Append(IF multiplier = Vanishing THEN <<>>
         ELSE [i \in DOMAIN out |-> [out[i] EXCEPT !.exp = @ + multiplier]],
         [row |-> row, exp |-> weight])
AffineDenom(denom, multiplier, weight) ==
  Append(IF multiplier = Vanishing THEN <<>> ELSE [i \in DOMAIN denom |-> denom[i] + multiplier],
         weight)

OldScale(max, score) == IF max = NegInf THEN Vanishing ELSE max - score

\* One row for one head: a new maximum rescales what there is.
Visit(acc, score, row) ==
  IF score > acc.max
  THEN [max   |-> score,
        denom |-> AffineDenom(acc.denom, OldScale(acc.max, score), 0),
        out   |-> Affine(acc.out, OldScale(acc.max, score), 0, row)]
  ELSE [acc EXCEPT !.denom = Append(@, score - acc.max),
                   !.out   = Affine(@, 0, score - acc.max, row)]

\* One row for a head of a group of four: the scales of the four are
\* collected (1, the exponent 0, where there is no new maximum), then applied
\* together.
VisitTogether(acc, score, row) ==
  LET higher     == score > acc.max
      multiplier == IF higher THEN OldScale(acc.max, score) ELSE 0
      alpha      == IF higher THEN 0 ELSE score - acc.max
  IN  [max   |-> IF higher THEN score ELSE acc.max,
       denom |-> AffineDenom(acc.denom, multiplier, alpha),
       out   |-> Affine(acc.out, multiplier, alpha, row)]

\* One row for the heads of a group; groups of four and six take the first
\* four together.
VisitGroup(accs, scores, row, kv_mul) ==
  [g \in 0 .. kv_mul - 1 |->
    IF kv_mul \in {4, 6} /\ g < 4 THEN VisitTogether(accs[g], scores[g], row)
                                 ELSE Visit(accs[g], scores[g], row)]

\* The sum over its denominator; an empty denominator divides nothing.
Normalised(acc) == [terms |-> acc.out, over |-> acc.denom]

\* The rows of start_t .. end_t for one head, whose scores are score[p].
online_attention(call, score, start_t, end_t, acc) ==
  LET walk == SlotWalk(start_t, end_t, call.slot_count)
      scan[i \in 0 .. Len(walk)] ==
        IF i = 0 THEN acc ELSE LET p == call.mem[walk[i]] IN Visit(scan[i - 1], score[p], p)
  IN  scan[Len(walk)]

online_attention_with_sink(call, q) ==
  Normalised(online_attention(call, call.score[q],
                              attention_start_pos(call.start_pos, call.sliding_window),
                              call.start_pos, StartAtSink(call.sink, <<>>)))

\* The same rows for the heads of a group, whose queries begin at q.
online_attention_grouped_scan(call, q, kv_mul, start_t, end_t, accs) ==
  LET walk == SlotWalk(start_t, end_t, call.slot_count)
      scan[i \in 0 .. Len(walk)] ==
        IF i = 0 THEN accs
        ELSE LET p == call.mem[walk[i]]
             IN  VisitGroup(scan[i - 1], [g \in 0 .. kv_mul - 1 |-> call.score[q + g][p]], p, kv_mul)
  IN  scan[Len(walk)]

online_attention_grouped_finalize(accs) == [g \in DOMAIN accs |-> Normalised(accs[g])]

online_attention_grouped(call, q, start_t, end_t) ==
  IF call.kv_mul = 1
  THEN [g \in {0} |-> Normalised(online_attention(call, call.score[q], start_t, end_t, Start(Unwritten)))]
  ELSE LET kv_mul == Least(call.kv_mul, MAX_KV_MUL)
           fresh  == [g \in 0 .. kv_mul - 1 |-> Start(Unwritten)]
       IN  online_attention_grouped_finalize(
             online_attention_grouped_scan(call, q, kv_mul, start_t, end_t, fresh))

\* The bf16 copy widens each row once and is otherwise the same.
online_attention_bf16(call, score, start_t, end_t) ==
  Normalised(online_attention(call, score, start_t, end_t, Start(Unwritten)))

online_attention_grouped_bf16(call, q, start_t, end_t) ==
  IF call.kv_mul = 1 THEN [g \in {0} |-> online_attention_bf16(call, call.score[q], start_t, end_t)]
  ELSE LET kv_mul == Least(call.kv_mul, MAX_KV_MUL)
           fresh  == [g \in 0 .. kv_mul - 1 |-> Start(Unwritten)]
       IN  online_attention_grouped_finalize(
             online_attention_grouped_scan(call, q, kv_mul, start_t, end_t, fresh))

-----------------------------------------------------------------------------
(* Who computes what.  A unit's writes are the set of [at, is]: what it    *)
(* puts at which head of the output.                                       *)

Heads(call) == call.n_kv_heads * call.kv_mul

\* The group of KV head kv_h of token t, from grouped attention.
GroupWrites(call, t, kv_h, group) ==
  LET first == t * Heads(call) + kv_h * call.kv_mul
  IN  {[at |-> first + g, is |-> group[g]] : g \in DOMAIN group}

\* One query head per unit; the output was zeroed before.
attention_over_heads_with_sink(call) ==
  [h \in 0 .. Heads(call) - 1 |-> {[at |-> h, is |-> online_attention_with_sink(call, h)]}]

attn_heads_trampoline(call, kv_h) ==
  GroupWrites(call, 0, kv_h,
    online_attention_grouped(call, kv_h * call.kv_mul,
                             attention_start_pos(call.start_pos, call.sliding_window),
                             call.start_pos))

attn_heads_trampoline_bf16(call, kv_h) ==
  GroupWrites(call, 0, kv_h,
    online_attention_grouped_bf16(call, kv_h * call.kv_mul,
                                  attention_start_pos(call.start_pos, call.sliding_window),
                                  call.start_pos))

\* One KV head per unit; without workers the units follow each other.
attention_over_kv_heads(call) ==
  [kv_h \in 0 .. call.n_kv_heads - 1 |-> attn_heads_trampoline(call, kv_h)]
attention_over_kv_heads_bf16(call) ==
  [kv_h \in 0 .. call.n_kv_heads - 1 |-> attn_heads_trampoline_bf16(call, kv_h)]

\* Unit u is KV head u % n of token u / n.
prefill_attn_batch_range(call, u) ==
  LET t    == u \div call.n_kv_heads
      kv_h == u % call.n_kv_heads
      pos  == call.start_pos + t
  IN  GroupWrites(call, t, kv_h,
        online_attention_grouped(call, t * Heads(call) + kv_h * call.kv_mul,
                                 attention_start_pos(pos, call.sliding_window), pos))
prefill_attn_batch_range_bf16(call, u) ==
  LET t    == u \div call.n_kv_heads
      kv_h == u % call.n_kv_heads
      pos  == call.start_pos + t
  IN  GroupWrites(call, t, kv_h,
        online_attention_grouped_bf16(call, t * Heads(call) + kv_h * call.kv_mul,
                                      attention_start_pos(pos, call.sliding_window), pos))

\* Without workers one loop over tokens and, in it, KV heads.
SerialPrefill(call, Grouped(_, _, _, _)) ==
  [t \in 0 .. call.b - 1 |->
    UNION {GroupWrites(call, t, kv_h,
             Grouped(call, t * Heads(call) + kv_h * call.kv_mul,
               attention_start_pos(call.start_pos + t, call.sliding_window), call.start_pos + t)) :
           kv_h \in 0 .. call.n_kv_heads - 1}]

attention_over_kv_heads_prefill_batch(call) ==
  IF call.parallel /\ call.b * call.n_kv_heads > 1
  THEN [u \in 0 .. call.b * call.n_kv_heads - 1 |-> prefill_attn_batch_range(call, u)]
  ELSE SerialPrefill(call, online_attention_grouped)
attention_over_kv_heads_prefill_batch_bf16(call) ==
  IF call.parallel /\ call.b * call.n_kv_heads > 1
  THEN [u \in 0 .. call.b * call.n_kv_heads - 1 |-> prefill_attn_batch_range_bf16(call, u)]
  ELSE SerialPrefill(call, online_attention_grouped_bf16)

-----------------------------------------------------------------------------
(* Tiles of tokens over blocks of positions, without a window. *)

NumTiles(call) == DivCeil(call.b, PREFILL_TOKEN_TILE)

\* Slip: the tokens of a tile begin where the block ends.
TileTokensAfterBlock(block_start, pos_first, tile_len) ==
  SatSub(Least(block_start + KV_TILE_BLOCK, pos_first + tile_len) - 1, pos_first) .. tile_len - 1

\* The tokens of a tile that need the block: those at or after its start.
TileTokens(block_start, pos_first, tile_len) == SatSub(block_start, pos_first) .. tile_len - 1

\* The softmax state of every token of the tile after the blocks before
\* block_start, from the state `accs`.
TileBlocks(call, kv_h, kv_mul, tile_start, tile_len, accs) ==
  LET pos_first == call.start_pos + tile_start
      pos_last  == pos_first + tile_len - 1
      after[blocks \in 0 .. pos_last \div KV_TILE_BLOCK + 1] ==
        IF blocks = 0 THEN accs
        ELSE LET block_start == (blocks - 1) * KV_TILE_BLOCK
                 block_end   == Least(block_start + KV_TILE_BLOCK - 1, pos_last)
             IN  [t \in 0 .. tile_len - 1 |->
                   IF t \notin TileTokens(block_start, pos_first, tile_len) THEN after[blocks - 1][t]
                   ELSE online_attention_grouped_scan(call,
                          (tile_start + t) * call.n_kv_heads * kv_mul + kv_h * kv_mul, kv_mul,
                          block_start, Least(block_end, pos_first + t), after[blocks - 1][t])]
  IN  after[pos_last \div KV_TILE_BLOCK + 1]

\* Unit u is tile u % num_tiles of KV head u / num_tiles.
prefill_attn_tiled_range(call, u) ==
  LET kv_mul     == Least(call.kv_mul, MAX_KV_MUL)
      kv_h       == u \div NumTiles(call)
      tile_start == (u % NumTiles(call)) * PREFILL_TOKEN_TILE
      tile_len   == Least(tile_start + PREFILL_TOKEN_TILE, call.b) - tile_start
      fresh      == [t \in 0 .. tile_len - 1 |-> [g \in 0 .. kv_mul - 1 |-> Start(Unwritten)]]
      done       == TileBlocks(call, kv_h, kv_mul, tile_start, tile_len, fresh)
  IN  UNION {GroupWrites(call, tile_start + t, kv_h, online_attention_grouped_finalize(done[t])) :
             t \in 0 .. tile_len - 1}

attention_over_kv_heads_prefill_batch_tiled(call) ==
  [u \in 0 .. call.n_kv_heads * NumTiles(call) - 1 |-> prefill_attn_tiled_range(call, u)]
=============================================================================
