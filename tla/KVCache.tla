------------------------------ MODULE KVCache ------------------------------
(***************************************************************************)
(* The key/value cache of src/src/model.rs (KVCache) and the forward       *)
(* passes that read and write it.                                          *)
(*                                                                         *)
(* What matters of a row is which tokens it was computed from.  A row is   *)
(* therefore the sequence of tokens up to and including its own position,  *)
(* or Garbage when it was never written or was computed from rows that do  *)
(* not belong to one sequence.  The logits of a forward pass are computed  *)
(* from the same tokens as the row it writes.                              *)
(*                                                                         *)
(* A cache is [max_len, storage_len, sliding_window, rows, ssm]:           *)
(* sliding_window is 0 for None, and ssm is the sequence the recurrent     *)
(* state of a hybrid model has consumed.  Positions count from 0.  A       *)
(* window of one position is left out: its rows depend on one token.       *)
(*                                                                         *)
(* Four kinds of model differ in how they use the cache:                   *)
(*   standard     every layer attends within the window;                   *)
(*   batched      the same, with weights the batch kernels take;           *)
(*   interleaved  gpt-oss, gemma4, laguna: some layers attend from the     *)
(*                first position whatever the window is;                   *)
(*   hybrid       qwen35, nemotron-h: attention from the first position,   *)
(*                and recurrent state (their batch path works token by     *)
(*                token too).                                              *)
(***************************************************************************)
EXTENDS Integers, Sequences

CONSTANTS
  Tokens,
  Garbage

ASSUME CacheAssumption == Garbage \notin Seq(Tokens)

Least(a, b) == IF a <= b THEN a ELSE b

\* What a row, recurrent state or a vector of logits may be computed from.
Origins == Seq(Tokens) \cup {Garbage}

\* The tokens at positions 0 .. pos of a sequence.
Prefix(seq, pos) == SubSeq(seq, 1, pos + 1)

\* Slip: the last position has no slot.
storage_len_one_short(max_len, window) == IF window > 0 THEN Least(window, max_len) ELSE max_len - 1

\* The number of slots: the ring of a sliding window, else one per position.
storage_len_for(max_len, window) == IF window > 0 THEN Least(window, max_len) ELSE max_len

slot_for_pos(kv, pos) == IF kv.sliding_window > 0 THEN pos % kv.storage_len ELSE pos

\* The slice a row is copied to exists (a ring always has the slot).
InStorage(kv, pos) == slot_for_pos(kv, pos) < kv.storage_len

\* Slip: the lower bound of the window is inclusive.
attention_start_pos_inclusive(pos, window) == IF window > 0 /\ pos > window THEN pos - window ELSE 0

\* First position a windowed layer attends to at pos.
attention_start_pos(pos, window) == IF window > 0 /\ pos + 1 > window THEN pos + 1 - window ELSE 0

ModelKinds == {"standard", "batched", "interleaved", "hybrid"}

\* The past positions some layer reads in a forward pass at pos.
Attended(kv, model, pos) ==
  (IF model \in {"interleaved", "hybrid"} THEN 0 ELSE attention_start_pos(pos, kv.sliding_window))
    .. pos - 1

NewCache(max_len, window) ==
  [max_len        |-> max_len,
   storage_len    |-> storage_len_for(max_len, window),
   sliding_window |-> window,
   rows           |-> [s \in 0 .. storage_len_for(max_len, window) - 1 |-> Garbage],
   ssm            |-> <<>>]

\* Slip: the buffers are not resized.
set_sliding_window_no_resize(kv, window) ==
  [kv EXCEPT !.sliding_window = window, !.storage_len = storage_len_for(kv.max_len, window)]

\* KVCache::set_sliding_window: rows keep their slots; new slots are zeroed.
set_sliding_window(kv, window) ==
  LET storage == storage_len_for(kv.max_len, window)
  IN  [kv EXCEPT !.sliding_window = window,
                 !.storage_len = storage,
                 !.rows = [s \in 0 .. storage - 1 |->
                             IF s \in DOMAIN kv.rows THEN kv.rows[s] ELSE Garbage]]

WindowChanges(kv, window) ==
  \/ kv.sliding_window # window
  \/ kv.storage_len # storage_len_for(kv.max_len, window)

(***************************************************************************)
(* The tokens a forward pass at pos is conditioned on.  Its own row is     *)
(* written before attention reads, so a past position that shares its slot *)
(* is lost.                                                                *)
(***************************************************************************)
AttendedSequence(kv, model, pos) ==
  IF pos = 0 THEN <<>>
  ELSE LET prev == kv.rows[slot_for_pos(kv, pos - 1)]
       IN  IF /\ prev # Garbage
              /\ Len(prev) = pos
              /\ \A q \in Attended(kv, model, pos) :
                   /\ slot_for_pos(kv, q) # slot_for_pos(kv, pos)
                   /\ kv.rows[slot_for_pos(kv, q)] = Prefix(prev, q)
           THEN prev ELSE Garbage

\* A hybrid model also reads its recurrent state.
History(kv, model, pos) ==
  LET attended == AttendedSequence(kv, model, pos)
  IN  IF model = "hybrid" /\ kv.ssm # attended THEN Garbage ELSE attended

RowOf(history, token) == IF history = Garbage THEN Garbage ELSE Append(history, token)

WriteRow(kv, model, pos, row) ==
  [kv EXCEPT !.rows[slot_for_pos(kv, pos)] = row,
             !.ssm = IF model = "hybrid" THEN row ELSE @]

\* One token through the model (forward_into and its per-architecture kin).
Forward(kv, model, token, pos) ==
  WriteRow(kv, model, pos, RowOf(History(kv, model, pos), token))

ForwardRow(kv, model, token, pos) == RowOf(History(kv, model, pos), token)

(***************************************************************************)
(* forward_prefill_batch on a chunk that fits the storage: every token's   *)
(* row is written before any token attends, so a token also loses the past *)
(* positions whose slots later tokens of the chunk took, and the tokens    *)
(* after it attend to what came of its row.                                *)
(***************************************************************************)
ForwardBatch(kv, model, chunk, first) ==
  LET last    == first + Len(chunk) - 1
      history == History(kv, model, first)
      Lost(pos) == \E q \in Attended(kv, model, pos), r \in pos + 1 .. last :
                     slot_for_pos(kv, q) = slot_for_pos(kv, r)
      Row(pos) == IF history = Garbage \/ \E p \in first .. pos : Lost(p) THEN Garbage
                  ELSE history \o SubSeq(chunk, 1, pos - first + 1)
      Writers(slot) == {pos \in first .. last : slot_for_pos(kv, pos) = slot}
  IN  [kv EXCEPT !.rows = [s \in DOMAIN kv.rows |->
                             IF Writers(s) = {} THEN kv.rows[s]
                             ELSE Row(CHOOSE pos \in Writers(s) : TRUE)]]

\* A well-formed cache: as many slots as its window gives it, each with a row.
CacheOK(kv) ==
  LET storage == storage_len_for(kv.max_len, kv.sliding_window)
  IN  kv \in [max_len : Nat \ {0}, storage_len : {storage}, sliding_window : Nat,
              rows : [0 .. storage - 1 -> Origins], ssm : Origins]

\* A cache without a window holds exactly what the first n tokens of seq leave.
Holds(kv, model, seq, n) ==
  /\ CacheOK(kv) /\ kv.sliding_window = 0
  /\ \A p \in 0 .. n - 1 : kv.rows[p] = Prefix(seq, p)
  /\ model = "hybrid" => kv.ssm = SubSeq(seq, 1, n)

\* A ring holds what the first n tokens of seq leave: the last rows, one per slot.
RingHolds(kv, seq, n) ==
  \A p \in 0 .. n - 1 : n <= p + kv.storage_len => kv.rows[slot_for_pos(kv, p)] = Prefix(seq, p)
=============================================================================
