---------------------------- MODULE PrefixCache ----------------------------
(***************************************************************************)
(* SharedPrefixCache of src/src/runtime.rs: snapshots of completed         *)
(* prompts, shared by the stateless requests of all clients, the most      *)
(* recently used first.  A snapshot is [tokens, rows, logits]: the prompt, *)
(* the cache rows of its positions, and the logits of its last token.      *)
(***************************************************************************)
EXTENDS KVCache, SequencesExt

CONSTANTS
  MaxEntries,   \* RUSTY_LLM_PREFIX_CACHE_ENTRIES
  MaxTokens,    \* RUSTY_LLM_PREFIX_CACHE_TOKENS
  MaxBytes,     \* RUSTY_LLM_PREFIX_CACHE_BYTES
  RowFloats,    \* floats of one position over all layers
  LogitsBytes   \* bytes of one vector of logits

\* Slip: a snapshot of the prompt's beginning is taken for it.
PositionOfPrefix(entries, tokens, i) ==
  /\ i \in DOMAIN entries
  /\ IsPrefix(entries[i].tokens, tokens)
  /\ \A j \in 1 .. i - 1 : ~IsPrefix(entries[j].tokens, tokens)

\* i is the first place of the prompt in entries.
Position(entries, tokens, i) ==
  /\ i \in DOMAIN entries
  /\ entries[i].tokens = tokens
  /\ \A j \in 1 .. i - 1 : entries[j].tokens # tokens

Known(entries, tokens) == \E i \in DOMAIN entries : Position(entries, tokens, i)

PlaceOf(entries, tokens) == CHOOSE i \in DOMAIN entries : Position(entries, tokens, i)

SnapshotOf(entries, tokens) == entries[PlaceOf(entries, tokens)]

Without(entries, tokens) ==
  IF Known(entries, tokens) THEN RemoveAt(entries, PlaceOf(entries, tokens)) ELSE entries

\* What restore compares: layout, recurrent state and length of the new cache.
Restorable(entry, kv, bf16, model) ==
  /\ ~bf16
  /\ model # "hybrid"
  /\ Len(entry.tokens) <= kv.storage_len

\* Slip: the entry that was used last goes to the end.
RestoredToEnd(entries, tokens) ==
  IF Known(entries, tokens)
  THEN Append(Without(entries, tokens), SnapshotOf(entries, tokens))
  ELSE entries

\* restore's effect on the entries: a known prompt moves to the front, even
\* when its snapshot does not fit the new cache.
Restored(entries, tokens) ==
  IF Known(entries, tokens)
  THEN <<SnapshotOf(entries, tokens)>> \o Without(entries, tokens)
  ELSE entries

\* Slip: the snapshot's rows take the place of the new cache's storage.
RestoreStorage(kv, entry) ==
  [kv EXCEPT !.rows = [s \in 0 .. Len(entry.rows) - 1 |-> entry.rows[s + 1]]]

\* restore's effect on the cache of the request.
RestoreRows(kv, entry) ==
  [kv EXCEPT !.rows = [s \in DOMAIN kv.rows |->
                         IF s + 1 \in DOMAIN entry.rows THEN entry.rows[s + 1] ELSE kv.rows[s]]]

\* The size insert compares with the limit: a row counts its floats, not their bytes.
CountedBytes(tokens) == Len(tokens) * RowFloats + LogitsBytes

Insertable(tokens, kv, bf16, model) ==
  /\ Len(tokens) \in 1 .. MaxTokens
  /\ kv.sliding_window = 0
  /\ Len(tokens) <= kv.storage_len
  /\ ~bf16
  /\ model # "hybrid"
  /\ CountedBytes(tokens) <= MaxBytes

\* Rows of a bf16 cache are elsewhere: there would be nothing to copy.
SnapshotRows(tokens, kv, bf16) ==
  [i \in 1 .. Len(tokens) |-> IF bf16 THEN Garbage ELSE kv.rows[slot_for_pos(kv, i - 1)]]

\* Slip: room is made before the snapshot is put in front.
InsertedAfterTruncate(entries, tokens, kv, bf16, model, logits) ==
  IF ~Insertable(tokens, kv, bf16, model) THEN entries
  ELSE LET rest == Without(entries, tokens)
       IN  <<[tokens |-> tokens, rows |-> SnapshotRows(tokens, kv, bf16), logits |-> logits]>>
             \o SubSeq(rest, 1, Least(Len(rest), MaxEntries))

Inserted(entries, tokens, kv, bf16, model, logits) ==
  IF ~Insertable(tokens, kv, bf16, model) THEN entries
  ELSE LET all == <<[tokens |-> tokens, rows |-> SnapshotRows(tokens, kv, bf16),
                     logits |-> logits]>> \o Without(entries, tokens)
       IN  SubSeq(all, 1, Least(Len(all), MaxEntries))
=============================================================================
