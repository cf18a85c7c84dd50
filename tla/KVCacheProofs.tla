--------------------------- MODULE KVCacheProofs ---------------------------
(***************************************************************************)
(* Facts about the key/value cache, for every capacity and every window,   *)
(* that the proofs about session turns, stateless requests and speculative *)
(* decoding share: forward passes keep a cache well formed, and without a  *)
(* window a cache that holds the rows of a text holds, after the next      *)
(* token, those of the longer text.                                        *)
(***************************************************************************)
EXTENDS KVCache, TLAPS

-----------------------------------------------------------------------------
(* Facts about prefixes of token sequences. *)

\* A prefix is a sequence of its positions.
LEMMA PrefixFacts ==
  ASSUME NEW seq \in Seq(Tokens), NEW n \in 0 .. Len(seq)
  PROVE  /\ SubSeq(seq, 1, n) \in Seq(Tokens)
         /\ Len(SubSeq(seq, 1, n)) = n
         /\ \A i \in 1 .. n : SubSeq(seq, 1, n)[i] = seq[i]
  OBVIOUS

\* The first tokens of a prefix are those of the sequence.
LEMMA PrefixOfPrefix ==
  ASSUME NEW seq \in Seq(Tokens), NEW n \in 0 .. Len(seq), NEW m \in 0 .. n
  PROVE  SubSeq(SubSeq(seq, 1, n), 1, m) = SubSeq(seq, 1, m)
  BY PrefixFacts

\* A prefix grows by the next token.
LEMMA PrefixGrows ==
  ASSUME NEW seq \in Seq(Tokens), NEW n \in 0 .. Len(seq) - 1
  PROVE  Append(SubSeq(seq, 1, n), seq[n + 1]) = SubSeq(seq, 1, n + 1)
  BY PrefixFacts

\* A prefix grows by the next tokens.
LEMMA PrefixConcat ==
  ASSUME NEW seq \in Seq(Tokens), NEW n \in 0 .. Len(seq), NEW m \in n .. Len(seq),
         NEW k \in 1 .. m - n
  PROVE  SubSeq(seq, 1, n) \o SubSeq(SubSeq(seq, n + 1, m), 1, k) = SubSeq(seq, 1, n + k)
  OBVIOUS

\* Sequences that agree on their first n elements have the same prefixes.
LEMMA CommonPrefix ==
  ASSUME NEW a \in Seq(Tokens), NEW b \in Seq(Tokens), NEW n \in Nat,
         n <= Len(a), n <= Len(b), \A i \in 1 .. n : a[i] = b[i]
  PROVE  SubSeq(a, 1, n) = SubSeq(b, 1, n)
  OBVIOUS

\* The whole of a sequence.
LEMMA WholePrefix ==
  ASSUME NEW seq \in Seq(Tokens)
  PROVE  SubSeq(seq, 1, Len(seq)) = seq
  OBVIOUS

\* A token appended to a sequence leaves its prefixes alone.
LEMMA AppendPrefix ==
  ASSUME NEW seq \in Seq(Tokens), NEW token \in Tokens, NEW n \in 0 .. Len(seq)
  PROVE  /\ Append(seq, token) \in Seq(Tokens)
         /\ Len(Append(seq, token)) = Len(seq) + 1
         /\ Append(seq, token)[Len(seq) + 1] = token
         /\ SubSeq(Append(seq, token), 1, n) = SubSeq(seq, 1, n)
  OBVIOUS

-----------------------------------------------------------------------------
(* Well-formed caches. *)

\* A cache has at least one slot and at most one per position.
LEMMA StorageFacts ==
  ASSUME NEW n \in Nat \ {0}, NEW window \in Nat
  PROVE  /\ storage_len_for(n, window) \in 1 .. n
         /\ window = 0 => storage_len_for(n, window) = n
  BY DEF storage_len_for, Least

\* What a well-formed cache consists of.
LEMMA CacheFacts ==
  ASSUME NEW kv, CacheOK(kv)
  PROVE  /\ kv.max_len \in Nat \ {0} /\ kv.sliding_window \in Nat
         /\ kv.storage_len \in 1 .. kv.max_len
         /\ kv.storage_len = storage_len_for(kv.max_len, kv.sliding_window)
         /\ kv.sliding_window = 0 => kv.storage_len = kv.max_len
         /\ kv.rows \in [0 .. kv.storage_len - 1 -> Origins] /\ kv.ssm \in Origins
  BY StorageFacts DEF CacheOK

\* Caches of the same dimensions.
SameShape(a, b) ==
  /\ a.max_len = b.max_len
  /\ a.storage_len = b.storage_len
  /\ a.sliding_window = b.sliding_window

Replaced(kv, rows, ssm) == [kv EXCEPT !.rows = rows, !.ssm = ssm]

\* A cache stays one when its rows and its recurrent state are replaced.
LEMMA ReplaceRows ==
  ASSUME NEW kv, CacheOK(kv), NEW rows \in [0 .. kv.storage_len - 1 -> Origins],
         NEW ssm \in Origins
  PROVE  /\ CacheOK(Replaced(kv, rows, ssm)) /\ SameShape(Replaced(kv, rows, ssm), kv)
         /\ Replaced(kv, rows, ssm).rows = rows /\ Replaced(kv, rows, ssm).ssm = ssm
  BY DEF CacheOK, SameShape, Replaced

\* Slots are numbers.
LEMMA SlotNat ==
  ASSUME NEW kv, CacheOK(kv), NEW at \in Nat
  PROVE  slot_for_pos(kv, at) \in Nat
  BY CacheFacts DEF slot_for_pos

\* Writing a row keeps a cache a cache.
LEMMA WriteRowType ==
  ASSUME NEW kv, CacheOK(kv), NEW m, NEW at \in Nat, NEW row \in Origins
  PROVE  /\ CacheOK(WriteRow(kv, m, at, row))
         /\ SameShape(WriteRow(kv, m, at, row), kv)
         /\ WriteRow(kv, m, at, row).rows = [kv.rows EXCEPT ![slot_for_pos(kv, at)] = row]
         /\ WriteRow(kv, m, at, row).ssm = IF m = "hybrid" THEN row ELSE kv.ssm
  <1> DEFINE rows == [kv.rows EXCEPT ![slot_for_pos(kv, at)] = row]
             ssm == IF m = "hybrid" THEN row ELSE kv.ssm
  <1>1. WriteRow(kv, m, at, row) = Replaced(kv, rows, ssm)
    BY DEF WriteRow, Replaced, CacheOK
  <1>2. rows \in [0 .. kv.storage_len - 1 -> Origins] /\ ssm \in Origins
    BY CacheFacts
  <1> HIDE DEF rows, ssm
  <1>3. /\ CacheOK(Replaced(kv, rows, ssm)) /\ SameShape(Replaced(kv, rows, ssm), kv)
        /\ Replaced(kv, rows, ssm).rows = rows /\ Replaced(kv, rows, ssm).ssm = ssm
    BY <1>2, ReplaceRows
  <1> QED BY <1>1, <1>3 DEF rows, ssm

\* The slot of a position in storage, and of every position before it, exists.
LEMMA SlotInStorage ==
  ASSUME NEW kv, CacheOK(kv), NEW at \in Nat, InStorage(kv, at), NEW q \in 0 .. at
  PROVE  slot_for_pos(kv, q) \in 0 .. kv.storage_len - 1
  BY CacheFacts DEF InStorage, slot_for_pos

\* What a token attends to is a sequence of tokens or garbage.
LEMMA HistoryType ==
  ASSUME NEW kv, CacheOK(kv), NEW m, NEW at \in Nat, InStorage(kv, at)
  PROVE  History(kv, m, at) \in Origins
  <1>1. AttendedSequence(kv, m, at) \in Origins
    <2>1. CASE at = 0
      BY <2>1 DEF AttendedSequence, Origins
    <2>2. CASE at # 0
      <3> DEFINE prev == kv.rows[slot_for_pos(kv, at - 1)]
      <3>1. slot_for_pos(kv, at - 1) \in 0 .. kv.storage_len - 1
        BY <2>2, SlotInStorage
      <3>2. prev \in Origins
        BY <3>1 DEF CacheOK
      <3>3. AttendedSequence(kv, m, at) \in {prev, Garbage}
        BY <2>2 DEF AttendedSequence
      <3> QED BY <3>2, <3>3 DEF Origins
    <2> QED BY <2>1, <2>2
  <1> QED BY <1>1 DEF History, Origins

\* A forward pass keeps the cache a cache and yields a context.
LEMMA ForwardType ==
  ASSUME NEW kv, CacheOK(kv), NEW m, NEW at \in Nat, InStorage(kv, at), NEW token \in Tokens
  PROVE  /\ ForwardRow(kv, m, token, at) \in Origins
         /\ CacheOK(Forward(kv, m, token, at))
         /\ SameShape(Forward(kv, m, token, at), kv)
  <1>1. RowOf(History(kv, m, at), token) \in Origins
    BY HistoryType DEF RowOf, Origins
  <1> QED BY <1>1, WriteRowType DEF Forward, ForwardRow

\* So does a batched one.
LEMMA ForwardBatchType ==
  ASSUME NEW kv, CacheOK(kv), NEW m, NEW first \in Nat, NEW chunk \in Seq(Tokens),
         chunk # <<>>, InStorage(kv, first)
  PROVE  /\ CacheOK(ForwardBatch(kv, m, chunk, first))
         /\ SameShape(ForwardBatch(kv, m, chunk, first), kv)
  <1> DEFINE last    == first + Len(chunk) - 1
             history == History(kv, m, first)
             Lost(at) == \E q \in Attended(kv, m, at), r \in at + 1 .. last :
                            slot_for_pos(kv, q) = slot_for_pos(kv, r)
             Row(at) == IF history = Garbage \/ \E p \in first .. at : Lost(p) THEN Garbage
                         ELSE history \o SubSeq(chunk, 1, at - first + 1)
             Writers(slot) == {at \in first .. last : slot_for_pos(kv, at) = slot}
             rows == [s \in DOMAIN kv.rows |->
                        IF Writers(s) = {} THEN kv.rows[s]
                        ELSE Row(CHOOSE at \in Writers(s) : TRUE)]
  <1>1. ForwardBatch(kv, m, chunk, first) = [kv EXCEPT !.rows = rows]
    BY DEF ForwardBatch
  <1>2. \A at \in first .. last : Row(at) \in Origins
    <2> TAKE at \in first .. last
    <2>1. history \in Origins
      BY HistoryType
    <2>2. history # Garbage => history \o SubSeq(chunk, 1, at - first + 1) \in Seq(Tokens)
      BY <2>1 DEF Origins
    <2> QED BY <2>1, <2>2 DEF Origins
  <1>3. \A s \in DOMAIN kv.rows : rows[s] \in Origins
    <2> TAKE s \in DOMAIN kv.rows
    <2>1. CASE Writers(s) = {}
      BY <2>1 DEF CacheOK
    <2>2. CASE Writers(s) # {}
      <3>1. (CHOOSE at \in Writers(s) : TRUE) \in first .. last
        BY <2>2
      <3> HIDE DEF Row, Writers
      <3> QED BY <3>1, <1>2, <2>2
    <2> QED BY <2>1, <2>2
  <1> HIDE DEF Row, Writers, history
  <1>4. rows \in [0 .. kv.storage_len - 1 -> Origins]
    BY <1>3, CacheFacts
  <1> HIDE DEF rows
  <1>5. [kv EXCEPT !.rows = rows] = Replaced(kv, rows, kv.ssm)
    BY DEF CacheOK, Replaced
  <1>6. kv.ssm \in Origins
    BY CacheFacts
  <1>7. /\ CacheOK(Replaced(kv, rows, kv.ssm)) /\ SameShape(Replaced(kv, rows, kv.ssm), kv)
    BY <1>4, <1>6, ReplaceRows
  <1> QED BY <1>1, <1>5, <1>7

\* A new cache holds nothing.
LEMMA NewCacheFacts ==
  ASSUME NEW n \in Nat \ {0}, NEW window \in Nat
  PROVE  /\ CacheOK(NewCache(n, window))
         /\ NewCache(n, window).max_len = n /\ NewCache(n, window).sliding_window = window
         /\ NewCache(n, window).ssm = <<>>
  <1> DEFINE storage == storage_len_for(n, window)
  <1>1. [s \in 0 .. storage - 1 |-> Garbage] \in [0 .. storage - 1 -> Origins]
    BY DEF Origins
  <1> HIDE DEF storage
  <1> QED BY <1>1 DEF CacheOK, NewCache, Origins, storage

\* Changing the window keeps a cache a cache; setting the window it already
\* has changes nothing.
LEMMA SetWindowFacts ==
  ASSUME NEW kv, CacheOK(kv), NEW window \in Nat
  PROVE  /\ CacheOK(set_sliding_window(kv, window))
         /\ set_sliding_window(kv, window).sliding_window = window
         /\ set_sliding_window(kv, window).max_len = kv.max_len
         /\ window = kv.sliding_window =>
              /\ set_sliding_window(kv, window).rows = kv.rows
              /\ set_sliding_window(kv, window).ssm = kv.ssm
  <1> DEFINE storage == storage_len_for(kv.max_len, window)
             rows == [s \in 0 .. storage - 1 |->
                        IF s \in DOMAIN kv.rows THEN kv.rows[s] ELSE Garbage]
  <1>1. set_sliding_window(kv, window) =
          [kv EXCEPT !.sliding_window = window, !.storage_len = storage, !.rows = rows]
    BY DEF set_sliding_window
  <1>3. \A s \in 0 .. storage - 1 : rows[s] \in Origins
    BY DEF CacheOK, Origins
  <1>4. rows \in [0 .. storage - 1 -> Origins]
    BY <1>3
  <1>5. window = kv.sliding_window => rows = kv.rows
    BY CacheFacts
  <1>6. kv.ssm \in Origins /\ <<>> \in Origins
    BY DEF CacheOK, Origins
  <1>7. kv.max_len \in Nat \ {0}
    BY CacheFacts
  <1>8. storage = storage_len_for(kv.max_len, window)
    OBVIOUS
  <1> HIDE DEF storage, rows
  <1> QED BY <1>1, <1>4, <1>5, <1>6, <1>7, <1>8 DEF CacheOK

\* So does forgetting the recurrent state.
LEMMA ResetFacts ==
  ASSUME NEW kv, CacheOK(kv)
  PROVE  /\ CacheOK([kv EXCEPT !.ssm = <<>>]) /\ SameShape([kv EXCEPT !.ssm = <<>>], kv)
         /\ [kv EXCEPT !.ssm = <<>>].ssm = <<>>
  <1>1. <<>> \in Origins
    BY DEF Origins
  <1> QED BY <1>1 DEF CacheOK, SameShape

\* Which positions have a slot.
LEMMA InStorageFacts ==
  ASSUME NEW kv, CacheOK(kv), NEW at \in Nat
  PROVE  /\ kv.sliding_window # 0 => InStorage(kv, at)
         /\ kv.sliding_window = 0 => (InStorage(kv, at) <=> at < kv.max_len)
  BY CacheFacts DEF InStorage, slot_for_pos

-----------------------------------------------------------------------------
(* Without a window, a cache holds a text. *)

\* A token attends to exactly the tokens before it.
LEMMA HistoryHolds ==
  ASSUME NEW kv, CacheOK(kv), kv.sliding_window = 0, NEW m,
         NEW seq \in Seq(Tokens), NEW at \in 0 .. Len(seq),
         \A p \in 0 .. at - 1 : kv.rows[p] = Prefix(seq, p),
         m = "hybrid" => kv.ssm = SubSeq(seq, 1, at)
  PROVE  History(kv, m, at) = SubSeq(seq, 1, at)
  <1>1. CASE at = 0
    <2>1. SubSeq(seq, 1, at) = <<>>
      BY <1>1
    <2>2. AttendedSequence(kv, m, at) = <<>>
      BY <1>1 DEF AttendedSequence
    <2> QED BY <2>1, <2>2 DEF History
  <1>2. CASE at # 0
    <2> DEFINE prev == kv.rows[slot_for_pos(kv, at - 1)]
    <2>1. prev = SubSeq(seq, 1, at)
      BY <1>2 DEF slot_for_pos, Prefix
    <2>2. prev \in Seq(Tokens) /\ Len(prev) = at
      BY <2>1, PrefixFacts
    <2>3. prev # Garbage
      BY <2>2, CacheAssumption
    <2>4. ASSUME NEW q \in Attended(kv, m, at)
          PROVE  /\ slot_for_pos(kv, q) # slot_for_pos(kv, at)
                 /\ kv.rows[slot_for_pos(kv, q)] = Prefix(prev, q)
      <3>1. q \in 0 .. at - 1
        BY <2>4 DEF Attended, attention_start_pos
      <3>2. Prefix(prev, q) = Prefix(seq, q)
        BY <2>1, <3>1, PrefixOfPrefix DEF Prefix
      <3> QED BY <3>1, <3>2 DEF slot_for_pos
    <2> HIDE DEF prev
    <2>5. AttendedSequence(kv, m, at) = prev
      BY <1>2, <2>2, <2>3, <2>4 DEF AttendedSequence, prev
    <2> QED BY <2>1, <2>5 DEF History
  <1> QED BY <1>1, <1>2

\* An empty cache holds the beginning of every text.
LEMMA NewCacheHolds ==
  ASSUME NEW n \in Nat \ {0}, NEW m, NEW seq \in Seq(Tokens)
  PROVE  Holds(NewCache(n, 0), m, seq, 0)
  <1>1. SubSeq(seq, 1, 0) = <<>>
    OBVIOUS
  <1> DEFINE kv == NewCache(n, 0)
  <1>2. CacheOK(kv) /\ kv.sliding_window = 0 /\ kv.ssm = <<>>
    BY NewCacheFacts
  <1> HIDE DEF kv
  <1>3. Holds(kv, m, seq, 0)
    BY <1>1, <1>2 DEF Holds
  <1> QED BY <1>3 DEF kv

\* What it holds of a text it holds of every text with the same beginning.
LEMMA HoldsCommonPrefix ==
  ASSUME NEW kv, NEW m, NEW a \in Seq(Tokens), NEW b \in Seq(Tokens), NEW n \in Nat,
         n <= Len(a), n <= Len(b), \A i \in 1 .. n : a[i] = b[i],
         Holds(kv, m, a, n)
  PROVE  Holds(kv, m, b, n)
  <1>1. \A k \in 0 .. n : SubSeq(a, 1, k) = SubSeq(b, 1, k)
    BY CommonPrefix
  <1> QED BY <1>1 DEF Holds, Prefix

\* A forward pass adds the row of the next token.
LEMMA ForwardHolds ==
  ASSUME NEW kv, NEW m, NEW seq \in Seq(Tokens), NEW at \in 0 .. Len(seq) - 1, at < kv.max_len,
         Holds(kv, m, seq, at)
  PROVE  /\ ForwardRow(kv, m, seq[at + 1], at) = SubSeq(seq, 1, at + 1)
         /\ Holds(Forward(kv, m, seq[at + 1], at), m, seq, at + 1)
  <1> DEFINE token == seq[at + 1]
             row == RowOf(History(kv, m, at), token)
             rows == [kv.rows EXCEPT ![at] = row]
  <1> USE DEF Holds
  <1>0. Len(seq) \in Nat /\ at \in 0 .. Len(seq)
    OBVIOUS
  <1>1. SubSeq(seq, 1, at) \in Seq(Tokens) /\ SubSeq(seq, 1, at) # Garbage
    BY <1>0, PrefixFacts, CacheAssumption
  <1>2. row = SubSeq(seq, 1, at + 1)
    <2>1. History(kv, m, at) = SubSeq(seq, 1, at)
      BY <1>0, HistoryHolds
    <2>2. Append(SubSeq(seq, 1, at), token) = SubSeq(seq, 1, at + 1)
      BY PrefixGrows
    <2> QED BY <1>1, <2>1, <2>2 DEF RowOf
  <1>3. DOMAIN kv.rows = 0 .. kv.max_len - 1 /\ kv.max_len \in Nat
    BY CacheFacts
  <1>4. \A p \in 0 .. at : rows[p] = Prefix(seq, p)
    <2> TAKE p \in 0 .. at
    <2>1. CASE p = at
      BY <2>1, <1>2, <1>3, CacheAssumption DEF Prefix
    <2>2. CASE p # at
      <3>1. p \in 0 .. at - 1 /\ p \in DOMAIN kv.rows
        BY <2>2, <1>3, CacheAssumption
      <3> HIDE DEF row
      <3> QED BY <2>2, <3>1
    <2> QED BY <2>1, <2>2
  <1>5. Forward(kv, m, token, at) =
          [kv EXCEPT !.rows = rows, !.ssm = IF m = "hybrid" THEN row ELSE kv.ssm]
    BY DEF Forward, WriteRow, slot_for_pos, CacheOK
  <1> HIDE DEF rows, row
  <1>6. Forward(kv, m, token, at).rows = rows
        /\ (m = "hybrid" => Forward(kv, m, token, at).ssm = row)
    BY <1>5 DEF CacheOK
  <1>7. ForwardRow(kv, m, token, at) = row
    BY DEF ForwardRow, row
  <1>8. InStorage(kv, at)
    BY InStorageFacts
  <1>9. /\ CacheOK(Forward(kv, m, token, at))
        /\ SameShape(Forward(kv, m, token, at), kv)
    BY <1>8, ForwardType
  <1> QED BY <1>2, <1>4, <1>6, <1>7, <1>9 DEF SameShape

\* A batch adds the rows of its chunk: without a window no two positions share
\* a slot.
LEMMA ForwardBatchHolds ==
  ASSUME NEW kv, CacheOK(kv), kv.sliding_window = 0, NEW m, m # "hybrid",
         NEW seq \in Seq(Tokens), NEW first \in 0 .. Len(seq), NEW end \in first + 1 .. Len(seq),
         end <= kv.max_len,
         \A p \in 0 .. first - 1 : kv.rows[p] = Prefix(seq, p)
  PROVE  \A p \in 0 .. end - 1 :
           ForwardBatch(kv, m, SubSeq(seq, first + 1, end), first).rows[p] = Prefix(seq, p)
  <1> DEFINE chunk == SubSeq(seq, first + 1, end)
             last == first + Len(chunk) - 1
             history == History(kv, m, first)
             Lost(at) == \E q \in Attended(kv, m, at), r \in at + 1 .. last :
                            slot_for_pos(kv, q) = slot_for_pos(kv, r)
             Row(at) == IF history = Garbage \/ \E p \in first .. at : Lost(p) THEN Garbage
                         ELSE history \o SubSeq(chunk, 1, at - first + 1)
             Writers(slot) == {at \in first .. last : slot_for_pos(kv, at) = slot}
             rows == [s \in DOMAIN kv.rows |->
                        IF Writers(s) = {} THEN kv.rows[s]
                        ELSE Row(CHOOSE at \in Writers(s) : TRUE)]
  <1>1. ForwardBatch(kv, m, chunk, first) = [kv EXCEPT !.rows = rows]
    BY DEF ForwardBatch
  <1>2. last = end - 1
    OBVIOUS
  <1>3. history = SubSeq(seq, 1, first) /\ history # Garbage
    <2>1. history = SubSeq(seq, 1, first)
      BY HistoryHolds
    <2>2. SubSeq(seq, 1, first) \in Seq(Tokens)
      BY PrefixFacts
    <2> QED BY <2>1, <2>2, CacheAssumption
  <1>4. \A at \in first .. last : ~Lost(at)
    BY DEF slot_for_pos, Attended, attention_start_pos
  <1>5. \A at \in first .. last : Row(at) = Prefix(seq, at)
    <2> TAKE at \in first .. last
    <2>1. Row(at) = history \o SubSeq(chunk, 1, at - first + 1)
      <3>1. \A p \in first .. at : ~Lost(p)
        BY <1>4, <1>2
      <3> HIDE DEF Lost, history
      <3> QED BY <3>1, <1>3
    <2>2. at - first + 1 \in 1 .. end - first
      BY <1>2
    <2>3. history \o SubSeq(chunk, 1, at - first + 1) = SubSeq(seq, 1, first + (at - first + 1))
      <3>0. end \in first .. Len(seq)
        OBVIOUS
      <3>1. \A k \in 1 .. end - first :
              SubSeq(seq, 1, first) \o SubSeq(SubSeq(seq, first + 1, end), 1, k)
                = SubSeq(seq, 1, first + k)
        BY <3>0, PrefixConcat
      <3>2. SubSeq(seq, 1, first) \o SubSeq(chunk, 1, at - first + 1)
              = SubSeq(seq, 1, first + (at - first + 1))
        BY <2>2, <3>1
      <3> HIDE DEF history
      <3> QED BY <3>2, <1>3
    <2>4. first + (at - first + 1) = at + 1
      BY <1>2
    <2> HIDE DEF Row
    <2> QED BY <2>1, <2>3, <2>4 DEF Prefix
  <1>6. DOMAIN kv.rows = 0 .. kv.max_len - 1 /\ kv.max_len \in Nat
    BY CacheFacts
  <1> HIDE DEF Row, history
  <1>7. \A p \in 0 .. end - 1 : rows[p] = Prefix(seq, p)
    <2> TAKE p \in 0 .. end - 1
    <2>0. p \in DOMAIN kv.rows
      BY <1>6, CacheAssumption
    <2>1. CASE p < first
      <3>1. Writers(p) = {}
        BY <2>1, <1>2 DEF slot_for_pos
      <3> HIDE DEF Writers
      <3> QED BY <2>0, <2>1, <3>1
    <2>2. CASE ~(p < first)
      <3>1. Writers(p) = {p}
        BY <2>2, <1>2 DEF slot_for_pos
      <3>2. (CHOOSE at \in Writers(p) : TRUE) = p
        BY <3>1
      <3>3. p \in first .. last
        BY <2>2, <1>2
      <3> HIDE DEF Writers
      <3> QED BY <2>0, <3>1, <3>2, <3>3, <1>5
    <2> QED BY <2>1, <2>2
  <1> HIDE DEF rows, chunk
  <1>8. ForwardBatch(kv, m, chunk, first).rows = rows
    BY <1>1 DEF CacheOK
  <1> QED BY <1>7, <1>8 DEF chunk


-----------------------------------------------------------------------------
(* With a window, the ring holds the last rows of a text. *)

\* Positions less than a ring's length apart have different slots.
LEMMA SlotsDiffer ==
  ASSUME NEW s \in Nat \ {0}, NEW a \in Nat, NEW b \in Nat, b < a, a - b < s
  PROVE  a % s # b % s
  <1> SUFFICES ASSUME a % s = b % s PROVE FALSE
    OBVIOUS
  <1> DEFINE x == a \div s
             y == b \div s
  <1>1. /\ x \in Int /\ a % s \in Int /\ a = s * x + (a % s)
        /\ y \in Int /\ b % s \in Int /\ b = s * y + (b % s)
    OBVIOUS
  <1> HIDE DEF x, y
  <1>2. a - b = s * (x - y)
    BY <1>1
  <1>3. CASE x - y >= 1
    <2>1. s * (x - y) >= s
      BY <1>1, <1>3
    <2> QED BY <1>2, <2>1
  <1>4. CASE x - y <= 0
    <2>1. s * (x - y) <= 0
      BY <1>1, <1>4
    <2> QED BY <1>2, <2>1
  <1> QED BY <1>1, <1>3, <1>4

\* The slots of a ring.
LEMMA RingSlots ==
  ASSUME NEW kv, CacheOK(kv), kv.sliding_window > 0, NEW at \in Nat
  PROVE  /\ slot_for_pos(kv, at) = at % kv.storage_len
         /\ slot_for_pos(kv, at) \in DOMAIN kv.rows
  <1>1. /\ kv.storage_len \in Nat \ {0} /\ kv.rows \in [0 .. kv.storage_len - 1 -> Origins]
    BY CacheFacts
  <1>2. at % kv.storage_len \in 0 .. kv.storage_len - 1
    BY <1>1
  <1> QED BY <1>1, <1>2 DEF slot_for_pos

\* Where every layer keeps to the window, and the ring is as long as the
\* window or as the text, a token attends to rows the ring still holds.
LEMMA RingHistory ==
  ASSUME NEW kv, CacheOK(kv), kv.sliding_window > 1,
         NEW m, m \notin {"interleaved", "hybrid"},
         NEW seq \in Seq(Tokens), NEW at \in 0 .. Len(seq),
         kv.sliding_window <= kv.max_len \/ at + 1 <= kv.max_len,
         RingHolds(kv, seq, at)
  PROVE  History(kv, m, at) = SubSeq(seq, 1, at)
  <1>1. CASE at = 0
    <2>1. SubSeq(seq, 1, at) = <<>>
      BY <1>1
    <2>2. AttendedSequence(kv, m, at) = <<>>
      BY <1>1 DEF AttendedSequence
    <2> QED BY <2>1, <2>2 DEF History
  <1>2. CASE at # 0
    <2> DEFINE s == kv.storage_len
               prev == kv.rows[slot_for_pos(kv, at - 1)]
    <2>0. /\ s \in Nat \ {0} /\ kv.max_len \in Nat /\ kv.sliding_window \in Nat
          /\ s = kv.sliding_window \/ (s = kv.max_len /\ at + 1 <= s)
          /\ kv.sliding_window > 0 /\ at \in Nat
      BY CacheFacts DEF storage_len_for, Least
    <2>1. prev = SubSeq(seq, 1, at)
      <3>1. at - 1 \in 0 .. at - 1 /\ at <= (at - 1) + s /\ (at - 1) + 1 = at
        BY <1>2, <2>0
      <3> QED BY <3>1 DEF RingHolds, Prefix
    <2>2. prev \in Seq(Tokens) /\ Len(prev) = at
      BY <2>1, PrefixFacts
    <2>3. prev # Garbage
      BY <2>2, CacheAssumption
    <2>4. ASSUME NEW q \in Attended(kv, m, at)
          PROVE  /\ slot_for_pos(kv, q) # slot_for_pos(kv, at)
                 /\ kv.rows[slot_for_pos(kv, q)] = Prefix(prev, q)
      <3>1. q \in attention_start_pos(at, kv.sliding_window) .. at - 1
        BY <2>4 DEF Attended
      <3>2. q \in 0 .. at - 1 /\ q \in Nat /\ q < at /\ at - q < s
        BY <2>0, <3>1 DEF attention_start_pos
      <3>3. at % s # q % s
        <4> HIDE DEF s, prev
        <4> QED BY <2>0, <3>2, SlotsDiffer
      <3>4. slot_for_pos(kv, q) # slot_for_pos(kv, at)
        BY <2>0, <3>2, <3>3, RingSlots
      <3>5. kv.rows[slot_for_pos(kv, q)] = Prefix(seq, q)
        BY <2>0, <3>2 DEF RingHolds
      <3>6. Prefix(prev, q) = Prefix(seq, q)
        BY <2>1, <3>2, PrefixOfPrefix DEF Prefix
      <3> QED BY <3>4, <3>5, <3>6
    <2> HIDE DEF prev
    <2>5. AttendedSequence(kv, m, at) = prev
      BY <1>2, <2>2, <2>3, <2>4 DEF AttendedSequence, prev
    <2> QED BY <2>1, <2>5 DEF History
  <1> QED BY <1>1, <1>2

\* A forward pass replaces the row that leaves the window by the new one.
LEMMA RingForward ==
  ASSUME NEW kv, CacheOK(kv), kv.sliding_window > 1,
         NEW m, m \notin {"interleaved", "hybrid"},
         NEW seq \in Seq(Tokens), NEW at \in 0 .. Len(seq) - 1,
         kv.sliding_window <= kv.max_len \/ at + 1 <= kv.max_len,
         RingHolds(kv, seq, at)
  PROVE  /\ ForwardRow(kv, m, seq[at + 1], at) = SubSeq(seq, 1, at + 1)
         /\ RingHolds(Forward(kv, m, seq[at + 1], at), seq, at + 1)
  <1> DEFINE token == seq[at + 1]
             row == RowOf(History(kv, m, at), token)
             rows == [kv.rows EXCEPT ![slot_for_pos(kv, at)] = row]
             next == Forward(kv, m, token, at)
             s == kv.storage_len
  <1>1. at \in 0 .. Len(seq) /\ at \in Nat /\ token \in Tokens
    OBVIOUS
  <1>2. SubSeq(seq, 1, at) \in Seq(Tokens) /\ SubSeq(seq, 1, at) # Garbage
    BY <1>1, PrefixFacts, CacheAssumption
  <1>3. row = SubSeq(seq, 1, at + 1)
    <2>1. History(kv, m, at) = SubSeq(seq, 1, at)
      BY <1>1, RingHistory
    <2>2. Append(SubSeq(seq, 1, at), token) = SubSeq(seq, 1, at + 1)
      BY PrefixGrows
    <2> QED BY <1>2, <2>1, <2>2 DEF RowOf
  <1>4. row \in Origins
    <2>1. at + 1 \in 0 .. Len(seq)
      BY <1>1
    <2>2. SubSeq(seq, 1, at + 1) \in Seq(Tokens)
      BY <2>1, PrefixFacts
    <2> QED BY <1>3, <2>2 DEF Origins
  <1>5. next = [kv EXCEPT !.rows = rows, !.ssm = IF m = "hybrid" THEN row ELSE kv.ssm]
    BY DEF Forward, WriteRow
  <1> HIDE DEF row, rows
  <1>6. SameShape(next, kv) /\ next.rows = rows
    <2>1. InStorage(kv, at)
      BY <1>1, CacheFacts, InStorageFacts
    <2>2. SameShape(next, kv)
      BY <1>1, <2>1, ForwardType
    <2> QED BY <1>5, <2>2 DEF CacheOK
  <1> HIDE DEF next, token
  <1>7. s \in Nat \ {0} /\ kv.sliding_window > 0
    BY CacheFacts
  <1>8. \A p \in Nat : slot_for_pos(next, p) = slot_for_pos(kv, p)
    BY <1>6 DEF SameShape, slot_for_pos
  <1>9. next.storage_len = s
    BY <1>6 DEF SameShape
  <1>10. ASSUME NEW p \in 0 .. at, at + 1 <= p + s
         PROVE  next.rows[slot_for_pos(next, p)] = Prefix(seq, p)
    <2>1. p \in Nat /\ slot_for_pos(next, p) = slot_for_pos(kv, p)
      BY <1>8
    <2>2. slot_for_pos(kv, p) \in DOMAIN kv.rows /\ slot_for_pos(kv, at) \in DOMAIN kv.rows
      BY <1>1, <1>7, <2>1, RingSlots
    <2>3. CASE p = at
      BY <1>3, <1>6, <2>1, <2>2, <2>3 DEF Prefix, rows
    <2>4. CASE p # at
      <3>1. p < at /\ at - p < s /\ p \in 0 .. at - 1 /\ at <= p + s
        BY <1>1, <1>7, <1>10, <2>4
      <3>2. at % s # p % s
        BY <1>1, <1>7, <2>1, <3>1, SlotsDiffer
      <3>3. slot_for_pos(kv, p) # slot_for_pos(kv, at)
        BY <1>1, <1>7, <2>1, <3>2, RingSlots
      <3>4. next.rows[slot_for_pos(kv, p)] = kv.rows[slot_for_pos(kv, p)]
        BY <1>6, <2>2, <3>3 DEF rows
      <3>5. kv.rows[slot_for_pos(kv, p)] = Prefix(seq, p)
        BY <3>1 DEF RingHolds
      <3> QED BY <2>1, <3>4, <3>5
    <2> QED BY <2>3, <2>4
  <1>11. RingHolds(next, seq, at + 1)
    <2>1. (at + 1) - 1 = at
      BY <1>1
    <2> QED BY <1>9, <1>10, <2>1 DEF RingHolds
  <1>12. ForwardRow(kv, m, token, at) = row
    BY DEF ForwardRow, row
  <1> QED BY <1>3, <1>11, <1>12 DEF next, token

\* What a ring holds of a text it holds of every text with the same beginning.
LEMMA RingCommonPrefix ==
  ASSUME NEW kv, NEW a \in Seq(Tokens), NEW b \in Seq(Tokens), NEW n \in Nat,
         n <= Len(a), n <= Len(b), \A i \in 1 .. n : a[i] = b[i],
         RingHolds(kv, a, n)
  PROVE  RingHolds(kv, b, n)
  <1>1. \A k \in 0 .. n : SubSeq(a, 1, k) = SubSeq(b, 1, k)
    BY CommonPrefix
  <1> QED BY <1>1 DEF RingHolds, Prefix
=============================================================================
