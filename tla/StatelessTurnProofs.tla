------------------------ MODULE StatelessTurnProofs ------------------------
(***************************************************************************)
(* Proofs about stateless requests over the shared prefix cache: for every *)
(* set of prompts and every limit of the prefix cache, the snapshots are   *)
(* of prompts and hold what a prefill leaves, the least recent one makes   *)
(* room, and a request decodes as if it had evaluated its prompt itself.   *)
(***************************************************************************)
EXTENDS StatelessTurn, KVCacheProofs, SequenceTheorems

-----------------------------------------------------------------------------
(* Moving an element of a sequence to its front. *)

\* A sequence without one element.
LEMMA RemoveAtFacts ==
  ASSUME NEW S, NEW s \in Seq(S), NEW k \in 1 .. Len(s)
  PROVE  /\ RemoveAt(s, k) \in Seq(S)
         /\ Len(RemoveAt(s, k)) = Len(s) - 1
         /\ \A j \in 1 .. Len(s) - 1 : RemoveAt(s, k)[j] = IF j < k THEN s[j] ELSE s[j + 1]
  <1> DEFINE before == SubSeq(s, 1, k - 1)
             after == SubSeq(s, k + 1, Len(s))
  <1>1. /\ before \in Seq(S) /\ Len(before) = k - 1
        /\ \A j \in 1 .. k - 1 : before[j] = s[j]
    OBVIOUS
  <1>2. /\ after \in Seq(S) /\ Len(after) = Len(s) - k
        /\ \A j \in 1 .. Len(s) - k : after[j] = s[k + j]
    OBVIOUS
  <1> HIDE DEF before, after
  <1>3. before \o after \in Seq(S) /\ Len(before \o after) = Len(s) - 1
    <2>1. before \o after \in Seq(S)
      BY <1>1, <1>2
    <2>2. Len(before \o after) = Len(before) + Len(after)
      BY <1>1, <1>2, ConcatProperties
    <2> QED BY <1>1, <1>2, <2>1, <2>2
  <1>5. \A j \in 1 .. Len(s) - 1 : (before \o after)[j] = IF j < k THEN s[j] ELSE s[j + 1]
    <2> TAKE j \in 1 .. Len(s) - 1
    <2>1. CASE j < k
      BY <2>1, <1>1, <1>2
    <2>2. CASE ~(j < k)
      <3>1. j - (k - 1) \in 1 .. Len(s) - k
        BY <2>2
      <3>2. (before \o after)[j] = after[j - (k - 1)]
        BY <2>2, <1>1, <1>2
      <3>3. after[j - (k - 1)] = s[j + 1]
        BY <3>1, <1>2
      <3> QED BY <2>2, <3>2, <3>3
    <2> QED BY <2>1, <2>2
  <1>4. RemoveAt(s, k) = before \o after
    BY DEF RemoveAt, before, after
  <1> QED BY <1>3, <1>4, <1>5

\* A sequence with an element put in front.
LEMMA PrependFacts ==
  ASSUME NEW S, NEW s \in Seq(S), NEW e \in S
  PROVE  /\ <<e>> \o s \in Seq(S)
         /\ Len(<<e>> \o s) = Len(s) + 1
         /\ (<<e>> \o s)[1] = e
         /\ \A j \in 1 .. Len(s) : (<<e>> \o s)[j + 1] = s[j]
  OBVIOUS

\* A sequence with e, which stood at k, moved to the front.
Moved(s, k, e) == <<e>> \o RemoveAt(s, k)

\* What it looks like.
MovedToFront(m, s, k, e) ==
  /\ Len(m) = Len(s)
  /\ m[1] = e
  /\ \A j \in 2 .. k : m[j] = s[j - 1]
  /\ \A j \in k + 1 .. Len(s) : m[j] = s[j]

LEMMA MoveFacts ==
  ASSUME NEW S, NEW s \in Seq(S), NEW k \in 1 .. Len(s), NEW e \in S
  PROVE  /\ Moved(s, k, e) \in Seq(S)
         /\ MovedToFront(Moved(s, k, e), s, k, e)
  <1> DEFINE rest == RemoveAt(s, k)
  <1>1. /\ rest \in Seq(S) /\ Len(rest) = Len(s) - 1
        /\ \A j \in 1 .. Len(s) - 1 : rest[j] = IF j < k THEN s[j] ELSE s[j + 1]
    BY RemoveAtFacts
  <1> HIDE DEF rest
  <1>2. /\ <<e>> \o rest \in Seq(S) /\ Len(<<e>> \o rest) = Len(s)
        /\ (<<e>> \o rest)[1] = e
        /\ \A j \in 2 .. k : (<<e>> \o rest)[j] = s[j - 1]
        /\ \A j \in k + 1 .. Len(s) : (<<e>> \o rest)[j] = s[j]
    BY <1>1
  <1> QED BY <1>2 DEF rest, Moved, MovedToFront

-----------------------------------------------------------------------------
(* The prefix cache. *)

Snapshots == [tokens : Seq(Tokens), rows : Seq(Origins), logits : LogitsType]

\* What insert leaves of a prompt.
SnapshotOK(entry) ==
  LET prompt == entry.tokens
  IN  /\ Len(prompt) \in 1 .. MaxTokens
      /\ CountedBytes(prompt) <= MaxBytes
      /\ entry.rows = [p \in 1 .. Len(prompt) |-> SubSeq(prompt, 1, p)]
      /\ entry.logits = [ctx |-> prompt, sampled |-> FALSE]

\* The snapshots with the prompts asked for or kept.
CacheInv(es, asked) ==
  /\ es \in Seq(Snapshots) /\ asked \in Seq(Seq(Tokens))
  /\ Len(es) <= MaxEntries /\ Len(es) <= Len(asked)
  /\ \A i \in 1 .. Len(es) : SnapshotOK(es[i]) /\ es[i].tokens = asked[i]
  /\ \A i, j \in 1 .. Len(asked) : asked[i] = asked[j] => i = j

\* A known prompt is that of exactly one snapshot.
LEMMA KnownFacts ==
  ASSUME NEW es, NEW asked, CacheInv(es, asked), NEW prompt
  PROVE  /\ Known(es, prompt) <=> \E i \in 1 .. Len(es) : es[i].tokens = prompt
         /\ Known(es, prompt) =>
              /\ PlaceOf(es, prompt) \in 1 .. Len(es)
              /\ es[PlaceOf(es, prompt)].tokens = prompt
              /\ asked[PlaceOf(es, prompt)] = prompt
  <1>1. DOMAIN es = 1 .. Len(es) /\ Len(es) \in Nat /\ Len(asked) \in Nat /\ Len(es) <= Len(asked)
    BY DEF CacheInv
  <1>2. \A i, j \in 1 .. Len(es) : es[i].tokens = es[j].tokens => i = j
    <2> TAKE i, j \in 1 .. Len(es)
    <2>1. es[i].tokens = asked[i] /\ es[j].tokens = asked[j]
      BY DEF CacheInv
    <2>2. i \in 1 .. Len(asked) /\ j \in 1 .. Len(asked)
      BY <1>1
    <2>3. asked[i] = asked[j] => i = j
      BY <2>2 DEF CacheInv
    <2> QED BY <2>1, <2>3
  <1>3. \A i \in 1 .. Len(es) : es[i].tokens = prompt => Position(es, prompt, i)
    <2> SUFFICES ASSUME NEW i \in 1 .. Len(es), es[i].tokens = prompt,
                        NEW j \in 1 .. i - 1
                 PROVE  es[j].tokens # prompt
      BY <1>1 DEF Position
    <2>1. j \in 1 .. Len(es) /\ j # i
      BY <1>1
    <2> QED BY <2>1, <1>2
  <1>4. Known(es, prompt) <=> \E i \in 1 .. Len(es) : es[i].tokens = prompt
    BY <1>1, <1>3 DEF Known, Position
  <1>5. Known(es, prompt) => Position(es, prompt, PlaceOf(es, prompt))
    BY DEF Known, PlaceOf
  <1>6. Known(es, prompt) => /\ PlaceOf(es, prompt) \in 1 .. Len(es)
                             /\ es[PlaceOf(es, prompt)].tokens = prompt
    BY <1>1, <1>5 DEF Position
  <1> QED BY <1>4, <1>6 DEF CacheInv

\* A sequence without repetition that contains e, or to which e is new.
Distinct(s) == \A i, j \in 1 .. Len(s) : s[i] = s[j] => i = j

\* Moving an element keeps the elements different.
LEMMA MoveDistinct ==
  ASSUME NEW S, NEW s \in Seq(S), Distinct(s), NEW k \in 1 .. Len(s),
         NEW m, MovedToFront(m, s, k, s[k])
  PROVE  Distinct(m)
  <1> DEFINE from(j) == IF j = 1 THEN k ELSE IF j <= k THEN j - 1 ELSE j
  <1>1. \A j \in 1 .. Len(s) : m[j] = s[from(j)] /\ from(j) \in 1 .. Len(s)
    BY DEF MovedToFront
  <1>2. \A i, j \in 1 .. Len(s) : from(i) = from(j) => i = j
    OBVIOUS
  <1> HIDE DEF from
  <1>3. ASSUME NEW i \in 1 .. Len(s), NEW j \in 1 .. Len(s), m[i] = m[j]
        PROVE  i = j
    <2>1. s[from(i)] = s[from(j)]
      BY <1>1, <1>3
    <2>2. from(i) = from(j)
      BY <1>1, <2>1 DEF Distinct
    <2> QED BY <1>2, <2>2
  <1> QED BY <1>3 DEF Distinct, MovedToFront

\* So does putting a new one in front.
LEMMA PrependDistinct ==
  ASSUME NEW S, NEW s \in Seq(S), Distinct(s), NEW e \in S, \A i \in 1 .. Len(s) : s[i] # e
  PROVE  Distinct(<<e>> \o s)
  <1> DEFINE m == <<e>> \o s
  <1>1. Len(m) = Len(s) + 1 /\ m[1] = e /\ \A j \in 1 .. Len(s) : m[j + 1] = s[j]
    BY PrependFacts
  <1> HIDE DEF m
  <1>2. \A j \in 2 .. Len(s) + 1 : m[j] = s[j - 1] /\ j - 1 \in 1 .. Len(s)
    <2> TAKE j \in 2 .. Len(s) + 1
    <2>1. j - 1 \in 1 .. Len(s) /\ (j - 1) + 1 = j
      OBVIOUS
    <2> QED BY <1>1, <2>1
  <1>3. Len(s) \in Nat
    OBVIOUS
  <1>4. ASSUME NEW i \in 1 .. Len(m), NEW j \in 1 .. Len(m), m[i] = m[j]
        PROVE  i = j
    <2>1. CASE i = 1 /\ j \in 2 .. Len(s) + 1
      BY <1>1, <1>2, <1>4, <2>1
    <2>2. CASE i \in 2 .. Len(s) + 1 /\ j = 1
      BY <1>1, <1>2, <1>4, <2>2
    <2>3. CASE i \in 2 .. Len(s) + 1 /\ j \in 2 .. Len(s) + 1
      <3>1. i - 1 \in 1 .. Len(s) /\ j - 1 \in 1 .. Len(s) /\ s[i - 1] = s[j - 1]
        BY <1>2, <1>4, <2>3
      <3>2. i - 1 = j - 1
        BY <3>1 DEF Distinct
      <3> QED BY <2>3, <3>2
    <2> QED BY <1>1, <1>3, <2>1, <2>2, <2>3
  <1> QED BY <1>4 DEF m, Distinct

\* The prompts asked for after one of them is asked for again.
LEMMA RenewedFacts ==
  ASSUME requested \in Seq(Seq(Tokens)), Distinct(requested), NEW prompt \in Seq(Tokens)
  PROVE  /\ Renewed(prompt) \in Seq(Seq(Tokens)) /\ Distinct(Renewed(prompt))
         /\ \A k \in 1 .. Len(requested) : requested[k] = prompt =>
              Renewed(prompt) = Moved(requested, k, prompt)
         /\ (\A k \in 1 .. Len(requested) : requested[k] # prompt) =>
              Renewed(prompt) = <<prompt>> \o requested
  <1>1. DOMAIN requested = 1 .. Len(requested)
    OBVIOUS
  <1>2. CASE \E k \in 1 .. Len(requested) : requested[k] = prompt
    <2>1. PICK k \in 1 .. Len(requested) : requested[k] = prompt
      BY <1>2
    <2>2. (CHOOSE i \in DOMAIN requested : requested[i] = prompt) = k
      BY <1>1, <2>1 DEF Distinct
    <2>3. Renewed(prompt) = Moved(requested, k, prompt)
      BY <1>1, <2>1, <2>2 DEF Renewed, Moved
    <2>4. \A i \in 1 .. Len(requested) : requested[i] = prompt => i = k
      BY <2>1 DEF Distinct
    <2>5. /\ Moved(requested, k, prompt) \in Seq(Seq(Tokens))
          /\ MovedToFront(Moved(requested, k, prompt), requested, k, prompt)
      BY MoveFacts
    <2>6. Distinct(Moved(requested, k, prompt))
      BY <2>1, <2>5, MoveDistinct
    <2> QED BY <2>1, <2>3, <2>4, <2>5, <2>6
  <1>3. CASE ~\E k \in 1 .. Len(requested) : requested[k] = prompt
    <2>1. Renewed(prompt) = <<prompt>> \o requested
      BY <1>1, <1>3 DEF Renewed
    <2>2. <<prompt>> \o requested \in Seq(Seq(Tokens))
      BY PrependFacts
    <2>3. Distinct(<<prompt>> \o requested)
      BY <1>3, PrependDistinct
    <2> QED BY <1>3, <2>1, <2>2, <2>3
  <1> QED BY <1>2, <1>3

\* No prompt is lost when a snapshot of the same prompt is put in front.
LEMMA MovedStays ==
  ASSUME NEW es \in Seq(Snapshots), NEW k \in 1 .. Len(es), NEW entry,
         entry.tokens = es[k].tokens, NEW m, MovedToFront(m, es, k, entry)
  PROVE  \A i \in 1 .. Len(es) : \E j \in 1 .. Len(m) : m[j].tokens = es[i].tokens
  <1> TAKE i \in 1 .. Len(es)
  <1>1. CASE i = k
    <2>1. 1 \in 1 .. Len(m) /\ m[1].tokens = es[i].tokens
      BY <1>1 DEF MovedToFront
    <2> QED BY <2>1
  <1>2. CASE i < k
    <2>1. i + 1 \in 2 .. k /\ i + 1 \in 1 .. Len(m) /\ (i + 1) - 1 = i
      BY <1>2 DEF MovedToFront
    <2>2. m[i + 1] = es[i]
      BY <2>1 DEF MovedToFront
    <2> QED BY <2>1, <2>2
  <1>3. CASE i > k
    <2>1. i \in 1 .. Len(m) /\ m[i] = es[i]
      BY <1>3 DEF MovedToFront
    <2> QED BY <2>1
  <1> QED BY <1>1, <1>2, <1>3

\* A snapshot put in front of the others, in place of one of the same prompt.
MovedFront(entry, prompt) == <<entry>> \o Without(entries, prompt)

\* A snapshot of a prompt that has one already moves to the front.
LEMMA MovedInv ==
  ASSUME CacheInv(entries, requested), NEW prompt \in Seq(Tokens), Known(entries, prompt),
         NEW entry \in Snapshots, SnapshotOK(entry), entry.tokens = prompt
  PROVE  /\ CacheInv(MovedFront(entry, prompt), Renewed(prompt))
         /\ \A i \in 1 .. Len(entries) : \E j \in 1 .. Len(MovedFront(entry, prompt)) :
              MovedFront(entry, prompt)[j].tokens = entries[i].tokens
  <1> DEFINE k == PlaceOf(entries, prompt)
             es == Moved(entries, k, entry)
             asked == Moved(requested, k, prompt)
  <1>1. k \in 1 .. Len(entries) /\ entries[k].tokens = prompt /\ requested[k] = prompt
    BY KnownFacts
  <1>2. /\ entries \in Seq(Snapshots) /\ requested \in Seq(Seq(Tokens)) /\ Distinct(requested)
        /\ Len(entries) <= MaxEntries /\ Len(entries) <= Len(requested)
        /\ \A i \in 1 .. Len(entries) : SnapshotOK(entries[i]) /\ entries[i].tokens = requested[i]
    BY DEF CacheInv, Distinct
  <1>3. Len(entries) \in Nat /\ Len(requested) \in Nat /\ k \in 1 .. Len(requested)
    BY <1>1, <1>2
  <1>4. MovedFront(entry, prompt) = es
    BY DEF MovedFront, Without, Moved
  <1>5. Renewed(prompt) = asked /\ Distinct(asked)
    BY <1>1, <1>2, <1>3, RenewedFacts
  <1> HIDE DEF k
  <1>6. es \in Seq(Snapshots) /\ MovedToFront(es, entries, k, entry)
    BY <1>1, <1>2, MoveFacts
  <1>7. asked \in Seq(Seq(Tokens)) /\ MovedToFront(asked, requested, k, prompt)
    BY <1>2, <1>3, MoveFacts
  <1> HIDE DEF es, asked
  <1>8. Len(es) = Len(entries) /\ Len(asked) = Len(requested)
    BY <1>6, <1>7 DEF MovedToFront
  <1>9. \A j \in 1 .. Len(entries) : SnapshotOK(es[j]) /\ es[j].tokens = asked[j]
    <2> TAKE j \in 1 .. Len(entries)
    <2>1. CASE j = 1
      BY <2>1, <1>6, <1>7 DEF MovedToFront
    <2>2. CASE j \in 2 .. k
      <3>1. j - 1 \in 1 .. Len(entries)
        BY <2>2, <1>1, <1>3
      <3>2. es[j] = entries[j - 1] /\ asked[j] = requested[j - 1]
        BY <2>2, <1>6, <1>7 DEF MovedToFront
      <3> QED BY <3>1, <3>2, <1>2
    <2>3. CASE j \in k + 1 .. Len(entries)
      <3>1. j \in k + 1 .. Len(requested)
        BY <2>3, <1>2, <1>3
      <3>2. es[j] = entries[j] /\ asked[j] = requested[j]
        BY <2>3, <3>1, <1>6, <1>7 DEF MovedToFront
      <3> QED BY <3>2, <1>2
    <2> QED BY <2>1, <2>2, <2>3, <1>1, <1>3
  <1>10. CacheInv(es, asked)
    BY <1>2, <1>5, <1>6, <1>7, <1>8, <1>9 DEF CacheInv, Distinct
  <1>11. \A i \in 1 .. Len(entries) : \E j \in 1 .. Len(es) : es[j].tokens = entries[i].tokens
    <2>1. k \in 1 .. Len(entries) /\ entry.tokens = entries[k].tokens
      BY <1>1
    <2>2. entries \in Seq(Snapshots) /\ MovedToFront(es, entries, k, entry)
      BY <1>2, <1>6
    <2> QED BY <2>1, <2>2, MovedStays
  <1> QED BY <1>4, <1>5, <1>10, <1>11

\* So does one that is asked for.
LEMMA RestoredInv ==
  ASSUME CacheInv(entries, requested), NEW prompt \in Seq(Tokens), Known(entries, prompt)
  PROVE  /\ SnapshotOf(entries, prompt) \in Snapshots
         /\ SnapshotOK(SnapshotOf(entries, prompt))
         /\ SnapshotOf(entries, prompt).tokens = prompt
         /\ CacheInv(Restored(entries, prompt), Renewed(prompt))
         /\ \A i \in 1 .. Len(entries) : \E j \in 1 .. Len(Restored(entries, prompt)) :
              Restored(entries, prompt)[j].tokens = entries[i].tokens
  <1> DEFINE entry == SnapshotOf(entries, prompt)
  <1>1. entry \in Snapshots /\ SnapshotOK(entry) /\ entry.tokens = prompt
    BY KnownFacts DEF CacheInv, SnapshotOf
  <1>2. Restored(entries, prompt) = MovedFront(entry, prompt)
    BY DEF Restored, MovedFront
  <1> HIDE DEF entry
  <1>3. /\ CacheInv(MovedFront(entry, prompt), Renewed(prompt))
        /\ \A i \in 1 .. Len(entries) : \E j \in 1 .. Len(MovedFront(entry, prompt)) :
             MovedFront(entry, prompt)[j].tokens = entries[i].tokens
    BY <1>1, MovedInv
  <1> QED BY <1>1, <1>2, <1>3 DEF entry

\* Room is made at the end.
Truncated(s) == SubSeq(s, 1, Least(Len(s), MaxEntries))

LEMMA TruncatedFacts ==
  ASSUME NEW S, NEW s \in Seq(S)
  PROVE  /\ Truncated(s) \in Seq(S)
         /\ Len(Truncated(s)) = Least(Len(s), MaxEntries)
         /\ \A j \in 1 .. Len(Truncated(s)) : Truncated(s)[j] = s[j]
         /\ Len(s) <= MaxEntries => Truncated(s) = s
  BY StatelessAssumption DEF Truncated, Least

\* What insert makes of the snapshots.
Fronted(entry, prompt) == Truncated(MovedFront(entry, prompt))

\* A snapshot of a new prompt is put in front; only the last place is lost.
LEMMA FrontedNew ==
  ASSUME CacheInv(entries, requested), NEW prompt \in Seq(Tokens), ~Known(entries, prompt),
         NEW entry \in Snapshots, SnapshotOK(entry), entry.tokens = prompt
  PROVE  /\ CacheInv(Fronted(entry, prompt), Renewed(prompt))
         /\ \A i \in 1 .. Len(entries) : i < MaxEntries =>
              \E j \in 1 .. Len(Fronted(entry, prompt)) :
                Fronted(entry, prompt)[j].tokens = entries[i].tokens
  <1> DEFINE all == <<entry>> \o entries
             es == Truncated(all)
             asked == Renewed(prompt)
  <1>1. /\ entries \in Seq(Snapshots) /\ requested \in Seq(Seq(Tokens)) /\ Distinct(requested)
        /\ Len(entries) <= MaxEntries /\ Len(entries) <= Len(requested)
        /\ \A i \in 1 .. Len(entries) : SnapshotOK(entries[i]) /\ entries[i].tokens = requested[i]
    BY DEF CacheInv, Distinct
  <1>2. Len(entries) \in Nat /\ Len(requested) \in Nat /\ MaxEntries \in Nat \ {0}
    BY <1>1, StatelessAssumption
  <1>3. \A i \in 1 .. Len(entries) : entries[i].tokens # prompt /\ requested[i] # prompt
    BY <1>1, KnownFacts
  <1>4. Fronted(entry, prompt) = es
    BY DEF Fronted, MovedFront, Without
  <1>5. /\ all \in Seq(Snapshots) /\ Len(all) = Len(entries) + 1 /\ all[1] = entry
        /\ \A j \in 1 .. Len(entries) : all[j + 1] = entries[j]
    BY <1>1, PrependFacts
  <1> HIDE DEF all
  <1>6. /\ es \in Seq(Snapshots) /\ Len(es) = Least(Len(entries) + 1, MaxEntries)
        /\ \A j \in 1 .. Len(es) : es[j] = all[j]
    BY <1>5, TruncatedFacts
  <1>7. /\ asked \in Seq(Seq(Tokens)) /\ Distinct(asked)
        /\ Len(asked) >= Least(Len(entries) + 1, MaxEntries)
        /\ asked[1] = prompt
        /\ \A j \in 1 .. Len(entries) : j + 1 <= MaxEntries => asked[j + 1] = requested[j]
    <2>1. asked \in Seq(Seq(Tokens)) /\ Distinct(asked)
      BY <1>1, RenewedFacts
    <2>2. CASE \E l \in 1 .. Len(requested) : requested[l] = prompt
      <3>1. PICK l \in 1 .. Len(requested) : requested[l] = prompt
        BY <2>2
      <3>2. asked = Moved(requested, l, prompt)
        BY <1>1, <3>1, RenewedFacts
      <3>3. l > Len(entries)
        BY <1>2, <1>3, <3>1
      <3>4. MovedToFront(Moved(requested, l, prompt), requested, l, prompt)
        BY <1>1, MoveFacts
      <3> HIDE DEF asked
      <3>5. /\ Len(asked) = Len(requested) /\ asked[1] = prompt
            /\ \A j \in 2 .. l : asked[j] = requested[j - 1]
        BY <3>2, <3>4 DEF MovedToFront
      <3>6. \A j \in 1 .. Len(entries) : asked[j + 1] = requested[j]
        <4> TAKE j \in 1 .. Len(entries)
        <4>1. j + 1 \in 2 .. l /\ (j + 1) - 1 = j
          BY <1>2, <3>3
        <4> QED BY <3>5, <4>1
      <3>7. Len(requested) >= Least(Len(entries) + 1, MaxEntries)
        BY <1>2, <3>3 DEF Least
      <3> QED BY <2>1, <3>5, <3>6, <3>7
    <2>3. CASE \A l \in 1 .. Len(requested) : requested[l] # prompt
      <3>1. asked = <<prompt>> \o requested
        BY <1>1, <2>3, RenewedFacts
      <3>2. /\ Len(<<prompt>> \o requested) = Len(requested) + 1
            /\ (<<prompt>> \o requested)[1] = prompt
            /\ \A j \in 1 .. Len(requested) : (<<prompt>> \o requested)[j + 1] = requested[j]
        BY <1>1, PrependFacts
      <3> HIDE DEF asked
      <3>3. Len(requested) + 1 >= Least(Len(entries) + 1, MaxEntries)
        BY <1>1, <1>2 DEF Least
      <3>4. \A j \in 1 .. Len(entries) : j \in 1 .. Len(requested)
        BY <1>1, <1>2
      <3> QED BY <2>1, <3>1, <3>2, <3>3, <3>4
    <2> QED BY <2>2, <2>3
  <1> HIDE DEF es, asked
  <1>8. Len(es) \in Nat /\ Len(es) <= MaxEntries /\ Len(es) <= Len(entries) + 1
    BY <1>2, <1>6 DEF Least
  <1>9. \A j \in 1 .. Len(es) : SnapshotOK(es[j]) /\ es[j].tokens = asked[j]
    <2> TAKE j \in 1 .. Len(es)
    <2>1. CASE j = 1
      BY <2>1, <1>5, <1>6, <1>7
    <2>2. CASE j # 1
      <3>1. j - 1 \in 1 .. Len(entries) /\ (j - 1) + 1 = j /\ j <= MaxEntries
        BY <2>2, <1>2, <1>8
      <3>2. es[j] = entries[j - 1] /\ asked[j] = requested[j - 1]
        BY <3>1, <1>5, <1>6, <1>7
      <3> QED BY <3>1, <3>2, <1>1
    <2> QED BY <2>1, <2>2
  <1>10. CacheInv(es, asked)
    BY <1>2, <1>6, <1>7, <1>8, <1>9 DEF CacheInv, Distinct
  <1>11. ASSUME NEW i \in 1 .. Len(entries), i < MaxEntries
         PROVE  \E j \in 1 .. Len(es) : es[j].tokens = entries[i].tokens
    <2>1. i + 1 \in 1 .. Len(es)
      BY <1>2, <1>6, <1>11 DEF Least
    <2>2. es[i + 1] = entries[i]
      BY <2>1, <1>5, <1>6
    <2> QED BY <2>1, <2>2
  <1> QED BY <1>4, <1>10, <1>11 DEF asked

-----------------------------------------------------------------------------
(* Rows in and out of a snapshot. *)

\* The invariants of the prefix cache, together.
LEMMA CacheInvMeans ==
  (/\ entries \in Seq(Snapshots) /\ requested \in Seq(Seq(Tokens))
   /\ SnapshotsOfPrompts /\ RecencyInv) <=> CacheInv(entries, requested)
  <1>1. ASSUME entries \in Seq(Snapshots), requested \in Seq(Seq(Tokens)),
               SnapshotsOfPrompts, RecencyInv
        PROVE  CacheInv(entries, requested)
    <2>1. DOMAIN entries = 1 .. Len(entries) /\ DOMAIN requested = 1 .. Len(requested)
      BY <1>1
    <2>2. \A i \in 1 .. Len(entries) : SnapshotOK(entries[i])
      BY <1>1, <2>1 DEF SnapshotsOfPrompts, SnapshotOK
    <2> QED BY <1>1, <2>1, <2>2 DEF CacheInv, SnapshotsOfPrompts, RecencyInv
  <1>2. ASSUME CacheInv(entries, requested)
        PROVE  /\ entries \in Seq(Snapshots) /\ requested \in Seq(Seq(Tokens))
               /\ SnapshotsOfPrompts /\ RecencyInv
    <2>1. DOMAIN entries = 1 .. Len(entries) /\ DOMAIN requested = 1 .. Len(requested)
      BY <1>2 DEF CacheInv
    <2>2. Len(entries) \in Nat /\ Len(requested) \in Nat
      BY <1>2 DEF CacheInv
    <2>3. \A i, j \in DOMAIN entries : entries[i].tokens = entries[j].tokens => i = j
      <3> SUFFICES ASSUME NEW i \in DOMAIN entries, NEW j \in DOMAIN entries,
                          entries[i].tokens = entries[j].tokens
                   PROVE  i = j
        OBVIOUS
      <3>1. i \in 1 .. Len(requested) /\ j \in 1 .. Len(requested)
        BY <1>2, <2>1, <2>2 DEF CacheInv
      <3>2. requested[i] = requested[j]
        BY <1>2, <2>1 DEF CacheInv
      <3> QED BY <1>2, <3>1, <3>2 DEF CacheInv
    <2>4. \A i \in DOMAIN entries : SnapshotOK(entries[i])
      BY <1>2, <2>1 DEF CacheInv
    <2>5. SnapshotsOfPrompts
      BY <1>2, <2>3, <2>4 DEF SnapshotsOfPrompts, SnapshotOK, CacheInv
    <2>6. RecencyInv
      BY <1>2, <2>1 DEF RecencyInv, CacheInv
    <2> QED BY <1>2, <2>5, <2>6 DEF CacheInv
  <1> QED BY <1>1, <1>2

\* What is kept of a cache that holds the prompt is a snapshot of the prompt.
LEMMA InsertedInv ==
  ASSUME CacheInv(entries, requested), NEW prompt \in Seq(Tokens), NEW kv, NEW m, NEW b, NEW out,
         Holds(kv, m, prompt, Len(prompt)), out = [ctx |-> prompt, sampled |-> FALSE],
         Insertable(prompt, kv, b, m)
  PROVE  /\ CacheInv(Inserted(entries, prompt, kv, b, m, out), Renewed(prompt))
         /\ \A i \in 1 .. Len(entries) : i < MaxEntries =>
              \E j \in 1 .. Len(Inserted(entries, prompt, kv, b, m, out)) :
                Inserted(entries, prompt, kv, b, m, out)[j].tokens = entries[i].tokens
  <1> DEFINE entry == [tokens |-> prompt, rows |-> SnapshotRows(prompt, kv, b), logits |-> out]
  <1>1. Len(prompt) \in 1 .. MaxTokens /\ CountedBytes(prompt) <= MaxBytes
    BY DEF Insertable
  <1>2. \A i \in 1 .. Len(prompt) : kv.rows[slot_for_pos(kv, i - 1)] = SubSeq(prompt, 1, i)
    <2> TAKE i \in 1 .. Len(prompt)
    <2>1. i - 1 \in 0 .. Len(prompt) - 1 /\ (i - 1) + 1 = i
      OBVIOUS
    <2>2. slot_for_pos(kv, i - 1) = i - 1
      BY DEF slot_for_pos, Holds
    <2>3. kv.rows[i - 1] = Prefix(prompt, i - 1)
      BY <2>1 DEF Holds
    <2> QED BY <2>1, <2>2, <2>3 DEF Prefix
  <1>3. SnapshotRows(prompt, kv, b) = [p \in 1 .. Len(prompt) |-> SubSeq(prompt, 1, p)]
    BY <1>2 DEF SnapshotRows, Insertable
  <1>4. \A p \in 1 .. Len(prompt) : SubSeq(prompt, 1, p) \in Origins
    BY PrefixFacts DEF Origins
  <1>5. [p \in 1 .. Len(prompt) |-> SubSeq(prompt, 1, p)] \in Seq(Origins)
    BY <1>1, <1>4
  <1>6. out \in LogitsType
    BY DEF LogitsType, Origins
  <1>7. entry \in Snapshots
    BY <1>3, <1>5, <1>6 DEF Snapshots
  <1>8. SnapshotOK(entry) /\ entry.tokens = prompt
    BY <1>1, <1>3 DEF SnapshotOK
  <1>9. Inserted(entries, prompt, kv, b, m, out) = Fronted(entry, prompt)
    BY DEF Inserted, Fronted, MovedFront, Truncated
  <1> HIDE DEF entry
  <1>10. CASE Known(entries, prompt)
    <2>1. /\ CacheInv(MovedFront(entry, prompt), Renewed(prompt))
          /\ \A i \in 1 .. Len(entries) : \E j \in 1 .. Len(MovedFront(entry, prompt)) :
               MovedFront(entry, prompt)[j].tokens = entries[i].tokens
      BY <1>7, <1>8, <1>10, MovedInv
    <2>2. Fronted(entry, prompt) = MovedFront(entry, prompt)
      BY <2>1, TruncatedFacts DEF CacheInv, Fronted
    <2> QED BY <1>9, <2>1, <2>2
  <1>11. CASE ~Known(entries, prompt)
    <2>1. /\ CacheInv(Fronted(entry, prompt), Renewed(prompt))
          /\ \A i \in 1 .. Len(entries) : i < MaxEntries =>
               \E j \in 1 .. Len(Fronted(entry, prompt)) :
                 Fronted(entry, prompt)[j].tokens = entries[i].tokens
      BY <1>7, <1>8, <1>11, FrontedNew
    <2> QED BY <1>9, <2>1
  <1> QED BY <1>10, <1>11

\* Restored to an empty cache, it is as if the prompt had been evaluated.
LEMMA RestoreHolds ==
  ASSUME NEW kv, CacheOK(kv), kv.sliding_window = 0, NEW m, m # "hybrid",
         NEW prompt \in Seq(Tokens), Len(prompt) <= kv.storage_len,
         NEW entry \in Snapshots, SnapshotOK(entry), entry.tokens = prompt
  PROVE  /\ Holds(RestoreRows(kv, entry), m, prompt, Len(prompt))
         /\ SameShape(RestoreRows(kv, entry), kv)
  <1> DEFINE rows == [s \in DOMAIN kv.rows |->
                        IF s + 1 \in DOMAIN entry.rows THEN entry.rows[s + 1] ELSE kv.rows[s]]
  <1>1. entry.rows = [p \in 1 .. Len(prompt) |-> SubSeq(prompt, 1, p)]
    BY DEF SnapshotOK
  <1>2. \A p \in 1 .. Len(prompt) : SubSeq(prompt, 1, p) \in Origins
    BY PrefixFacts DEF Origins
  <1>3. kv.rows \in [0 .. kv.storage_len - 1 -> Origins] /\ kv.storage_len \in Nat /\ kv.ssm \in Origins
    BY CacheFacts
  <1>4. rows \in [0 .. kv.storage_len - 1 -> Origins]
    BY <1>1, <1>2, <1>3
  <1>5. \A p \in 0 .. Len(prompt) - 1 : rows[p] = SubSeq(prompt, 1, p + 1)
    BY <1>1, <1>3
  <1>6. RestoreRows(kv, entry) = Replaced(kv, rows, kv.ssm)
    BY DEF RestoreRows, Replaced, CacheOK
  <1> HIDE DEF rows
  <1>7. /\ CacheOK(Replaced(kv, rows, kv.ssm)) /\ SameShape(Replaced(kv, rows, kv.ssm), kv)
        /\ Replaced(kv, rows, kv.ssm).rows = rows
    BY <1>3, <1>4, ReplaceRows
  <1> QED BY <1>5, <1>6, <1>7 DEF Holds, SameShape, Prefix

-----------------------------------------------------------------------------
(* The inductive invariant. *)

\* A request's cache has at least one slot.
LEMMA CacheLen ==
  ASSUME NEW prompt \in Prompts, NEW context \in Contexts, NEW n \in Budgets
  PROVE  cache_len_for(prompt, context, n) \in Nat \ {0}
  BY StatelessAssumption DEF cache_len_for, Least

LEMMA InitInv == Init => StatelessInv
  <1> SUFFICES ASSUME Init PROVE StatelessInv
    OBVIOUS
  <1> USE DEF Init, NoRequest
  <1>1. CacheOK(NewCache(1, 0))
    BY NewCacheFacts
  <1>2. TypeOK
    <2>1. NoLogits \in LogitsType
      BY DEF NoLogits, LogitsType, Origins
    <2>2. <<>> \in Seq(Tokens) /\ Len(<<>>) = 0
      OBVIOUS
    <2>3. entries \in Seq(Snapshots) /\ requested \in Seq(Seq(Tokens))
      OBVIOUS
    <2>4. bf16 \in BOOLEAN
      BY Zenon
    <2>5. /\ budget \in Nat /\ fed \in 0 .. Len(tokens)
          /\ tokens \in Seq(Tokens) /\ text \in Seq(Tokens)
      BY <2>2
    <2>6. model \in Models /\ pc \in {"idle", "prefill", "decode", "forward", "end", "panicked"}
      OBVIOUS
    <2>7. logits \in LogitsType /\ CacheOK(cache)
      BY <1>1, <2>1, Zenon
    <2> HIDE DEF Init, NoRequest
    <2> QED BY <2>3, <2>4, <2>5, <2>6, <2>7 DEF TypeOK, Snapshots
  <1>3. SnapshotsOfPrompts /\ RecencyInv
    BY StatelessAssumption DEF SnapshotsOfPrompts, RecencyInv
  <1> QED
    BY <1>2, <1>3 DEF StatelessInv, ProgressInv, RowsInv, PrefixHitInvisible

\* The parts of the invariant after a step.
LEMMA StatelessInvMeans ==
  ASSUME TypeOK', ProgressInv', RowsInv', PrefixHitInvisible', CacheInv(entries', requested')
  PROVE  StatelessInv'
  <1>1. CacheInv(entries, requested)'
    BY DEF CacheInv
  <1>2. SnapshotsOfPrompts' /\ RecencyInv'
    BY <1>1, CacheInvMeans, PTL
  <1> QED BY <1>2 DEF StatelessInv

LEMMA BeginInv ==
  ASSUME StatelessInv, NEW prompt \in Prompts, NEW context \in Contexts, NEW window \in Windows,
         NEW n \in Budgets, BeginRequest(prompt, context, window, n)
  PROVE  StatelessInv'
  <1> DEFINE len == cache_len_for(prompt, context, n)
             fresh == NewCache(len, window)
             asks == window = 0
             hit == asks /\ Known(entries, prompt)
                    /\ Restorable(SnapshotOf(entries, prompt), fresh, bf16', model)
  <1>1. prompt \in Seq(Tokens) /\ prompt # <<>> /\ window \in Nat /\ n \in Nat
    BY StatelessAssumption
  <1>2. /\ CacheOK(fresh) /\ fresh.max_len = len /\ fresh.sliding_window = window
    BY <1>1, CacheLen, NewCacheFacts
  <1>3. TypeOK /\ CacheInv(entries, requested)
    BY CacheInvMeans DEF StatelessInv, TypeOK, Snapshots
  <1>4. /\ tokens' = prompt /\ text' = prompt /\ budget' = n /\ bf16' \in BOOLEAN /\ model' = model
        /\ entries' = IF asks THEN Restored(entries, prompt) ELSE entries
        /\ cache' = IF hit THEN RestoreRows(fresh, SnapshotOf(entries, prompt)) ELSE fresh
        /\ logits' = IF hit THEN SnapshotOf(entries, prompt).logits ELSE NoLogits
        /\ pc' = IF hit THEN "decode" ELSE "prefill"
        /\ fed' = IF hit THEN Len(prompt) ELSE 0
        /\ requested' = IF asks /\ Known(entries, prompt) THEN Renewed(prompt) ELSE requested
    BY DEF BeginRequest, WantsBf16
  <1> HIDE DEF len, fresh, asks
  <1>5. CacheInv(entries', requested')
    <2>1. CASE asks /\ Known(entries, prompt)
      BY <1>1, <1>3, <1>4, <2>1, RestoredInv
    <2>2. CASE ~(asks /\ Known(entries, prompt))
      BY <1>3, <1>4, <2>2 DEF Restored
    <2> QED BY <2>1, <2>2
  <1>6. CASE hit
    <2> DEFINE entry == SnapshotOf(entries, prompt)
    <2>1. entry \in Snapshots /\ SnapshotOK(entry) /\ entry.tokens = prompt
      BY <1>1, <1>3, <1>6, RestoredInv
    <2>2. model # "hybrid" /\ Len(prompt) <= fresh.storage_len /\ fresh.sliding_window = 0
      BY <1>2, <1>6, <2>1 DEF Restorable, asks
    <2>3. fresh.storage_len = fresh.max_len
      BY <1>2, <2>2, CacheFacts
    <2> HIDE DEF entry
    <2>4. /\ Holds(RestoreRows(fresh, entry), model, prompt, Len(prompt))
          /\ SameShape(RestoreRows(fresh, entry), fresh)
      BY <1>1, <1>2, <2>1, <2>2, RestoreHolds
    <2>5. /\ cache' = RestoreRows(fresh, entry) /\ logits' = entry.logits
          /\ pc' = "decode" /\ fed' = Len(prompt)
      BY <1>4, <1>6 DEF entry
    <2>6. entry.logits = [ctx |-> prompt, sampled |-> FALSE]
      BY <2>1 DEF SnapshotOK
    <2>7. /\ Holds(cache', model', text', Len(text')) /\ Len(text') <= cache'.max_len
          /\ CacheOK(cache')
      BY <1>4, <2>2, <2>3, <2>4, <2>5 DEF SameShape, Holds
    <2>8. logits' \in LogitsType /\ fed' \in 0 .. Len(tokens')
      <3>1. Len(prompt) \in 0 .. Len(prompt)
        BY <1>1
      <3>2. [ctx |-> prompt, sampled |-> FALSE] \in LogitsType
        BY <1>1 DEF LogitsType, Origins
      <3> QED BY <1>4, <2>5, <2>6, <3>1, <3>2
    <2>9. TypeOK'
      BY <1>1, <1>3, <1>4, <1>5, <2>5, <2>7, <2>8 DEF TypeOK, CacheInv, Snapshots
    <2>10. ProgressInv' /\ RowsInv'
      BY <2>5, <2>7 DEF ProgressInv, RowsInv
    <2>11. PrefixHitInvisible'
      <3>1. \A p \in 0 .. Len(text') - 1 : cache'.rows[p] = Prefix(text', p)
        BY <2>7 DEF Holds
      <3>2. model' = "hybrid" => cache'.ssm = text'
        BY <1>4, <2>2
      <3>3. logits' = [ctx |-> text', sampled |-> FALSE]
        BY <1>4, <2>5, <2>6
      <3> QED BY <3>1, <3>2, <3>3 DEF PrefixHitInvisible
    <2> QED BY <1>5, <2>9, <2>10, <2>11, StatelessInvMeans
  <1>7. CASE ~hit
    <2>1. cache' = fresh /\ logits' = NoLogits /\ pc' = "prefill" /\ fed' = 0
      BY <1>4, <1>7
    <2>2. TypeOK'
      BY <1>1, <1>2, <1>3, <1>4, <1>5, <2>1
         DEF TypeOK, CacheInv, Snapshots, NoLogits, LogitsType, Origins
    <2>3. ProgressInv'
      BY <1>1, <1>4, <2>1 DEF ProgressInv
    <2>4. RowsInv'
      <3>1. window = 0 => Holds(fresh, model, prompt, 0)
        BY <1>1, CacheLen, NewCacheHolds DEF fresh, len
      <3> QED BY <1>2, <1>4, <2>1, <3>1 DEF RowsInv
    <2>5. PrefixHitInvisible'
      BY <2>1 DEF PrefixHitInvisible
    <2> QED BY <1>5, <2>2, <2>3, <2>4, <2>5, StatelessInvMeans
  <1> QED BY <1>6, <1>7

LEMMA PrefillTokenInv ==
  ASSUME StatelessInv, PrefillToken
  PROVE  StatelessInv'
  <1>1. TypeOK /\ CacheInv(entries, requested)
    BY CacheInvMeans DEF StatelessInv, TypeOK, Snapshots
  <1>2. /\ fed \in 0 .. Len(tokens) - 2 /\ tokens \in Seq(Tokens) /\ CacheOK(cache)
        /\ text = tokens
    BY <1>1 DEF PrefillToken, TypeOK, StatelessInv, ProgressInv
  <1>3. fed \in Nat /\ fed \in 0 .. Len(tokens) - 1 /\ tokens[fed + 1] \in Tokens
    BY <1>2
  <1>4. /\ cache' = Forward(cache, model, tokens[fed + 1], fed) /\ fed' = fed + 1
        /\ UNCHANGED <<model, entries, pc, tokens, text, bf16, budget, logits, requested>>
        /\ pc = "prefill" /\ InStorage(cache, fed)
    BY DEF PrefillToken
  <1>5. CacheOK(cache') /\ SameShape(cache', cache)
    BY <1>2, <1>3, <1>4, ForwardType
  <1>6. TypeOK'
    BY <1>1, <1>2, <1>4, <1>5 DEF TypeOK
  <1>7. ProgressInv'
    BY <1>2, <1>4 DEF ProgressInv
  <1>8. RowsInv'
    <2>1. ASSUME cache.sliding_window = 0
          PROVE  Holds(cache', model, tokens, fed + 1)
      <3>1. Holds(cache, model, tokens, fed)
        BY <1>4, <2>1 DEF StatelessInv, RowsInv
      <3>2. fed < cache.max_len
        BY <1>2, <1>3, <1>4, <2>1, InStorageFacts
      <3> QED BY <1>2, <1>3, <1>4, <3>1, <3>2, ForwardHolds
    <2> QED BY <1>4, <1>5, <2>1 DEF RowsInv, SameShape
  <1>9. PrefixHitInvisible'
    BY <1>4 DEF PrefixHitInvisible
  <1> QED BY <1>1, <1>4, <1>6, <1>7, <1>8, <1>9, StatelessInvMeans

LEMMA PrefillLastInv ==
  ASSUME StatelessInv, PrefillLast
  PROVE  /\ StatelessInv'
         /\ entries' # entries =>
              \A i \in 1 .. Len(entries) : i < MaxEntries =>
                \E j \in 1 .. Len(entries') : entries'[j].tokens = entries[i].tokens
  <1> DEFINE row == ForwardRow(cache, model, tokens[fed + 1], fed)
             asks == cache.sliding_window = 0
             kept == asks /\ Insertable(tokens, cache', bf16, model)
  <1>1. TypeOK /\ CacheInv(entries, requested)
    BY CacheInvMeans DEF StatelessInv, TypeOK, Snapshots
  <1>2. /\ fed \in 0 .. Len(tokens) - 1 /\ tokens \in Seq(Tokens) /\ CacheOK(cache)
        /\ text = tokens /\ fed + 1 = Len(tokens)
    BY <1>1 DEF PrefillLast, TypeOK, StatelessInv, ProgressInv
  <1>3. fed \in Nat /\ tokens[fed + 1] \in Tokens /\ SubSeq(tokens, 1, fed + 1) = tokens
    BY <1>2, WholePrefix
  <1>4. /\ cache' = Forward(cache, model, tokens[fed + 1], fed) /\ fed' = Len(tokens)
        /\ logits' = [ctx |-> row, sampled |-> FALSE] /\ pc' = "decode"
        /\ UNCHANGED <<model, tokens, text, bf16, budget>>
        /\ pc = "prefill" /\ InStorage(cache, fed)
        /\ entries' = IF asks THEN Inserted(entries, tokens, cache', bf16, model, logits')
                      ELSE entries
        /\ requested' = IF kept THEN Renewed(tokens) ELSE requested
    BY DEF PrefillLast
  <1>5. row \in Origins /\ CacheOK(cache') /\ SameShape(cache', cache)
    BY <1>2, <1>3, <1>4, ForwardType
  <1>6. ASSUME asks
        PROVE  /\ Holds(cache', model, tokens, Len(tokens)) /\ row = tokens
               /\ Len(tokens) <= cache'.max_len
    <2>1. Holds(cache, model, tokens, fed)
      BY <1>4, <1>6 DEF StatelessInv, RowsInv
    <2>2. fed < cache.max_len /\ cache.max_len \in Nat
      BY <1>2, <1>3, <1>4, <1>6, InStorageFacts, CacheFacts
    <2>3. /\ row = SubSeq(tokens, 1, fed + 1)
          /\ Holds(cache', model, tokens, fed + 1)
      BY <1>2, <1>4, <2>1, <2>2, ForwardHolds
    <2>4. Len(tokens) <= cache'.max_len
      BY <1>2, <1>5, <2>2 DEF SameShape
    <2> QED BY <1>2, <1>3, <2>3, <2>4
  <1> HIDE DEF row
  <1>7. /\ CacheInv(entries', requested')
        /\ entries' # entries =>
             \A i \in 1 .. Len(entries) : i < MaxEntries =>
               \E j \in 1 .. Len(entries') : entries'[j].tokens = entries[i].tokens
    <2>1. CASE kept
      <3>1. /\ entries' = Inserted(entries, tokens, cache', bf16, model, logits')
            /\ requested' = Renewed(tokens)
        BY <1>4, <2>1
      <3>2. logits' = [ctx |-> tokens, sampled |-> FALSE]
        BY <1>4, <1>6, <2>1
      <3>3. Holds(cache', model, tokens, Len(tokens)) /\ Insertable(tokens, cache', bf16, model)
        BY <1>6, <2>1
      <3> QED BY <1>1, <1>2, <3>1, <3>2, <3>3, InsertedInv
    <2>2. CASE ~kept
      <3>1. entries' = entries /\ requested' = requested
        BY <1>4, <2>2 DEF Inserted
      <3> QED BY <1>1, <3>1
    <2> QED BY <2>1, <2>2
  <1>8. logits' \in LogitsType /\ fed' \in 0 .. Len(tokens')
    <2>1. [ctx |-> row, sampled |-> FALSE] \in LogitsType
      BY <1>5 DEF LogitsType
    <2>2. Len(tokens) \in 0 .. Len(tokens)
      BY <1>2
    <2> QED BY <1>4, <2>1, <2>2
  <1>9. TypeOK'
    BY <1>1, <1>4, <1>5, <1>7, <1>8 DEF TypeOK, CacheInv, Snapshots
  <1>10. ProgressInv' /\ RowsInv'
    BY <1>2, <1>4, <1>5, <1>6 DEF ProgressInv, RowsInv, SameShape
  <1>11. PrefixHitInvisible'
    <2> SUFFICES ASSUME cache'.sliding_window = 0
                 PROVE  /\ logits' = [ctx |-> text', sampled |-> FALSE]
                        /\ \A p \in 0 .. Len(text') - 1 : cache'.rows[p] = Prefix(text', p)
                        /\ model' = "hybrid" => cache'.ssm = text'
      BY DEF PrefixHitInvisible
    <2>1. /\ Holds(cache', model, tokens, Len(tokens)) /\ row = tokens
      BY <1>5, <1>6 DEF SameShape
    <2>2. SubSeq(tokens, 1, Len(tokens)) = tokens
      BY <1>2, WholePrefix
    <2> QED BY <1>2, <1>4, <2>1, <2>2 DEF Holds
  <1>12. StatelessInv'
    BY <1>7, <1>9, <1>10, <1>11, StatelessInvMeans
  <1> QED BY <1>7, <1>12

LEMMA PanicInv ==
  ASSUME StatelessInv, Panic
  PROVE  StatelessInv'
  <1>1. TypeOK /\ CacheInv(entries, requested)
    BY CacheInvMeans DEF StatelessInv, TypeOK, Snapshots
  <1>2. /\ pc' = "panicked" /\ UNCHANGED <<model, entries, requested>>
        /\ UNCHANGED <<tokens, fed, text, bf16, budget, cache, logits>>
    BY DEF Panic, request
  <1>3. TypeOK'
    BY <1>1, <1>2 DEF TypeOK
  <1> QED BY <1>1, <1>2, <1>3, StatelessInvMeans DEF ProgressInv, RowsInv, PrefixHitInvisible

LEMMA SampleInv ==
  ASSUME StatelessInv, Sample
  PROVE  StatelessInv'
  <1>1. TypeOK /\ CacheInv(entries, requested)
    BY CacheInvMeans DEF StatelessInv, TypeOK, Snapshots
  <1>2. PICK token \in Tokens : text' = Append(text, token)
    BY DEF Sample
  <1>3. /\ budget' = budget - 1 /\ budget > 0 /\ pc = "decode"
        /\ logits' = [logits EXCEPT !.sampled = TRUE]
        /\ pc' = IF budget' = 0 \/ Len(text) >= cache.max_len THEN "end" ELSE "forward"
        /\ UNCHANGED <<model, entries, tokens, fed, bf16, cache, requested>>
    BY DEF Sample
  <1>4. text \in Seq(Tokens) /\ budget \in Nat /\ CacheOK(cache) /\ logits \in LogitsType
    BY <1>1 DEF TypeOK
  <1>5. /\ text' \in Seq(Tokens) /\ Len(text') = Len(text) + 1 /\ Len(text) \in Nat /\ text' # <<>>
        /\ \A i \in 1 .. Len(text) : text[i] = text'[i]
    BY <1>2, <1>4
  <1>6. TypeOK'
    <2>1. logits' \in LogitsType
      BY <1>3, <1>4 DEF LogitsType
    <2>2. budget' \in Nat
      BY <1>3, <1>4
    <2> QED BY <1>1, <1>3, <1>5, <2>1, <2>2 DEF TypeOK
  <1>7. cache.max_len \in Nat
    BY <1>4, CacheFacts
  <1>8. ProgressInv'
    <2>1. pc' = "forward" => InStorage(cache, Len(text))
      <3>1. pc' = "forward" => Len(text) < cache.max_len
        BY <1>3, <1>5, <1>7
      <3> QED BY <1>4, <1>5, <3>1, InStorageFacts
    <2>2. Len(text') - 1 = Len(text)
      BY <1>5
    <2> QED BY <1>3, <1>5, <2>1, <2>2 DEF ProgressInv
  <1>9. RowsInv'
    <2>1. ASSUME cache.sliding_window = 0
          PROVE  Holds(cache, model, text', Len(text') - 1)
      <3>1. Holds(cache, model, text, Len(text))
        BY <1>3, <2>1 DEF StatelessInv, RowsInv
      <3>2. Holds(cache, model, text', Len(text))
        BY <1>4, <1>5, <3>1, HoldsCommonPrefix
      <3>3. Len(text') - 1 = Len(text)
        BY <1>5
      <3> QED BY <3>2, <3>3
    <2> QED BY <1>3, <2>1 DEF RowsInv
  <1>10. PrefixHitInvisible'
    BY <1>3 DEF PrefixHitInvisible
  <1> QED BY <1>1, <1>3, <1>6, <1>8, <1>9, <1>10, StatelessInvMeans

LEMMA ForwardTokenInv ==
  ASSUME StatelessInv, ForwardToken
  PROVE  StatelessInv'
  <1> DEFINE at == Len(text) - 1
             row == ForwardRow(cache, model, text[at + 1], at)
  <1>1. TypeOK /\ CacheInv(entries, requested)
    BY CacheInvMeans DEF StatelessInv, TypeOK, Snapshots
  <1>2. /\ pc = "forward" /\ pc' = "decode"
        /\ logits' = [ctx |-> row, sampled |-> FALSE]
        /\ cache' = Forward(cache, model, text[at + 1], at)
        /\ UNCHANGED <<model, entries, tokens, fed, text, bf16, budget, requested>>
    BY DEF ForwardToken
  <1>3. /\ text \in Seq(Tokens) /\ CacheOK(cache) /\ text # <<>> /\ InStorage(cache, at)
    BY <1>1, <1>2 DEF TypeOK, StatelessInv, ProgressInv
  <1>4. /\ at \in Nat /\ at \in 0 .. Len(text) - 1 /\ text[at + 1] \in Tokens
        /\ at + 1 = Len(text) /\ SubSeq(text, 1, at + 1) = text
    BY <1>3, WholePrefix
  <1> HIDE DEF at
  <1>5. row \in Origins /\ CacheOK(cache') /\ SameShape(cache', cache)
    BY <1>2, <1>3, <1>4, ForwardType
  <1>6. ASSUME cache.sliding_window = 0
        PROVE  /\ Holds(cache', model, text, Len(text)) /\ row = text
               /\ Len(text) <= cache'.max_len
    <2>1. Holds(cache, model, text, at)
      BY <1>2, <1>6 DEF StatelessInv, RowsInv, at
    <2>2. at < cache.max_len /\ cache.max_len \in Nat
      BY <1>3, <1>4, <1>6, InStorageFacts, CacheFacts
    <2>3. row = SubSeq(text, 1, at + 1) /\ Holds(cache', model, text, at + 1)
      BY <1>2, <1>3, <1>4, <2>1, <2>2, ForwardHolds
    <2>4. Len(text) <= cache'.max_len
      BY <1>4, <1>5, <2>2 DEF SameShape
    <2> QED BY <1>4, <2>3, <2>4
  <1> HIDE DEF row
  <1>7. TypeOK'
    <2>1. logits' \in LogitsType
      BY <1>2, <1>5 DEF LogitsType
    <2> QED BY <1>1, <1>2, <1>5, <2>1 DEF TypeOK
  <1>8. ProgressInv' /\ RowsInv'
    BY <1>2, <1>5, <1>6 DEF ProgressInv, RowsInv, SameShape
  <1>9. PrefixHitInvisible'
    <2> SUFFICES ASSUME cache'.sliding_window = 0
                 PROVE  /\ logits' = [ctx |-> text', sampled |-> FALSE]
                        /\ \A p \in 0 .. Len(text') - 1 : cache'.rows[p] = Prefix(text', p)
                        /\ model' = "hybrid" => cache'.ssm = text'
      BY DEF PrefixHitInvisible
    <2>1. Holds(cache', model, text, Len(text)) /\ row = text
      BY <1>5, <1>6 DEF SameShape
    <2> QED BY <1>2, <1>4, <2>1 DEF Holds
  <1> QED BY <1>1, <1>2, <1>7, <1>8, <1>9, StatelessInvMeans

LEMMA EndRequestInv ==
  ASSUME StatelessInv, EndRequest
  PROVE  StatelessInv'
  <1>1. TypeOK /\ CacheInv(entries, requested)
    BY CacheInvMeans DEF StatelessInv, TypeOK, Snapshots
  <1>2. /\ pc' = "idle" /\ tokens' = <<>> /\ fed' = 0 /\ text' = <<>> /\ bf16' = FALSE /\ budget' = 0
        /\ cache' = NewCache(1, 0) /\ logits' = NoLogits
        /\ UNCHANGED <<model, entries, requested>>
    BY DEF EndRequest
  <1>3. CacheOK(cache')
    BY <1>2, NewCacheFacts
  <1>4. logits' \in LogitsType /\ fed' \in 0 .. Len(tokens')
    BY <1>2 DEF NoLogits, LogitsType, Origins
  <1>5. bf16' \in BOOLEAN
    BY <1>2, Zenon
  <1>6. TypeOK'
    BY <1>1, <1>2, <1>3, <1>4, <1>5 DEF TypeOK
  <1> QED
    BY <1>1, <1>2, <1>6, StatelessInvMeans DEF ProgressInv, RowsInv, PrefixHitInvisible

LEMMA ClearInv ==
  ASSUME StatelessInv, Clear
  PROVE  StatelessInv'
  <1>1. TypeOK /\ CacheInv(entries, requested)
    BY CacheInvMeans DEF StatelessInv, TypeOK, Snapshots
  <1>2. /\ entries' = <<>> /\ UNCHANGED <<model, pc, requested>>
        /\ UNCHANGED <<tokens, fed, text, bf16, budget, cache, logits>>
    BY DEF Clear, request
  <1>3. TypeOK'
    BY <1>1, <1>2 DEF TypeOK
  <1>4. CacheInv(entries', requested')
    BY <1>1, <1>2, StatelessAssumption DEF CacheInv
  <1> QED
    BY <1>2, <1>3, <1>4, StatelessInvMeans
       DEF StatelessInv, ProgressInv, RowsInv, PrefixHitInvisible

LEMMA StepInv == StatelessInv /\ [Next]_vars => StatelessInv'
  <1> SUFFICES ASSUME StatelessInv, [Next]_vars PROVE StatelessInv'
    OBVIOUS
  <1>1. ASSUME NEW prompt \in Prompts, NEW context \in Contexts, NEW window \in Windows,
               NEW n \in Budgets, BeginRequest(prompt, context, window, n)
        PROVE  StatelessInv'
    BY <1>1, BeginInv
  <1>2. CASE PrefillToken
    BY <1>2, PrefillTokenInv
  <1>3. CASE PrefillLast
    BY <1>3, PrefillLastInv
  <1>4. CASE Panic
    BY <1>4, PanicInv
  <1>5. CASE Sample
    BY <1>5, SampleInv
  <1>6. CASE ForwardToken
    BY <1>6, ForwardTokenInv
  <1>7. CASE EndRequest
    BY <1>7, EndRequestInv
  <1>8. CASE Clear
    BY <1>8, ClearInv
  <1>9. CASE UNCHANGED vars
    <2>1. UNCHANGED <<model, entries, pc, tokens, fed, text, bf16, budget, cache, logits, requested>>
      BY <1>9 DEF vars
    <2>2. TypeOK'
      BY <2>1 DEF StatelessInv, TypeOK
    <2>3. ProgressInv' /\ RowsInv'
      BY <2>1 DEF StatelessInv, ProgressInv, RowsInv
    <2>4. SnapshotsOfPrompts' /\ RecencyInv'
      BY <2>1 DEF StatelessInv, SnapshotsOfPrompts, RecencyInv
    <2>5. PrefixHitInvisible'
      BY <2>1 DEF StatelessInv, PrefixHitInvisible
    <2> QED BY <2>2, <2>3, <2>4, <2>5 DEF StatelessInv
  <1> QED BY <1>1, <1>2, <1>3, <1>4, <1>5, <1>6, <1>7, <1>8, <1>9 DEF Next

\* The invariant holds in every state.
THEOREM StatelessInvariant == Spec => []StatelessInv
  <1> QED BY InitInv, StepInv, PTL DEF Spec

-----------------------------------------------------------------------------
(* What makes room. *)

\* A step that keeps the snapshots at every place but the last one loses the
\* least recent prompt only.
LEMMA LastPlaceGoes ==
  ASSUME CacheInv(entries, requested), DOMAIN entries' = 1 .. Len(entries'),
         \A i \in 1 .. Len(entries) : i < MaxEntries =>
           \E j \in 1 .. Len(entries') : entries'[j].tokens = entries[i].tokens,
         NEW gone \in Prompted \ Prompted', NEW kept \in Prompted \cap Prompted'
  PROVE  Recency(kept) < Recency(gone)
  <1>1. /\ DOMAIN entries = 1 .. Len(entries) /\ DOMAIN requested = 1 .. Len(requested)
        /\ Len(entries) \in Nat /\ Len(requested) \in Nat
        /\ Len(entries) <= Len(requested) /\ Len(entries) <= MaxEntries /\ MaxEntries \in Nat
    BY StatelessAssumption DEF CacheInv
  <1>2. ASSUME NEW i \in 1 .. Len(entries)
        PROVE  Recency(entries[i].tokens) = i
    <2>1. i \in 1 .. Len(requested) /\ requested[i] = entries[i].tokens
      BY <1>1 DEF CacheInv
    <2>2. \A l \in 1 .. Len(requested) : requested[l] = entries[i].tokens => l = i
      BY <2>1 DEF CacheInv
    <2> QED BY <1>1, <2>1, <2>2 DEF Recency
  <1>3. PICK g \in 1 .. Len(entries) : entries[g].tokens = gone
    BY <1>1 DEF Prompted
  <1>4. PICK k \in 1 .. Len(entries) : entries[k].tokens = kept
    BY <1>1 DEF Prompted
  <1>5. ~\E j \in 1 .. Len(entries') : entries'[j].tokens = gone
    BY DEF Prompted
  <1>6. ~(g < MaxEntries)
    BY <1>3, <1>5
  <1>7. g # k
    BY <1>3, <1>4 DEF Prompted
  <1>8. k < g
    BY <1>1, <1>6, <1>7
  <1> QED BY <1>2, <1>3, <1>4, <1>8

\* No step but the end of a prefill and a clearing loses a snapshot.
LEMMA StepEvicts ==
  ASSUME StatelessInv, [Next]_vars, Prompted' # {},
         NEW gone \in Prompted \ Prompted', NEW kept \in Prompted \cap Prompted'
  PROVE  Recency(kept) < Recency(gone)
  <1>1. CacheInv(entries, requested)
    BY CacheInvMeans DEF StatelessInv, TypeOK, Snapshots
  <1>2. DOMAIN entries' = 1 .. Len(entries')
    BY StepInv DEF StatelessInv, TypeOK
  <1>3. entries' # entries
    BY DEF Prompted
  <1>4. \A i \in 1 .. Len(entries) : i < MaxEntries =>
          \E j \in 1 .. Len(entries') : entries'[j].tokens = entries[i].tokens
    <2>1. ASSUME NEW prompt \in Prompts, NEW context \in Contexts, NEW window \in Windows,
                 NEW n \in Budgets, BeginRequest(prompt, context, window, n)
          PROVE  \A i \in 1 .. Len(entries) :
                   \E j \in 1 .. Len(entries') : entries'[j].tokens = entries[i].tokens
      <3>1. entries' = Restored(entries, prompt) /\ Known(entries, prompt)
        BY <1>3, <2>1 DEF BeginRequest, Restored
      <3>2. prompt \in Seq(Tokens)
        BY StatelessAssumption
      <3> QED BY <1>1, <3>1, <3>2, RestoredInv
    <2>2. CASE PrefillLast
      BY <1>3, <2>2, PrefillLastInv
    <2>3. CASE Clear
      <3>1. Len(entries') = 0
        BY <2>3 DEF Clear
      <3> QED BY <1>2, <3>1 DEF Prompted
    <2>4. CASE PrefillToken \/ Panic \/ Sample \/ ForwardToken \/ EndRequest \/ UNCHANGED vars
      BY <1>3, <2>4 DEF PrefillToken, Panic, Sample, ForwardToken, EndRequest, vars
    <2> QED BY <2>1, <2>2, <2>3, <2>4 DEF Next
  <1> QED BY <1>1, <1>2, <1>4, LastPlaceGoes

-----------------------------------------------------------------------------
(* The properties. *)

\* Every variable keeps its type: the request's cache has the slots its
\* length and its window give it, and every row is of a sequence of tokens or
\* garbage (generate_chat_stream, src/src/runtime.rs).
THEOREM TypeCorrect == Spec => []TypeOK
  <1>1. StatelessInv => TypeOK
    BY DEF StatelessInv
  <1> QED BY <1>1, StatelessInvariant, PTL

\* The prefix cache holds, for different prompts and within its limits, what
\* a prefill of the prompt leaves (SharedPrefixCache::insert and restore).
THEOREM SnapshotsCorrect == Spec => []SnapshotsOfPrompts
  <1>1. StatelessInv => SnapshotsOfPrompts
    BY DEF StatelessInv
  <1> QED BY <1>1, StatelessInvariant, PTL

\* A request that found its prompt in the prefix cache decodes from the rows
\* and the logits it would have computed itself.
THEOREM PrefixHitCorrect == Spec => []PrefixHitInvisible
  <1>1. StatelessInv => PrefixHitInvisible
    BY DEF StatelessInv
  <1> QED BY <1>1, StatelessInvariant, PTL

\* Room is made by the snapshot that was asked for or kept before all others.
THEOREM EvictionCorrect == Spec => EvictsLeastRecentPrompt
  <1>1. StatelessInv /\ [Next]_vars =>
          [Prompted' # {} =>
             \A gone \in Prompted \ Prompted', kept \in Prompted \cap Prompted' :
               Recency(kept) < Recency(gone)]_vars
    BY StepEvicts
  <1> QED BY <1>1, StatelessInvariant, PTL DEF Spec, EvictsLeastRecentPrompt
=============================================================================
