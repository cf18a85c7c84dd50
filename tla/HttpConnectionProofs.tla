------------------------ MODULE HttpConnectionProofs ------------------------
(***************************************************************************)
(* Proofs about a connection: for every header and body, however they      *)
(* arrive, every vocabulary and every list of stop sequences, a request is *)
(* handled as it was sent, the text is decoded once, stop sequences cut it,*)
(* and a stream is one its protocol allows that says what the answer says. *)
(*                                                                         *)
(* The recursive functions of TextAssembly are handled without an          *)
(* induction rule: of the places where a claim fails there is a least one  *)
(* (LeastElement).                                                         *)
(***************************************************************************)
EXTENDS HttpConnection, FiniteSetTheorems, SequenceTheorems, TLAPS

(* Least elements and the inductions they give. *)

\* A set of natural numbers that is not empty has a least element.
LEMMA LeastElement ==
  ASSUME NEW T \in SUBSET Nat, T # {}
  PROVE  \E x \in T : \A y \in T : x <= y
<1> DEFINE Below == {0 .. x : x \in T}
           R == StrictSubsetOrdering(Nat)
<1>1. IsWellFoundedOn(R, FiniteSubsetsOf(Nat))
  BY FS_StrictSubsetOrderingWellFounded
<1>2. Below \subseteq FiniteSubsetsOf(Nat) /\ Below # {}
  <2>1. ASSUME NEW x \in T
        PROVE  0 .. x \in SUBSET Nat /\ IsFiniteSet(0 .. x)
    BY FS_Interval
  <2> QED
    BY <2>1, Zenon DEF FiniteSubsetsOf
<1>3. PICK b \in Below : \A c \in Below : ~(<<c, b>> \in R)
  <2> HIDE DEF R, Below
  <2> QED BY <1>1, <1>2, WFMin
<1>4. PICK x \in T : b = 0 .. x
  OBVIOUS
<1>5. ASSUME NEW y \in T, y < x
      PROVE  FALSE
  <2>1. 0 .. y \subseteq 0 .. x /\ 0 .. y # 0 .. x
    <3>1. x \in 0 .. x /\ x \notin 0 .. y
      BY <1>5
    <3> QED BY <1>5, <3>1
  <2>2. <<0 .. y, 0 .. x>> \in R
    BY <2>1 DEF StrictSubsetOrdering
  <2> QED BY <1>3, <1>4, <2>2
<1> QED
  BY <1>5

\* Upwards: a set of numbers with 1 that is closed under the successor.
LEMMA Upwards ==
  ASSUME NEW n \in Nat, NEW Good,
         \A i \in 1 .. n : (\A j \in 1 .. i - 1 : j \in Good) => i \in Good
  PROVE  \A i \in 1 .. n : i \in Good
<1> DEFINE Bad == {i \in 1 .. n : i \notin Good}
<1>1. SUFFICES ASSUME Bad # {} PROVE FALSE
  OBVIOUS
<1>2. PICK i \in Bad : \A j \in Bad : i <= j
  <2>1. Bad \in SUBSET Nat
    OBVIOUS
  <2> HIDE DEF Bad
  <2> QED BY <1>1, <2>1, LeastElement
<1>3. \A j \in 1 .. i - 1 : j \in Good
  BY <1>2
<1> QED
  BY <1>2, <1>3

\* Downwards: from n + 1 to 1.
LEMMA Downwards ==
  ASSUME NEW n \in Nat, NEW Good,
         \A i \in 1 .. n + 1 : (\A j \in i + 1 .. n + 1 : j \in Good) => i \in Good
  PROVE  \A i \in 1 .. n + 1 : i \in Good
<1> DEFINE Bad == {k \in 0 .. n : n + 1 - k \notin Good}
<1>1. SUFFICES ASSUME NEW b \in 1 .. n + 1, b \notin Good PROVE FALSE
  OBVIOUS
<1>2. n + 1 - b \in Bad
  <2>1. n + 1 - (n + 1 - b) = b
    OBVIOUS
  <2> QED BY <1>1, <2>1
<1>3. PICK k \in Bad : \A j \in Bad : k <= j
  <2>1. Bad \in SUBSET Nat
    OBVIOUS
  <2> HIDE DEF Bad
  <2> QED BY <1>2, <2>1, LeastElement
<1>4. ASSUME NEW j \in (n + 1 - k) + 1 .. n + 1
      PROVE  j \in Good
  <2>1. n + 1 - j \in 0 .. n /\ n + 1 - j < k /\ n + 1 - (n + 1 - j) = j
    BY <1>3
  <2> QED BY <1>3, <2>1
<1>5. n + 1 - k \in 1 .. n + 1 /\ n + 1 - k \notin Good
  BY <1>3
<1> QED
  BY <1>4, <1>5

\* The least and the greatest element of a bounded set of numbers.
LEMMA LeastOfBounded ==
  ASSUME NEW n \in Nat, NEW S \in SUBSET (0 .. n), S # {}
  PROVE  /\ Min(S) \in S /\ \A x \in S : Min(S) <= x
         /\ Max(S) \in S /\ \A x \in S : x <= Max(S)
         /\ First(S) \in S /\ \A x \in S : First(S) <= x
<1>1. \E x \in S : \A y \in S : x <= y
  BY LeastElement
<1>2. \E x \in S : \A y \in S : x >= y
  <2> DEFINE T == {n - x : x \in S}
  <2>1. T \in SUBSET Nat /\ T # {}
    <3>1. ASSUME NEW x \in S PROVE n - x \in Nat
      OBVIOUS
    <3>2. T \in SUBSET Nat
      BY <3>1
    <3>3. PICK x \in S : TRUE
      OBVIOUS
    <3>4. n - x \in T
      BY <3>3
    <3> QED BY <3>2, <3>4
  <2>2. PICK t \in T : \A u \in T : t <= u
    <3> HIDE DEF T
    <3> QED BY <2>1, LeastElement
  <2>3. PICK x \in S : t = n - x
    OBVIOUS
  <2>4. ASSUME NEW y \in S PROVE x >= y
    <3>1. n - y \in T
      OBVIOUS
    <3>2. n - x <= n - y
      BY <2>2, <2>3, <3>1
    <3> QED BY <3>2
  <2> QED BY <2>4
<1>3. Min(S) \in S /\ \A x \in S : Min(S) <= x
  BY <1>1, Zenon DEF Min
<1>4. Max(S) \in S /\ \A x \in S : Max(S) >= x
  BY <1>2, Zenon DEF Max
<1>5. First(S) \in S /\ \A x \in S : First(S) <= x
  BY <1>1, Zenon DEF First
<1> QED
  BY <1>3, <1>4, <1>5
-----------------------------------------------------------------------------
(* The scan of the stitcher. *)

\* Whatever stands for bytes and characters.
Alphabet(S) == {"?", "W"} \subseteq S

\* One step of the scan in push, which goes on at a later byte by f.
ScanStep(octets, f, i) ==
  IF i > Len(octets) THEN [text |-> <<>>, pending |-> <<>>]
  ELSE LET head == CharAt(octets, i)
       IN  IF head.bytes = 0
           THEN [text |-> <<>>, pending |-> SubSeq(octets, i, Len(octets))]
           ELSE LET rest == f[i + head.bytes]
                IN  [rest EXCEPT !.text = <<head.char>> \o @]

IsScan(octets, f) == f = [i \in 1 .. Len(octets) + 1 |-> ScanStep(octets, f, i)]
Scan(octets) == CHOOSE f : IsScan(octets, f)

LEMMA PushScans ==
  ASSUME NEW waiting, NEW fed
  PROVE  push(waiting, fed) = Scan(waiting \o fed)[1]
  BY DEF push, Scan, IsScan, ScanStep

\* A character has at least one byte and ends within the bytes; the bytes
\* kept back are a lead with at most one byte behind it.
LEMMA CharAtBounds ==
  ASSUME NEW S, Alphabet(S), NEW octets \in Seq(S), NEW i \in 1 .. Len(octets)
  PROVE  /\ CharAt(octets, i).char \in S
         /\ CharAt(octets, i).bytes \in 0 .. 3
         /\ i + CharAt(octets, i).bytes <= Len(octets) + 1
         /\ CharAt(octets, i).bytes = 0 => Len(octets) - i \in 0 .. 1
<1>0. Len(octets) \in Nat
  BY LenProperties
<1>1. octets[i] \in S /\ "?" \in S /\ "W" \in S
  BY ElementOfSeq DEF Alphabet
<1>7. DOMAIN octets = 1 .. Len(octets)
  BY LenProperties
<1>2. /\ Continued(octets, i) \in 0 .. 2
      /\ i + Continued(octets, i) <= Len(octets)
  BY <1>0, <1>7 DEF Continued
<1> DEFINE good == Continued(octets, i)
<1>3. CASE Letter(octets[i])
  <2>1. CharAt(octets, i) = [char |-> octets[i], bytes |-> 1]
    BY <1>3 DEF CharAt
  <2> QED BY <1>0, <1>1, <2>1
<1>4. CASE ~Letter(octets[i]) /\ octets[i] = "C"
  <2>1. CharAt(octets, i) = [char |-> "?", bytes |-> 1]
    BY <1>4 DEF CharAt
  <2> QED BY <1>0, <1>1, <2>1
<1>5. CASE ~Letter(octets[i]) /\ octets[i] # "C" /\ good = 2
  <2>1. CharAt(octets, i) = [char |-> "W", bytes |-> 3]
    BY <1>5 DEF CharAt
  <2> QED BY <1>0, <1>1, <1>2, <1>5, <2>1
<1>6. CASE ~Letter(octets[i]) /\ octets[i] # "C" /\ good # 2
  <2>1. CharAt(octets, i) = [char |-> "?", bytes |-> IF i + good = Len(octets) THEN 0 ELSE 1 + good]
    BY <1>6 DEF CharAt
  <2> HIDE DEF good
  <2>2. good \in 0 .. 1 /\ i + good <= Len(octets)
    BY <1>2, <1>6 DEF good
  <2>3. CASE i + good = Len(octets)
    <3>1. CharAt(octets, i) = [char |-> "?", bytes |-> 0]
      BY <2>1, <2>3
    <3>2. Len(octets) - i \in 0 .. 1 /\ i <= Len(octets) + 1
      BY <1>0, <2>2, <2>3
    <3> QED BY <1>0, <1>1, <3>1, <3>2
  <2>4. CASE i + good # Len(octets)
    <3>1. CharAt(octets, i) = [char |-> "?", bytes |-> 1 + good]
      BY <2>1, <2>4
    <3>2. 1 + good \in 1 .. 2 /\ i + (1 + good) <= Len(octets) + 1
      BY <1>0, <2>2, <2>4
    <3> QED BY <1>0, <1>1, <3>1, <3>2
  <2> QED BY <2>3, <2>4
<1> QED
  BY <1>3, <1>4, <1>5, <1>6

\* What precedes a character does not matter to it.
LEMMA CharAtShift ==
  ASSUME NEW S, NEW before \in Seq(S), NEW octets \in Seq(S), NEW i \in 1 .. Len(octets)
  PROVE  CharAt(before \o octets, Len(before) + i) = CharAt(octets, i)
<1> DEFINE n == Len(before)
           all == before \o octets
<1>1. /\ n \in Nat /\ Len(octets) \in Nat /\ Len(all) = n + Len(octets)
      /\ DOMAIN all = 1 .. n + Len(octets) /\ DOMAIN octets = 1 .. Len(octets)
  BY ConcatProperties, LenProperties
<1>2. \A j \in 1 .. Len(octets) : all[n + j] = octets[j]
  BY ConcatProperties, LenProperties
<1> HIDE DEF n, all
<1>3. \A j \in 1 .. 2 : /\ n + i + j \in DOMAIN all <=> i + j \in DOMAIN octets
                        /\ i + j \in DOMAIN octets => all[n + i + j] = octets[i + j]
  <2> TAKE j \in 1 .. 2
  <2>1. n + i + j \in DOMAIN all <=> i + j \in DOMAIN octets
    BY <1>1
  <2>2. ASSUME i + j \in DOMAIN octets PROVE all[n + i + j] = octets[i + j]
    <3>1. i + j \in 1 .. Len(octets) /\ n + i + j = n + (i + j)
      BY <1>1, <2>2
    <3> QED BY <1>2, <3>1
  <2> QED BY <2>1, <2>2
<1>4. Continued(all, n + i) = Continued(octets, i)
  <2>1. /\ n + i + 1 \in DOMAIN all <=> i + 1 \in DOMAIN octets
        /\ i + 1 \in DOMAIN octets => all[n + i + 1] = octets[i + 1]
        /\ n + i + 2 \in DOMAIN all <=> i + 2 \in DOMAIN octets
        /\ i + 2 \in DOMAIN octets => all[n + i + 2] = octets[i + 2]
    BY <1>3
  <2> QED BY <2>1 DEF Continued
<1>5. n + i + Continued(octets, i) = Len(all) <=> i + Continued(octets, i) = Len(octets)
  <2>1. Continued(octets, i) \in 0 .. 2
    BY DEF Continued
  <2> QED BY <1>1, <2>1
<1>6. all[n + i] = octets[i]
  BY <1>2
<1>7. CharAt(all, n + i) = CharAt(octets, i)
  BY <1>4, <1>5, <1>6, Zenon DEF CharAt
<1> QED
  BY <1>7 DEF all, n

\* More bytes do not change a character that is complete or broken.
LEMMA CharAtMore ==
  ASSUME NEW S, NEW octets \in Seq(S), NEW more \in Seq(S), NEW i \in 1 .. Len(octets),
         CharAt(octets, i).bytes # 0
  PROVE  CharAt(octets \o more, i) = CharAt(octets, i)
<1> DEFINE all == octets \o more
           good == Continued(octets, i)
<1>0. Len(octets) \in Nat /\ Len(more) \in Nat /\ Len(all) = Len(octets) + Len(more)
  BY ConcatProperties, LenProperties
<1>1. /\ Len(octets) \in Nat /\ Len(more) \in Nat
      /\ DOMAIN all = 1 .. Len(octets) + Len(more) /\ DOMAIN octets = 1 .. Len(octets)
  BY ConcatProperties, LenProperties
<1>2. \A j \in 1 .. Len(octets) : all[j] = octets[j]
  BY ConcatProperties, LenProperties
<1> SUFFICES CharAt(all, i) = CharAt(octets, i)
  BY DEF all
<1> HIDE DEF all, good
<1>3. all[i] = octets[i]
  BY <1>2
<1>4. CASE Letter(octets[i]) \/ octets[i] = "C"
  BY <1>3, <1>4 DEF CharAt, good
<1>5. CASE ~Letter(octets[i]) /\ octets[i] # "C"
  <2>1. good = 2 \/ i + good # Len(octets)
    <3>1. SUFFICES ASSUME good # 2, i + good = Len(octets) PROVE FALSE
      OBVIOUS
    <3>2. CharAt(octets, i) = [char |-> "?", bytes |-> 0]
      BY <1>5, <3>1 DEF CharAt, good
    <3> QED BY <3>2
  <2>2. good \in 0 .. 2 /\ i + good <= Len(octets)
    BY <1>1 DEF Continued, good
  <2>3. Continued(all, i) = good
    <3>1. CASE good = 2
      <4>1. i + 1 \in 1 .. Len(octets) /\ i + 2 \in 1 .. Len(octets)
        BY <1>1, <3>1 DEF Continued, good
      <4>2. all[i + 1] = "C" /\ all[i + 2] = "C"
        BY <1>1, <1>2, <3>1, <4>1 DEF Continued, good
      <4>3. i + 1 \in DOMAIN all /\ i + 2 \in DOMAIN all
        BY <1>1, <4>1
      <4> QED BY <3>1, <4>2, <4>3 DEF Continued, good
    <3>2. CASE good = 1
      <4>1. i + 1 \in 1 .. Len(octets) /\ i + 2 \in 1 .. Len(octets)
        BY <1>0, <2>1, <2>2, <3>2
      <4>2. octets[i + 1] = "C" /\ octets[i + 2] # "C"
        BY <1>1, <3>2, <4>1 DEF Continued, good
      <4>3. all[i + 1] = "C" /\ all[i + 2] # "C"
        BY <1>2, <4>1, <4>2
      <4>4. i + 1 \in DOMAIN all
        BY <1>1, <4>1
      <4> QED BY <3>2, <4>3, <4>4 DEF Continued, good
    <3>3. CASE good = 0
      <4>1. i + 1 \in 1 .. Len(octets)
        BY <1>0, <2>1, <2>2, <3>3
      <4>2. octets[i + 1] # "C"
        BY <1>1, <3>3, <4>1 DEF Continued, good
      <4>3. all[i + 1] # "C"
        BY <1>2, <4>1, <4>2
      <4> QED BY <3>3, <4>3 DEF Continued, good
    <3> QED BY <2>2, <3>1, <3>2, <3>3
  <2>4. CASE good = 2
    <3>1. CharAt(octets, i) = [char |-> "W", bytes |-> 3]
      BY <1>5, <2>4 DEF CharAt, good
    <3>2. CharAt(all, i) = [char |-> "W", bytes |-> 3]
      BY <1>3, <1>5, <2>3, <2>4 DEF CharAt
    <3> QED BY <3>1, <3>2
  <2>5. CASE good # 2
    <3>1. i + good # Len(octets) /\ i + good # Len(all)
      BY <1>0, <2>1, <2>2, <2>5
    <3>2. CharAt(octets, i) = [char |-> "?", bytes |-> 1 + good]
      BY <1>5, <2>5, <3>1 DEF CharAt, good
    <3>3. CharAt(all, i) = [char |-> "?", bytes |-> 1 + good]
      BY <1>3, <1>5, <2>3, <2>5, <3>1 DEF CharAt
    <3> QED BY <3>2, <3>3
  <2> QED BY <2>4, <2>5
<1> QED
  BY <1>4, <1>5

\* The recursion reads later places only, so it has a solution.
LEMMA ScanExists ==
  ASSUME NEW S, Alphabet(S), NEW octets \in Seq(S)
  PROVE  IsScan(octets, Scan(octets))
<1> DEFINE n == Len(octets)
           Part(k, f) == f = [i \in k .. n + 1 |-> ScanStep(octets, f, i)]
           Good == {k \in 1 .. n + 1 : \E f : Part(k, f)}
<1>1. n \in Nat
  BY LenProperties
<1>2. ASSUME NEW k \in 1 .. n + 1, \A j \in k + 1 .. n + 1 : j \in Good
      PROVE  k \in Good
  <2>1. PICK g : k < n + 1 => Part(k + 1, g)
    BY <1>1, <1>2
  <2> DEFINE f == [i \in k .. n + 1 |-> IF i = k THEN ScanStep(octets, g, k) ELSE g[i]]
  <2>2. ASSUME NEW i \in k .. n + 1
        PROVE  ScanStep(octets, f, i) = ScanStep(octets, g, i)
    <3>1. CASE i > Len(octets)
      BY <3>1 DEF ScanStep
    <3>2. CASE i <= Len(octets) /\ CharAt(octets, i).bytes = 0
      BY <1>1, <3>2 DEF ScanStep
    <3>3. CASE i <= Len(octets) /\ CharAt(octets, i).bytes # 0
      <4> DEFINE j == i + CharAt(octets, i).bytes
      <4>1. j \in k .. n + 1 /\ j # k
        BY <1>1, <3>3, CharAtBounds
      <4>2. f[j] = g[j]
        BY <4>1
      <4>3. ASSUME NEW h
            PROVE  ScanStep(octets, h, i) = [h[j] EXCEPT !.text = <<CharAt(octets, i).char>> \o @]
        BY <1>1, <3>3 DEF ScanStep
      <4> HIDE DEF f, j
      <4> QED BY <4>2, <4>3
    <3> QED BY <1>1, <3>1, <3>2, <3>3
  <2>3. ASSUME NEW i \in k .. n + 1
        PROVE  f[i] = ScanStep(octets, f, i)
    <3>1. CASE i = k
      BY <2>2, <3>1
    <3>2. CASE i # k
      <4>1. k < n + 1 /\ i \in k + 1 .. n + 1
        BY <1>1, <3>2
      <4>2. g[i] = ScanStep(octets, g, i)
        BY <2>1, <4>1
      <4> QED BY <2>2, <3>2, <4>2
    <3> QED BY <3>1, <3>2
  <2>4. Part(k, f)
    BY <2>3
  <2> QED BY <2>4
<1>3. 1 \in Good
  <2> HIDE DEF Good
  <2>1. \A i \in 1 .. n + 1 : i \in Good
    BY <1>1, <1>2, Downwards
  <2> QED BY <1>1, <2>1
<1>4. \E f : IsScan(octets, f)
  BY <1>3 DEF IsScan
<1> QED
  BY <1>4 DEF Scan

\* What the scan yields from a byte on.
LEMMA ScanUnfolds ==
  ASSUME NEW S, Alphabet(S), NEW octets \in Seq(S), NEW i \in 1 .. Len(octets) + 1
  PROVE  Scan(octets)[i] = ScanStep(octets, Scan(octets), i)
<1>1. IsScan(octets, Scan(octets))
  BY ScanExists
<1> QED
  BY <1>1 DEF IsScan

Scanned(S) == [text : Seq(S), pending : Seq(S)]

(* A character before a result, and a result after another. *)
Prepended(char, rest) == [text |-> <<char>> \o rest.text, pending |-> rest.pending]
Joined(first, second) == [text |-> first.text \o second.text, pending |-> second.pending]

LEMMA ScanEnds ==
  ASSUME NEW S, Alphabet(S), NEW octets \in Seq(S)
  PROVE  Scan(octets)[Len(octets) + 1] = [text |-> <<>>, pending |-> <<>>]
<1>1. Len(octets) \in Nat
  BY LenProperties
<1>2. Scan(octets)[Len(octets) + 1] = ScanStep(octets, Scan(octets), Len(octets) + 1)
  BY <1>1, ScanUnfolds
<1> QED
  BY <1>1, <1>2 DEF ScanStep

LEMMA ScanKeeps ==
  ASSUME NEW S, Alphabet(S), NEW octets \in Seq(S), NEW i \in 1 .. Len(octets),
         CharAt(octets, i).bytes = 0
  PROVE  Scan(octets)[i] = [text |-> <<>>, pending |-> SubSeq(octets, i, Len(octets))]
<1>1. Len(octets) \in Nat
  BY LenProperties
<1>2. Scan(octets)[i] = ScanStep(octets, Scan(octets), i)
  BY <1>1, ScanUnfolds
<1> QED
  BY <1>1, <1>2 DEF ScanStep

\* Texts and kept bytes are sequences; at most two bytes are kept.
LEMMA ScanType ==
  ASSUME NEW S, Alphabet(S), NEW octets \in Seq(S), NEW i \in 1 .. Len(octets) + 1
  PROVE  Scan(octets)[i] \in Scanned(S) /\ Len(Scan(octets)[i].pending) <= 2
<1> DEFINE n == Len(octets)
           Good == {k \in 1 .. n + 1 : /\ Scan(octets)[k] \in Scanned(S)
                                       /\ Len(Scan(octets)[k].pending) <= 2}
<1>1. n \in Nat
  BY LenProperties
<1>2. ASSUME NEW k \in 1 .. n + 1, \A j \in k + 1 .. n + 1 : j \in Good
      PROVE  k \in Good
  <2>1. CASE k = n + 1
    <3>1. Scan(octets)[k] = [text |-> <<>>, pending |-> <<>>]
      BY <2>1, ScanEnds
    <3>2. <<>> \in Seq(S) /\ Len(<<>>) = 0
      BY EmptySeq
    <3>3. [text |-> <<>>, pending |-> <<>>] \in Scanned(S)
      BY <3>2, Zenon DEF Scanned
    <3> QED BY <3>1, <3>2, <3>3
  <2>2. CASE k \in 1 .. n /\ CharAt(octets, k).bytes = 0
    <3>1. Scan(octets)[k] = [text |-> <<>>, pending |-> SubSeq(octets, k, n)]
      BY <2>2, ScanKeeps
    <3>2. n - k \in 0 .. 1
      BY <2>2, CharAtBounds
    <3>3. \A j \in k .. n : octets[j] \in S
      BY <1>1, ElementOfSeq
    <3>4. SubSeq(octets, k, n) \in Seq(S) /\ Len(SubSeq(octets, k, n)) <= 2
      BY <1>1, <3>2, <3>3, SubSeqProperties
    <3>5. <<>> \in Seq(S)
      BY EmptySeq
    <3>6. [text |-> <<>>, pending |-> SubSeq(octets, k, n)] \in Scanned(S)
      BY <3>4, <3>5, Zenon DEF Scanned
    <3> HIDE DEF n
    <3> QED BY <3>1, <3>4, <3>6
  <2>3. CASE k \in 1 .. n /\ CharAt(octets, k).bytes # 0
    <3> DEFINE head == CharAt(octets, k)
               rest == Scan(octets)[k + head.bytes]
    <3>1. k + head.bytes \in k + 1 .. n + 1 /\ head.char \in S
      BY <1>1, <2>3, CharAtBounds
    <3>2. rest \in Scanned(S) /\ Len(rest.pending) <= 2
      BY <1>2, <3>1
    <3>3. Scan(octets)[k] = [rest EXCEPT !.text = <<head.char>> \o @]
      <4>1. Scan(octets)[k] = ScanStep(octets, Scan(octets), k)
        BY ScanUnfolds
      <4> QED BY <1>1, <2>3, <4>1 DEF ScanStep
    <3> HIDE DEF head, rest
    <3>4. <<head.char>> \o rest.text \in Seq(S)
      <4>1. <<head.char>> \in Seq(S) /\ rest.text \in Seq(S)
        BY <3>1, <3>2 DEF Scanned
      <4> QED BY <4>1, ConcatProperties
    <3> QED BY <3>2, <3>3, <3>4 DEF Scanned
  <2> QED BY <1>1, <2>1, <2>2, <2>3
<1>3. i \in Good
  <2> HIDE DEF Good
  <2> QED BY <1>1, <1>2, Downwards
<1> QED
  BY <1>3

\* What the scan yields from a character on that is complete or broken.
LEMMA ScanGoesOn ==
  ASSUME NEW S, Alphabet(S), NEW octets \in Seq(S), NEW i \in 1 .. Len(octets),
         CharAt(octets, i).bytes # 0
  PROVE  LET head == CharAt(octets, i)
             rest == Scan(octets)[i + head.bytes]
         IN  Scan(octets)[i] = Prepended(head.char, rest)
<1> DEFINE head == CharAt(octets, i)
           rest == Scan(octets)[i + head.bytes]
<1>1. Len(octets) \in Nat
  BY LenProperties
<1>2. Scan(octets)[i] = ScanStep(octets, Scan(octets), i)
  BY <1>1, ScanUnfolds
<1>3. Scan(octets)[i] = [rest EXCEPT !.text = <<head.char>> \o @]
  BY <1>1, <1>2 DEF ScanStep
<1>4. rest \in Scanned(S)
  <2>1. i + head.bytes \in 1 .. Len(octets) + 1
    BY <1>1, CharAtBounds
  <2> QED BY <2>1, ScanType
<1> HIDE DEF head, rest
<1>5. Scan(octets)[i] = Prepended(head.char, rest)
  BY <1>3, <1>4 DEF Scanned, Prepended
<1> QED
  BY <1>5 DEF head, rest

\* The scan of a text does not depend on what precedes it.
LEMMA ScanShift ==
  ASSUME NEW S, Alphabet(S), NEW before \in Seq(S), NEW octets \in Seq(S),
         NEW i \in 1 .. Len(octets) + 1
  PROVE  Scan(before \o octets)[Len(before) + i] = Scan(octets)[i]
<1> DEFINE all == before \o octets
           m == Len(before)
           n == Len(octets)
           Good == {k \in 1 .. n + 1 : Scan(all)[m + k] = Scan(octets)[k]}
<1>1. n \in Nat /\ m \in Nat
  BY LenProperties
<1>2. all \in Seq(S) /\ Len(all) = m + n
  BY ConcatProperties
<1>3. ASSUME NEW k \in 1 .. n + 1, \A j \in k + 1 .. n + 1 : j \in Good
      PROVE  k \in Good
  <2>1. CASE k = n + 1
    <3>1. Scan(octets)[k] = [text |-> <<>>, pending |-> <<>>]
      BY <2>1, ScanEnds
    <3>2. Scan(all)[Len(all) + 1] = [text |-> <<>>, pending |-> <<>>]
      <4> HIDE DEF all
      <4> QED BY <1>2, ScanEnds
    <3>3. m + k = Len(all) + 1
      BY <1>1, <1>2, <2>1
    <3> QED BY <3>1, <3>2, <3>3
  <2>2. CASE k \in 1 .. n /\ CharAt(octets, k).bytes = 0
    <3>1. Scan(octets)[k] = [text |-> <<>>, pending |-> SubSeq(octets, k, n)]
      BY <2>2, ScanKeeps
    <3>2. CharAt(all, m + k).bytes = 0
      BY <2>2, CharAtShift
    <3>3. m + k \in 1 .. Len(all)
      BY <1>1, <1>2, <2>2
    <3>4. Scan(all)[m + k] = [text |-> <<>>, pending |-> SubSeq(all, m + k, Len(all))]
      <4> HIDE DEF all, m
      <4> QED BY <1>2, <3>2, <3>3, ScanKeeps
    <3>5. SubSeq(all, m + k, m + n) = SubSeq(octets, m + k - m, m + n - m)
      <4>1. m + k \in m + 1 .. m + n /\ m + n \in m + 1 .. m + n
        BY <1>1, <2>2
      <4> QED BY <4>1, SubSeqOfConcat2
    <3>6. m + k - m = k /\ m + n - m = n
      BY <1>1
    <3> QED BY <1>2, <3>1, <3>4, <3>5, <3>6
  <2>3. CASE k \in 1 .. n /\ CharAt(octets, k).bytes # 0
    <3> DEFINE head == CharAt(octets, k)
    <3>1. k + head.bytes \in k + 1 .. n + 1 /\ head.bytes \in 1 .. 3
      <4>1. head.bytes \in 0 .. 3 /\ k + head.bytes <= n + 1
        BY <2>3, CharAtBounds
      <4>2. head.bytes # 0 /\ k \in 1 .. n
        BY <2>3
      <4> HIDE DEF head, n
      <4> QED BY <1>1, <4>1, <4>2
    <3>2. CharAt(all, m + k) = head
      BY <2>3, CharAtShift
    <3>3. m + k \in 1 .. Len(all)
      BY <1>1, <1>2, <2>3
    <3>4. Scan(octets)[k] = Prepended(head.char, Scan(octets)[k + head.bytes])
      BY <2>3, ScanGoesOn
    <3>5. Scan(all)[m + k] =
            Prepended(CharAt(all, m + k).char, Scan(all)[m + k + CharAt(all, m + k).bytes])
      <4>1. CharAt(all, m + k).bytes # 0
        BY <2>3, <3>2
      <4> HIDE DEF all, m
      <4> QED BY <1>2, <3>3, <4>1, ScanGoesOn
    <3>6. Scan(all)[m + (k + head.bytes)] = Scan(octets)[k + head.bytes]
      BY <1>3, <3>1
    <3>7. m + k + head.bytes = m + (k + head.bytes)
      <4>1. m \in Int /\ k \in Int /\ head.bytes \in Int
        BY <1>1, <3>1
      <4> HIDE DEF head, m
      <4> QED BY <4>1
    <3> HIDE DEF head, all, m
    <3>8. Scan(all)[m + k] = Scan(octets)[k]
      BY <3>2, <3>4, <3>5, <3>6, <3>7, Zenon
    <3> QED BY <3>8
  <2> QED BY <1>1, <2>1, <2>2, <2>3
<1>4. i \in Good
  <2> HIDE DEF Good
  <2> QED BY <1>1, <1>3, Downwards
<1> QED
  BY <1>4

LEMMA ScanBehind ==
  ASSUME NEW S, Alphabet(S), NEW before \in Seq(S), NEW octets \in Seq(S)
  PROVE  Scan(before \o octets)[Len(before) + 1] = Scan(octets)[1]
<1>1. 1 \in 1 .. Len(octets) + 1
  BY LenProperties
<1> QED
  BY <1>1, ScanShift

\* Sequences are joined in any order.
LEMMA Associative ==
  ASSUME NEW S, NEW r \in Seq(S), NEW s \in Seq(S), NEW t \in Seq(S)
  PROVE  (r \o s) \o t = r \o (s \o t)
BY ConcatAssociative

LEMMA PrependJoins ==
  ASSUME NEW S, NEW char \in S, NEW s \in Seq(S), NEW t \in Seq(S)
  PROVE  <<char>> \o (s \o t) = (<<char>> \o s) \o t
<1>1. <<char>> \in Seq(S)
  OBVIOUS
<1> DEFINE one == <<char>>
<1> HIDE DEF one
<1>2. one \o (s \o t) = (one \o s) \o t
  BY <1>1, ConcatAssociative DEF one
<1> QED
  BY <1>2 DEF one

LEMMA JoinStep ==
  ASSUME NEW S, NEW char \in S, NEW rest \in Scanned(S), NEW second \in Scanned(S)
  PROVE  Prepended(char, Joined(rest, second)) = Joined(Prepended(char, rest), second)
<1> DEFINE s == rest.text
           t == second.text
<1>1. s \in Seq(S) /\ t \in Seq(S)
  BY DEF Scanned
<1> HIDE DEF s, t
<1>2. <<char>> \o (s \o t) = (<<char>> \o s) \o t
  BY <1>1, PrependJoins
<1>3. /\ Joined(rest, second).text = s \o t
      /\ Joined(rest, second).pending = second.pending
      /\ Prepended(char, rest).text = <<char>> \o s
  BY DEF Joined, Prepended, s, t
<1>4. Prepended(char, Joined(rest, second)) = [text |-> <<char>> \o (s \o t), pending |-> second.pending]
  BY <1>3, Zenon DEF Prepended
<1>5. Joined(Prepended(char, rest), second) = [text |-> (<<char>> \o s) \o t, pending |-> second.pending]
  BY <1>3, Zenon DEF Joined, t
<1> QED
  BY <1>2, <1>4, <1>5, Zenon

\* Scanning goes on where it stopped, with the bytes it kept.
LEMMA ScanSplits ==
  ASSUME NEW S, Alphabet(S), NEW octets \in Seq(S), NEW more \in Seq(S),
         NEW i \in 1 .. Len(octets) + 1
  PROVE  LET first  == Scan(octets)[i]
             second == Scan(first.pending \o more)[1]
         IN  Scan(octets \o more)[i] = Joined(first, second)
<1> DEFINE all == octets \o more
           n == Len(octets)
           Second(k) == Scan(Scan(octets)[k].pending \o more)[1]
           Good == {k \in 1 .. n + 1 : Scan(all)[k] = Joined(Scan(octets)[k], Second(k))}
<1>1. n \in Nat
  BY LenProperties
<1>2. all \in Seq(S) /\ Len(all) = n + Len(more) /\ Len(more) \in Nat
  BY ConcatProperties, LenProperties
<1>3. ASSUME NEW k \in 1 .. n + 1
      PROVE  Second(k) \in Scanned(S)
  <2>1. Scan(octets)[k].pending \in Seq(S)
    BY ScanType DEF Scanned
  <2>2. Scan(octets)[k].pending \o more \in Seq(S)
    BY <2>1, ConcatProperties
  <2>3. 1 \in 1 .. Len(Scan(octets)[k].pending \o more) + 1
    BY <2>2, LenProperties
  <2> QED BY <2>2, <2>3, ScanType
<1>4. ASSUME NEW k \in 1 .. n + 1, \A j \in k + 1 .. n + 1 : j \in Good
      PROVE  k \in Good
  <2>1. CASE k = n + 1
    <3>1. Scan(octets)[k] = [text |-> <<>>, pending |-> <<>>]
      BY <2>1, ScanEnds
    <3>2. <<>> \o more = more
      BY ConcatEmptySeq
    <3>3. Second(k) = Scan(more)[1]
      BY <3>1, <3>2
    <3>4. Scan(all)[n + 1] = Scan(more)[1]
      BY <1>2, ScanShift
    <3>5. <<>> \o Second(k).text = Second(k).text
      BY <1>3, ConcatEmptySeq DEF Scanned
    <3>6. Second(k) = [text |-> Second(k).text, pending |-> Second(k).pending]
      <4> HIDE DEF Second
      <4> QED BY <1>3 DEF Scanned
    <3> HIDE DEF Second, all
    <3>7. Scan(all)[k] = Joined(Scan(octets)[k], Second(k))
      BY <2>1, <3>1, <3>3, <3>4, <3>5, <3>6 DEF Joined
    <3> QED BY <3>7
  <2>2. CASE k \in 1 .. n /\ CharAt(octets, k).bytes = 0
    <3> DEFINE kept == SubSeq(octets, k, n)
               before == SubSeq(octets, 1, k - 1)
    <3>1. Scan(octets)[k] = [text |-> <<>>, pending |-> kept]
      BY <2>2, ScanKeeps
    <3>2. /\ kept \in Seq(S) /\ before \in Seq(S) /\ Len(before) = k - 1
      <4>1. \A j \in 1 .. n : octets[j] \in S
        BY ElementOfSeq
      <4>2. (\A j \in k .. n : octets[j] \in S) /\ (\A j \in 1 .. k - 1 : octets[j] \in S)
        BY <1>1, <4>1
      <4> QED BY <1>1, <4>2, SubSeqProperties
    <3>3. before \o kept = octets
      <4>1. 1 \in 1 .. n + 1 /\ k - 1 \in 1 - 1 .. n /\ n \in k - 1 .. n /\ k - 1 + 1 = k
        BY <1>1, <2>2
      <4>2. SubSeq(octets, 1, k - 1) \o SubSeq(octets, k - 1 + 1, n) = SubSeq(octets, 1, n)
        BY <4>1, ConcatAdjacentSubSeq
      <4> QED BY <4>1, <4>2, SubSeqFull
    <3> HIDE DEF kept, before
    <3>4. all = before \o (kept \o more) /\ kept \o more \in Seq(S)
      <4>1. (before \o kept) \o more = before \o (kept \o more)
        <5>1. before \in Seq(S) /\ kept \in Seq(S) /\ more \in Seq(S)
          BY <3>2
        <5> HIDE DEF n
        <5> QED BY <5>1, Associative
      <4>2. kept \o more \in Seq(S)
        BY <3>2, ConcatProperties
      <4> QED BY <3>3, <4>1, <4>2, Zenon DEF all
    <3>5. Scan(before \o (kept \o more))[Len(before) + 1] = Scan(kept \o more)[1]
      <4> DEFINE rest == kept \o more
      <4>1. rest \in Seq(S)
        BY <3>4
      <4> HIDE DEF rest
      <4>2. Scan(before \o rest)[Len(before) + 1] = Scan(rest)[1]
        BY <3>2, <4>1, ScanBehind
      <4> QED BY <4>2 DEF rest
    <3>6. Len(before) + 1 = k
      BY <1>1, <3>2
    <3>7. Second(k) = Scan(kept \o more)[1]
      BY <3>1
    <3>8. Scan(all)[k] = Second(k)
      BY <3>4, <3>5, <3>6, <3>7, Zenon
    <3>9. <<>> \o Second(k).text = Second(k).text
      BY <1>3, ConcatEmptySeq DEF Scanned
    <3>10. Second(k) = [text |-> Second(k).text, pending |-> Second(k).pending]
      <4> HIDE DEF Second
      <4> QED BY <1>3 DEF Scanned
    <3> HIDE DEF Second, all
    <3>11. Scan(all)[k] = Joined(Scan(octets)[k], Second(k))
      BY <3>1, <3>8, <3>9, <3>10 DEF Joined
    <3> QED BY <3>11
  <2>3. CASE k \in 1 .. n /\ CharAt(octets, k).bytes # 0
    <3> DEFINE head == CharAt(octets, k)
               next == k + head.bytes
    <3>1. next \in k + 1 .. n + 1 /\ head.bytes \in 1 .. 3 /\ head.char \in S
      BY <1>1, <2>3, CharAtBounds
    <3>2. CharAt(all, k) = head
      BY <2>3, CharAtMore
    <3>3. k \in 1 .. Len(all)
      BY <1>1, <1>2, <2>3
    <3>4. Scan(octets)[k] = Prepended(head.char, Scan(octets)[next])
      BY <2>3, ScanGoesOn
    <3>5. Scan(all)[k] = Prepended(head.char, Scan(all)[next])
      <4>1. CharAt(all, k).bytes # 0
        BY <2>3, <3>2
      <4>2. Scan(all)[k] = Prepended(CharAt(all, k).char, Scan(all)[k + CharAt(all, k).bytes])
        <5> HIDE DEF all
        <5> QED BY <1>2, <3>3, <4>1, ScanGoesOn
      <4> HIDE DEF all
      <4> QED BY <3>2, <4>2
    <3>6. Scan(all)[next] = Joined(Scan(octets)[next], Second(next))
      BY <1>4, <3>1
    <3>7. Scan(octets)[next] \in Scanned(S) /\ Second(next) \in Scanned(S)
      <4>1. next \in 1 .. n + 1
        BY <1>1, <3>1
      <4> HIDE DEF Second, next
      <4> QED BY <1>3, <4>1, ScanType
    <3>8. Second(k) = Second(next)
      BY <3>4 DEF Prepended
    <3>9. Scan(all)[k] = Joined(Scan(octets)[k], Second(k))
      <4> DEFINE char == head.char
                 rest == Scan(octets)[next]
                 second == Second(next)
      <4>1. char \in S /\ rest \in Scanned(S) /\ second \in Scanned(S)
        BY <3>1, <3>7
      <4>2. Scan(octets)[k] = Prepended(char, rest)
        BY <3>4
      <4>3. Scan(all)[k] = Prepended(char, Joined(rest, second))
        BY <3>5, <3>6
      <4> HIDE DEF char, rest, second, Second, all
      <4>4. Prepended(char, Joined(rest, second)) = Joined(Prepended(char, rest), second)
        BY <4>1, JoinStep
      <4>5. Second(k) = second
        BY <3>8 DEF second
      <4> QED BY <4>2, <4>3, <4>4, <4>5, Zenon
    <3> QED BY <3>9
  <2> QED BY <1>1, <2>1, <2>2, <2>3
<1>5. i \in Good
  <2> HIDE DEF Good
  <2> QED BY <1>1, <1>4, Downwards
<1> QED
  BY <1>5

LEMMA PushType ==
  ASSUME NEW S, Alphabet(S), NEW waiting \in Seq(S), NEW fed \in Seq(S)
  PROVE  /\ push(waiting, fed) \in Scanned(S)
         /\ Len(push(waiting, fed).pending) \in 0 .. 2
<1> DEFINE octets == waiting \o fed
<1>1. octets \in Seq(S)
  BY ConcatProperties
<1> HIDE DEF octets
<1>2. 1 \in 1 .. Len(octets) + 1
  BY <1>1, LenProperties
<1>3. Scan(octets)[1] \in Scanned(S) /\ Len(Scan(octets)[1].pending) <= 2
  BY <1>1, <1>2, ScanType
<1>4. push(waiting, fed) = Scan(octets)[1]
  BY PushScans DEF octets
<1>5. Len(Scan(octets)[1].pending) \in Nat
  <2>1. Scan(octets)[1].pending \in Seq(S)
    BY <1>3 DEF Scanned
  <2> QED BY <2>1, LenProperties
<1> DEFINE kept == Len(Scan(octets)[1].pending)
<1>6. kept \in 0 .. 2
  <2>1. kept \in Nat /\ kept <= 2
    BY <1>3, <1>5
  <2> HIDE DEF kept
  <2> QED BY <2>1
<1> QED
  BY <1>3, <1>4, <1>6, Zenon

LEMMA PushNothing == push(<<>>, <<>>) = [text |-> <<>>, pending |-> <<>>]
<1> DEFINE S == {"?", "W"}
<1>1. <<>> \in Seq(S) /\ <<>> \o <<>> = <<>> /\ Len(<<>>) = 0
  BY EmptySeq, ConcatEmptySeq
<1>2. Scan(<<>>)[Len(<<>>) + 1] = [text |-> <<>>, pending |-> <<>>]
  BY <1>1, ScanEnds DEF Alphabet
<1>3. Len(<<>>) + 1 = 1
  BY <1>1
<1>4. push(<<>>, <<>>) = Scan(<<>> \o <<>>)[1]
  BY PushScans
<1> QED
  BY <1>1, <1>2, <1>3, <1>4, Zenon

(***************************************************************************)
(* The stitcher: bytes that come in two parts, split anywhere, also within *)
(* a character, give the text and the kept bytes that they give at once.   *)
(***************************************************************************)
THEOREM SplitDoesNotMatter ==
  ASSUME NEW S, Alphabet(S), NEW octets \in Seq(S), NEW more \in Seq(S)
  PROVE  LET first  == push(<<>>, octets)
             second == push(first.pending, more)
         IN  push(<<>>, octets \o more) = Joined(first, second)
<1>1. octets \o more \in Seq(S)
  BY ConcatProperties
<1>2. /\ push(<<>>, octets) = Scan(octets)[1]
      /\ push(<<>>, octets \o more) = Scan(octets \o more)[1]
  <2>1. <<>> \o octets = octets /\ <<>> \o (octets \o more) = octets \o more
    BY <1>1, ConcatEmptySeq
  <2> QED BY <2>1, PushScans
<1>3. push(Scan(octets)[1].pending, more) = Scan(Scan(octets)[1].pending \o more)[1]
  BY PushScans
<1>4. 1 \in 1 .. Len(octets) + 1
  BY LenProperties
<1>5. Scan(octets \o more)[1] = Joined(Scan(octets)[1], Scan(Scan(octets)[1].pending \o more)[1])
  BY <1>4, ScanSplits
<1> QED
  BY <1>2, <1>3, <1>5

-----------------------------------------------------------------------------
(* Stop sequences. *)

Wide(text) == {i \in DOMAIN text : text[i] \in {"W", "?"}}

LEMMA WideFinite ==
  ASSUME NEW S, NEW text \in Seq(S)
  PROVE  IsFiniteSet(Wide(text)) /\ Cardinality(Wide(text)) \in Nat
<1>1. DOMAIN text = 1 .. Len(text) /\ Len(text) \in Nat
  BY LenProperties
<1>2. IsFiniteSet(1 .. Len(text))
  BY <1>1, FS_Interval
<1>3. Wide(text) \in SUBSET (1 .. Len(text))
  BY <1>1 DEF Wide
<1> QED
  BY <1>2, <1>3, FS_Subset, FS_CardinalityType

LEMMA ByteLenConcat ==
  ASSUME NEW S, NEW s \in Seq(S), NEW t \in Seq(S)
  PROVE  ByteLen(s \o t) = ByteLen(s) + ByteLen(t)
<1> DEFINE n == Len(s)
           shifted == {n + i : i \in Wide(t)}
<1>1. /\ n \in Nat /\ Len(t) \in Nat
      /\ DOMAIN s = 1 .. n /\ DOMAIN t = 1 .. Len(t)
  BY LenProperties
<1>2. /\ s \o t \in Seq(S) /\ Len(s \o t) = n + Len(t)
      /\ DOMAIN (s \o t) = 1 .. n + Len(t)
      /\ \A i \in 1 .. n + Len(t) : (s \o t)[i] = IF i <= n THEN s[i] ELSE t[i - n]
  BY ConcatProperties, LenProperties
<1>3. IsFiniteSet(Wide(s)) /\ IsFiniteSet(Wide(t))
      /\ Cardinality(Wide(s)) \in Nat /\ Cardinality(Wide(t)) \in Nat
  BY WideFinite
<1>4. Wide(s) \subseteq 1 .. n /\ Wide(t) \subseteq 1 .. Len(t)
  BY <1>1 DEF Wide
<1>5. Wide(s \o t) = Wide(s) \cup shifted
  <2>1. ASSUME NEW i \in Wide(s \o t) PROVE i \in Wide(s) \cup shifted
    <3>1. i \in 1 .. n + Len(t) /\ (s \o t)[i] \in {"W", "?"}
      BY <1>2, <2>1 DEF Wide
    <3>2. CASE i <= n
      BY <1>1, <1>2, <3>1, <3>2 DEF Wide
    <3>3. CASE i > n
      <4>1. i - n \in 1 .. Len(t) /\ n + (i - n) = i
        BY <1>1, <3>1, <3>3
      <4>2. t[i - n] \in {"W", "?"}
        BY <1>1, <1>2, <3>1, <3>3
      <4>3. i - n \in Wide(t)
        BY <1>1, <4>1, <4>2 DEF Wide
      <4> QED BY <4>1, <4>3
    <3> QED BY <1>1, <3>1, <3>2, <3>3
  <2>2. ASSUME NEW i \in Wide(s) PROVE i \in Wide(s \o t)
    <3>1. i \in 1 .. n /\ s[i] \in {"W", "?"} /\ i \in 1 .. n + Len(t)
      BY <1>1, <1>4 DEF Wide
    <3>2. (s \o t)[i] = s[i]
      BY <1>2, <3>1
    <3> QED BY <1>2, <3>1, <3>2 DEF Wide
  <2>3. ASSUME NEW i \in Wide(t) PROVE n + i \in Wide(s \o t)
    <3>1. i \in 1 .. Len(t) /\ t[i] \in {"W", "?"}
      BY <1>1 DEF Wide
    <3>2. n + i \in 1 .. n + Len(t) /\ ~(n + i <= n) /\ (n + i) - n = i
      BY <1>1, <3>1
    <3>3. (s \o t)[n + i] = t[i]
      BY <1>2, <3>2
    <3> QED BY <1>2, <3>1, <3>2, <3>3 DEF Wide
  <2> QED BY <2>1, <2>2, <2>3
<1>6. Wide(s) \cap shifted = {}
  BY <1>1, <1>4
<1>7. IsFiniteSet(shifted) /\ Cardinality(shifted) = Cardinality(Wide(t))
  <2> DEFINE f == [i \in Wide(t) |-> n + i]
  <2>1. f \in [Wide(t) -> shifted]
    OBVIOUS
  <2>2. \A i, j \in Wide(t) : f[i] = f[j] => i = j
    BY <1>1, <1>4
  <2>3. \A x \in shifted : \E i \in Wide(t) : f[i] = x
    OBVIOUS
  <2>4. f \in Bijection(Wide(t), shifted)
    <3> HIDE DEF f, shifted
    <3> QED BY <2>1, <2>2, <2>3 DEF Bijection, Injection, Surjection, IsInjective
  <2>5. ExistsBijection(Wide(t), shifted)
    BY <2>4 DEF ExistsBijection
  <2> HIDE DEF shifted
  <2> QED BY <1>3, <2>5, FS_Bijection
<1>8. Cardinality(Wide(s \o t)) = Cardinality(Wide(s)) + Cardinality(Wide(t))
  <2> HIDE DEF shifted
  <2>1. Cardinality(Wide(s) \cup shifted)
          = Cardinality(Wide(s)) + Cardinality(shifted) - Cardinality(Wide(s) \cap shifted)
    BY <1>3, <1>7, FS_Union
  <2>2. Cardinality(Wide(s) \cap shifted) = 0
    BY <1>6, FS_EmptySet
  <2> QED BY <1>3, <1>5, <1>7, <2>1, <2>2
<1>9. /\ ByteLen(s \o t) = n + Len(t) + 2 * Cardinality(Wide(s \o t))
      /\ ByteLen(s) = n + 2 * Cardinality(Wide(s))
      /\ ByteLen(t) = Len(t) + 2 * Cardinality(Wide(t))
  BY <1>2 DEF ByteLen, Wide
<1> QED
  BY <1>1, <1>3, <1>8, <1>9

LEMMA ByteLenType ==
  ASSUME NEW S, NEW text \in Seq(S)
  PROVE  ByteLen(text) \in Nat /\ ByteLen(text) >= Len(text)
<1>1. Cardinality(Wide(text)) \in Nat /\ Len(text) \in Nat
  BY WideFinite, LenProperties
<1>2. ByteLen(text) = Len(text) + 2 * Cardinality(Wide(text))
  BY DEF ByteLen, Wide
<1> QED
  BY <1>1, <1>2

\* A text and its prefixes: what is cut off has the rest of the bytes.
LEMMA PrefixProperties ==
  ASSUME NEW S, NEW text \in Seq(S), NEW k \in 0 .. Len(text), NEW m \in k .. Len(text)
  PROVE  /\ SubSeq(text, 1, k) \in Seq(S) /\ Len(SubSeq(text, 1, k)) = k
         /\ SubSeq(text, k + 1, m) \in Seq(S) /\ Len(SubSeq(text, k + 1, m)) = m - k
         /\ SubSeq(text, 1, k) \o SubSeq(text, k + 1, m) = SubSeq(text, 1, m)
<1>1. Len(text) \in Nat
  BY LenProperties
<1>2. \A i \in 1 .. Len(text) : text[i] \in S
  BY ElementOfSeq
<1>3. (\A i \in 1 .. k : text[i] \in S) /\ (\A i \in k + 1 .. m : text[i] \in S)
  BY <1>1, <1>2
<1>4. k \in Int /\ m \in Int /\ k + 1 \in Int
  BY <1>1
<1>5. SubSeq(text, 1, k) \in Seq(S) /\ Len(SubSeq(text, 1, k)) = k
  <2>1. SubSeq(text, 1, k) \in Seq(S) /\ Len(SubSeq(text, 1, k)) = IF 1 <= k THEN k - 1 + 1 ELSE 0
    BY <1>3, <1>4, SubSeqProperties
  <2> QED BY <1>1, <2>1
<1>6. SubSeq(text, k + 1, m) \in Seq(S) /\ Len(SubSeq(text, k + 1, m)) = m - k
  <2>1. /\ SubSeq(text, k + 1, m) \in Seq(S)
        /\ Len(SubSeq(text, k + 1, m)) = IF k + 1 <= m THEN m - (k + 1) + 1 ELSE 0
    BY <1>3, <1>4, SubSeqProperties
  <2> QED BY <1>1, <2>1
<1>7. SubSeq(text, 1, k) \o SubSeq(text, k + 1, m) = SubSeq(text, 1, m)
  <2>1. 1 \in 1 .. Len(text) + 1 /\ k \in 1 - 1 .. Len(text)
    BY <1>1
  <2> QED BY <2>1, ConcatAdjacentSubSeq
<1> QED
  BY <1>5, <1>6, <1>7

LEMMA ByteLenOfPrefix ==
  ASSUME NEW S, NEW text \in Seq(S), NEW k \in 0 .. Len(text), NEW m \in k .. Len(text)
  PROVE  ByteLen(SubSeq(text, 1, m))
           = ByteLen(SubSeq(text, 1, k)) + ByteLen(SubSeq(text, k + 1, m))
<1> DEFINE before == SubSeq(text, 1, k)
           after == SubSeq(text, k + 1, m)
<1>1. before \in Seq(S) /\ after \in Seq(S) /\ before \o after = SubSeq(text, 1, m)
  BY PrefixProperties
<1> HIDE DEF before, after
<1>2. ByteLen(before \o after) = ByteLen(before) + ByteLen(after)
  BY <1>1, ByteLenConcat
<1> QED
  BY <1>1, <1>2 DEF before, after

\* The window begins at the last boundary that leaves max_bytes bytes.
LEMMA WindowStart ==
  ASSUME NEW S, NEW text \in Seq(S), NEW max_bytes \in Nat
  PROVE  LET from == trailing_char_boundary_start(text, max_bytes)
         IN  /\ from \in 0 .. Len(text)
             /\ from = 0 \/ ByteLen(SubSeq(text, 1, from)) <= ByteLen(text) - max_bytes
<1> DEFINE Fits(k) == k = 0 \/ ByteLen(SubSeq(text, 1, k)) <= ByteLen(text) - max_bytes
           Candidates == {k \in 0 .. Len(text) : Fits(k)}
           from == trailing_char_boundary_start(text, max_bytes)
<1>1. Len(text) \in Nat
  BY LenProperties
<1>2. 0 \in Candidates /\ Candidates \subseteq 0 .. Len(text)
  BY <1>1
<1>3. Max(Candidates) \in Candidates /\ \A k \in Candidates : k <= Max(Candidates)
  <2> HIDE DEF Candidates
  <2> QED BY <1>1, <1>2, LeastOfBounded
<1>4. \E k \in 0 .. Len(text) : Fits(k) /\ \A j \in k + 1 .. Len(text) : ~Fits(j)
  <2> DEFINE k == Max(Candidates)
  <2>1. k \in 0 .. Len(text) /\ Fits(k)
    BY <1>3
  <2>2. ASSUME NEW j \in k + 1 .. Len(text), Fits(j) PROVE FALSE
    <3>1. j \in 0 .. Len(text) /\ ~(j <= k)
      <4> HIDE DEF k, Fits
      <4> QED BY <1>1, <2>1
    <3>2. j \in Candidates
      BY <2>2, <3>1
    <3> QED BY <1>3, <3>1, <3>2
  <2> HIDE DEF k, Fits
  <2> QED BY <2>1, <2>2
<1>5. from \in 0 .. Len(text) /\ Fits(from)
  <2>1. from = CHOOSE k \in 0 .. Len(text) : Fits(k) /\ \A j \in k + 1 .. Len(text) : ~Fits(j)
    BY DEF trailing_char_boundary_start
  <2> HIDE DEF from, Fits
  <2> QED BY <1>4, <2>1
<1> QED
  BY <1>5

\* MaxStopLen is a bound.
LEMMA MaxStopLenBounds ==
  ASSUME NEW S, NEW stops \in Seq(Seq(S))
  PROVE  /\ MaxStopLen(stops) \in Nat
         /\ \A i \in DOMAIN stops : ByteLen(stops[i]) <= MaxStopLen(stops)
<1> DEFINE n == Len(stops)
           L(i) == ByteLen(stops[i])
           Lens == {0} \cup {L(i) : i \in DOMAIN stops}
           Good == {i \in 1 .. n : \E b \in Nat : \A j \in 1 .. i : L(j) <= b}
<1>1. n \in Nat /\ DOMAIN stops = 1 .. n
  BY LenProperties
<1>2. \A i \in 1 .. n : L(i) \in Nat
  BY ByteLenType, ElementOfSeq
<1>3. ASSUME NEW i \in 1 .. n, \A j \in 1 .. i - 1 : j \in Good
      PROVE  i \in Good
  <2> HIDE DEF L
  <2>1. PICK b \in Nat : \A j \in 1 .. i - 1 : L(j) <= b
    <3>1. CASE i = 1
      <4>1. \A j \in 1 .. i - 1 : L(j) <= 0
        BY <3>1
      <4> QED BY <4>1
    <3>2. CASE i # 1
      <4>1. i - 1 \in 1 .. i - 1 /\ i - 1 \in 1 .. n
        BY <1>1, <3>2
      <4> QED BY <1>3, <4>1
    <3> QED BY <3>1, <3>2
  <2>2. \A j \in 1 .. i : L(j) <= b + L(i)
    <3> TAKE j \in 1 .. i
    <3>1. L(i) \in Nat /\ L(j) \in Nat
      BY <1>1, <1>2
    <3>2. CASE j = i
      BY <3>1, <3>2
    <3>3. CASE j # i
      <4>1. j \in 1 .. i - 1
        BY <3>3
      <4> QED BY <2>1, <3>1, <4>1
    <3> QED BY <3>2, <3>3
  <2>3. b + L(i) \in Nat
    BY <1>2
  <2> QED BY <2>2, <2>3
<1>4. PICK b \in Nat : \A j \in 1 .. n : L(j) <= b
  <2>1. CASE n = 0
    BY <2>1
  <2>2. CASE n # 0
    <3>1. n \in Good
      <4>1. n \in 1 .. n
        BY <1>1, <2>2
      <4> HIDE DEF Good
      <4> QED BY <1>1, <1>3, <4>1, Upwards
    <3> HIDE DEF L
    <3> QED BY <3>1
  <2> QED BY <2>1, <2>2
<1>5. Lens \in SUBSET (0 .. b) /\ Lens # {}
  <2> HIDE DEF L
  <2> QED BY <1>1, <1>2, <1>4
<1>6. Max(Lens) \in Lens /\ \A x \in Lens : x <= Max(Lens)
  <2> HIDE DEF Lens
  <2> QED BY <1>5, LeastOfBounded
<1>7. Max(Lens) \in Nat
  BY <1>5, <1>6
<1>8. MaxStopLen(stops) = Max(Lens)
  BY DEF MaxStopLen
<1> HIDE DEF L
<1>9. \A i \in DOMAIN stops : L(i) <= Max(Lens)
  BY <1>6
<1> QED
  BY <1>7, <1>8, <1>9 DEF L

\* A stop sequence that ends behind the first n characters begins in the window.
LEMMA OccurrenceInWindow ==
  ASSUME NEW S, NEW shown \in Seq(S), NEW text \in Seq(S), NEW stop \in Seq(S),
         NEW max \in Nat, ByteLen(stop) <= max,
         NEW k \in 0 .. Len(shown \o text), OccursAt(shown \o text, stop, k),
         Len(shown) < k + Len(stop)
  PROVE  trailing_char_boundary_start(shown \o text, max + ByteLen(text)) <= k
<1> DEFINE whole == shown \o text
           from == trailing_char_boundary_start(whole, max + ByteLen(text))
           B(m) == ByteLen(SubSeq(whole, 1, m))
           n == Len(shown)
           e == k + Len(stop)
<1>1. /\ whole \in Seq(S) /\ Len(whole) = n + Len(text)
      /\ n \in Nat /\ Len(text) \in Nat /\ Len(stop) \in Nat
  BY ConcatProperties, LenProperties
<1>2. ByteLen(whole) = ByteLen(shown) + ByteLen(text)
  BY ByteLenConcat
<1>3. ByteLen(shown) \in Nat /\ ByteLen(text) \in Nat /\ ByteLen(stop) \in Nat
  BY ByteLenType
<1>4. SUFFICES ASSUME from > k PROVE FALSE
  <2>1. from \in 0 .. Len(whole)
    <3> HIDE DEF whole
    <3>1. max + ByteLen(text) \in Nat
      BY <1>3
    <3> QED BY <1>1, <3>1, WindowStart
  <2> HIDE DEF from
  <2>2. from <= k
    BY <1>1, <1>4, <2>1
  <2> QED BY <2>2 DEF from
<1>5. /\ from \in 0 .. Len(whole)
      /\ from = 0 \/ B(from) <= ByteLen(whole) - (max + ByteLen(text))
  <2>1. max + ByteLen(text) \in Nat
    BY <1>3
  <2> HIDE DEF whole
  <2> QED BY <1>1, <2>1, WindowStart
<1>6. e \in k .. Len(whole) /\ n < e /\ SubSeq(whole, k + 1, e) = stop
  BY <1>1 DEF OccursAt
<1>7. SubSeq(whole, 1, n) = shown
  <2>1. n = 0 \/ n \in 1 .. n
    BY <1>1
  <2>2. CASE n = 0
    <3>1. shown = <<>>
      BY <2>2, EmptySeq
    <3>2. SubSeq(whole, 1, 0) = <<>>
      BY SubSeqEmpty
    <3> QED BY <2>2, <3>1, <3>2
  <2>3. CASE n \in 1 .. n
    <3>1. 1 \in 1 .. n /\ n \in 1 .. n
      BY <1>1, <2>3
    <3>2. SubSeq(shown \o text, 1, n) = SubSeq(shown, 1, n)
      BY <3>1, SubSeqOfConcat1
    <3> QED BY <3>2, SubSeqFull
  <2> QED BY <2>1, <2>2, <2>3
<1> HIDE DEF whole, from
<1>8. \A m \in 0 .. Len(whole) : B(m) \in Nat
  <2> TAKE m \in 0 .. Len(whole)
  <2>1. SubSeq(whole, 1, m) \in Seq(S)
    <3>1. m \in m .. Len(whole)
      BY <1>1
    <3> QED BY <1>1, <3>1, PrefixProperties
  <2> QED BY <2>1, ByteLenType
<1>9. B(e) = B(k) + ByteLen(stop)
  <2> HIDE DEF e
  <2>1. k \in 0 .. Len(whole)
    BY DEF whole
  <2>2. B(e) = B(k) + ByteLen(SubSeq(whole, k + 1, e))
    BY <1>1, <1>6, <2>1, ByteLenOfPrefix
  <2> QED BY <1>6, <2>2
<1>10. B(e) > ByteLen(shown)
  <2>1. n \in 0 .. Len(whole) /\ e \in n .. Len(whole)
    BY <1>1, <1>6
  <2>2. B(e) = ByteLen(shown) + ByteLen(SubSeq(whole, n + 1, e))
    BY <1>1, <1>7, <2>1, ByteLenOfPrefix
  <2>3. SubSeq(whole, n + 1, e) \in Seq(S) /\ Len(SubSeq(whole, n + 1, e)) = e - n
    BY <1>1, <2>1, PrefixProperties
  <2>4. ByteLen(SubSeq(whole, n + 1, e)) \in Nat /\ ByteLen(SubSeq(whole, n + 1, e)) >= e - n
    BY <2>3, ByteLenType
  <2>5. e - n > 0
    BY <1>1, <1>6
  <2>6. ByteLen(shown) \in Nat /\ e - n \in Int
    BY <1>1, <1>3, <1>6, ByteLenType
  <2> HIDE DEF e, n, B
  <2> QED BY <2>2, <2>4, <2>5, <2>6
<1>11. B(k) <= B(from)
  <2>1. k \in 0 .. Len(whole) /\ from \in k .. Len(whole)
    BY <1>1, <1>4, <1>5 DEF whole
  <2>2. B(from) = B(k) + ByteLen(SubSeq(whole, k + 1, from))
    BY <1>1, <2>1, ByteLenOfPrefix
  <2>3. ByteLen(SubSeq(whole, k + 1, from)) \in Nat
    BY <1>1, <2>1, PrefixProperties, ByteLenType
  <2> HIDE DEF B
  <2> QED BY <1>8, <2>1, <2>2, <2>3
<1>12. B(from) <= ByteLen(shown) - max
  <2> HIDE DEF B
  <2>1. from # 0
    BY <1>4, <1>1
  <2> QED BY <1>2, <1>3, <1>5, <2>1
<1>13. B(k) \in Nat /\ B(from) \in Nat /\ B(e) \in Nat
  <2>1. k \in 0 .. Len(whole) /\ from \in 0 .. Len(whole) /\ e \in 0 .. Len(whole)
    BY <1>1, <1>5, <1>6 DEF whole
  <2> QED BY <1>8, <2>1
<1> HIDE DEF B
<1> QED
  BY <1>3, <1>9, <1>10, <1>11, <1>12, <1>13

\* Text that follows does not remove an occurrence, and adds those that end in it.
LEMMA OccurrencesGrow ==
  ASSUME NEW S, NEW shown \in Seq(S), NEW text \in Seq(S), NEW stop \in Seq(S), NEW k \in Nat,
         k + Len(stop) <= Len(shown)
  PROVE  OccursAt(shown \o text, stop, k) <=> OccursAt(shown, stop, k)
<1> DEFINE whole == shown \o text
           e == k + Len(stop)
<1>1. /\ Len(shown) \in Nat /\ Len(text) \in Nat /\ Len(stop) \in Nat
      /\ Len(whole) = Len(shown) + Len(text)
  BY ConcatProperties, LenProperties
<1>2. SubSeq(whole, k + 1, e) = SubSeq(shown, k + 1, e)
  <2>1. CASE Len(stop) = 0
    <3>1. SubSeq(whole, k + 1, e) = <<>> /\ SubSeq(shown, k + 1, e) = <<>>
      BY <1>1, <2>1, SubSeqEmpty
    <3> QED BY <3>1
  <2>2. CASE Len(stop) # 0
    <3>1. k + 1 \in 1 .. Len(shown) /\ e \in 1 .. Len(shown)
      BY <1>1, <2>2
    <3> HIDE DEF e
    <3> QED BY <3>1, SubSeqOfConcat1
  <2> QED BY <2>1, <2>2
<1>3. e <= Len(whole)
  BY <1>1
<1> QED
  BY <1>2, <1>3 DEF OccursAt

NoStops(text, stops) == \A i \in DOMAIN stops : Occurrences(text, stops[i], 0) = {}

(***************************************************************************)
(* The window that is searched after a token is large enough: if the text  *)
(* before it held no stop sequence, it holds all occurrences there are.    *)
(***************************************************************************)
THEOREM WindowMissesNoStop ==
  ASSUME NEW S, NEW shown \in Seq(S), NEW text \in Seq(S), NEW stops \in Seq(Seq(S)),
         NoStops(shown, stops), NEW i \in DOMAIN stops
  PROVE  LET whole == shown \o text
             from  == trailing_char_boundary_start(whole, MaxStopLen(stops) + ByteLen(text))
         IN  Occurrences(whole, stops[i], from) = Occurrences(whole, stops[i], 0)
<1> DEFINE whole == shown \o text
           max == MaxStopLen(stops)
           from == trailing_char_boundary_start(whole, max + ByteLen(text))
           stop == stops[i]
<1>1. stop \in Seq(S)
  BY LenProperties, ElementOfSeq
<1>2. /\ whole \in Seq(S) /\ Len(whole) = Len(shown) + Len(text)
      /\ Len(shown) \in Nat /\ Len(text) \in Nat /\ Len(stop) \in Nat
  BY <1>1, ConcatProperties, LenProperties
<1>3. max \in Nat /\ ByteLen(stop) <= max
  BY MaxStopLenBounds
<1>4. from \in 0 .. Len(whole)
  <2>1. max + ByteLen(text) \in Nat
    BY <1>3, ByteLenType
  <2> HIDE DEF whole, max
  <2> QED BY <1>2, <2>1, WindowStart
<1>5. ASSUME NEW k \in Occurrences(whole, stop, 0)
      PROVE  from <= k
  <2>1. k \in 0 .. Len(whole) /\ OccursAt(whole, stop, k)
    BY DEF Occurrences
  <2>2. Len(shown) < k + Len(stop)
    <3>1. SUFFICES ASSUME k + Len(stop) <= Len(shown) PROVE FALSE
      BY <1>2, <2>1
    <3>2. OccursAt(shown, stop, k)
      <4>1. k \in Nat
        BY <1>2, <2>1
      <4> HIDE DEF stop
      <4> QED BY <1>1, <2>1, <3>1, <4>1, OccurrencesGrow
    <3>3. k \in 0 .. Len(shown)
      BY <1>2, <2>1, <3>1
    <3>4. k \in Occurrences(shown, stop, 0)
      BY <3>2, <3>3 DEF Occurrences
    <3> QED BY <3>4 DEF NoStops
  <2> HIDE DEF stop, max
  <2> QED BY <1>1, <1>3, <2>1, <2>2, OccurrenceInWindow
<1>6. Occurrences(whole, stop, from) = Occurrences(whole, stop, 0)
  <2> HIDE DEF from, whole, stop
  <2>1. ASSUME NEW k \in Occurrences(whole, stop, 0) PROVE k \in Occurrences(whole, stop, from)
    <3>1. k \in 0 .. Len(whole) /\ OccursAt(whole, stop, k)
      BY DEF Occurrences
    <3>2. k \in from .. Len(whole)
      BY <1>2, <1>4, <1>5, <3>1
    <3> QED BY <3>1, <3>2 DEF Occurrences
  <2>2. ASSUME NEW k \in Occurrences(whole, stop, from) PROVE k \in Occurrences(whole, stop, 0)
    <3>1. k \in from .. Len(whole) /\ OccursAt(whole, stop, k)
      BY DEF Occurrences
    <3>2. k \in 0 .. Len(whole)
      BY <1>2, <1>4, <3>1
    <3> QED BY <3>1, <3>2 DEF Occurrences
  <2> QED BY <2>1, <2>2
<1> QED
  BY <1>6

\* What the search makes of a text whose earlier part held no stop sequence.
Cut(text, stops, at) ==
  \E i \in DOMAIN stops :
    /\ Occurrences(text, stops[i], 0) # {}
    /\ \A j \in 1 .. i - 1 : Occurrences(text, stops[j], 0) = {}
    /\ at = First(Occurrences(text, stops[i], 0))

THEOREM StopIsFound ==
  ASSUME NEW S, NEW shown \in Seq(S), NEW text \in Seq(S), NEW stops \in Seq(Seq(S)),
         NoStops(shown, stops), \A i \in DOMAIN stops : stops[i] # <<>>
  PROVE  LET whole == shown \o text
             cut_at   == StopCut(whole, text, stops)
         IN  /\ cut_at = {} => NoStops(whole, stops)
             /\ cut_at # {} => \E at \in 0 .. Len(whole) : cut_at = {at} /\ Cut(whole, stops, at)
<1> DEFINE whole == shown \o text
           from == trailing_char_boundary_start(whole, MaxStopLen(stops) + ByteLen(text))
           Windowed(i) == Occurrences(whole, stops[i], from)
           All(i) == Occurrences(whole, stops[i], 0)
           hits == {i \in DOMAIN stops : MaxStopLen(stops) > 0 /\ Windowed(i) # {}}
           cut_at == StopCut(whole, text, stops)
<1>1. Len(stops) \in Nat /\ DOMAIN stops = 1 .. Len(stops)
  BY LenProperties
<1>2. cut_at = IF hits = {} THEN {} ELSE {First(Windowed(First(hits)))}
  BY DEF StopCut
<1>3. \A i \in DOMAIN stops : Windowed(i) = All(i)
  BY WindowMissesNoStop
<1>4. ASSUME NEW i \in DOMAIN stops
      PROVE  MaxStopLen(stops) > 0
  <2>1. stops[i] \in Seq(S) /\ stops[i] # <<>>
    BY <1>1, ElementOfSeq
  <2>2. Len(stops[i]) \in Nat \ {0}
    BY <2>1, EmptySeq
  <2>3. /\ ByteLen(stops[i]) \in Nat /\ ByteLen(stops[i]) >= Len(stops[i])
        /\ ByteLen(stops[i]) <= MaxStopLen(stops) /\ MaxStopLen(stops) \in Nat
    BY <2>1, ByteLenType, MaxStopLenBounds
  <2> QED BY <2>2, <2>3
<1> HIDE DEF Windowed, All, cut_at
<1>5. hits = {i \in DOMAIN stops : All(i) # {}}
  BY <1>3, <1>4
<1> HIDE DEF hits
<1>6. ASSUME cut_at = {}
      PROVE  NoStops(whole, stops)
  <2>1. hits = {}
    BY <1>2, <1>6
  <2>2. \A i \in DOMAIN stops : All(i) = {}
    BY <1>5, <2>1
  <2> QED BY <2>2 DEF All, NoStops
<1>7. ASSUME cut_at # {}
      PROVE  \E at \in 0 .. Len(whole) : cut_at = {at} /\ Cut(whole, stops, at)
  <2> DEFINE i == First(hits)
             at == First(Windowed(i))
  <2>1. hits # {} /\ hits \in SUBSET (0 .. Len(stops))
    <3>1. hits # {}
      BY <1>2, <1>7
    <3>2. \A n \in hits : n \in 1 .. Len(stops)
      BY <1>1, <1>5
    <3> QED BY <1>1, <3>1, <3>2
  <2>2. i \in hits /\ \A j \in hits : i <= j
    BY <1>1, <2>1, LeastOfBounded
  <2>3. i \in DOMAIN stops /\ All(i) # {}
    BY <1>5, <2>2
  <2>4. ASSUME NEW j \in 1 .. i - 1 PROVE All(j) = {}
    <3>1. j \in DOMAIN stops /\ ~(i <= j)
      BY <1>1, <2>3
    <3> QED BY <1>5, <2>2, <3>1
  <2>5. at = First(All(i))
    BY <1>3, <2>3
  <2>6. at \in 0 .. Len(whole)
    <3> HIDE DEF i
    <3>1. Len(whole) \in Nat
      BY ConcatProperties, LenProperties
    <3>2. All(i) \in SUBSET (0 .. Len(whole))
      BY DEF All, Occurrences
    <3> HIDE DEF whole, at
    <3>3. First(All(i)) \in All(i)
      BY <2>3, <3>1, <3>2, LeastOfBounded
    <3> QED BY <2>5, <3>2, <3>3
  <2>7. cut_at = {at}
    BY <1>2, <2>1
  <2> HIDE DEF at, i
  <2>8. Cut(whole, stops, at)
    BY <2>3, <2>4, <2>5 DEF Cut, All
  <2> QED BY <2>6, <2>7, <2>8
<1> QED
  BY <1>6, <1>7 DEF cut_at

-----------------------------------------------------------------------------
(* Texts that were passed on one after the other. *)

FlattenStep(seqs, f, i) == IF i = 1 THEN seqs[i] ELSE f[i - 1] \o seqs[i]
IsFlat(seqs, f) == f = [i \in 1 .. Len(seqs) |-> FlattenStep(seqs, f, i)]
Flat(seqs) == CHOOSE f : IsFlat(seqs, f)

LEMMA FlattenFlat ==
  ASSUME NEW seqs, Len(seqs) # 0
  PROVE  FlattenSeq(seqs) = Flat(seqs)[Len(seqs)]
  BY DEF FlattenSeq, Flat, IsFlat, FlattenStep

LEMMA FlatExists ==
  ASSUME NEW seqs, Len(seqs) \in Nat \ {0}
  PROVE  IsFlat(seqs, Flat(seqs))
<1> DEFINE n == Len(seqs)
           Part(k, f) == f = [i \in 1 .. k |-> FlattenStep(seqs, f, i)]
           Good == {k \in 1 .. n : \E f : Part(k, f)}
<1>1. ASSUME NEW k \in 1 .. n, \A j \in 1 .. k - 1 : j \in Good
      PROVE  k \in Good
  <2>1. PICK g : k > 1 => Part(k - 1, g)
    <3>1. CASE k > 1
      <4>1. k - 1 \in 1 .. k - 1
        BY <3>1
      <4> QED BY <1>1, <4>1
    <3>2. CASE ~(k > 1)
      BY <3>2
    <3> QED BY <3>1, <3>2
  <2> DEFINE f == [i \in 1 .. k |-> IF i = k THEN FlattenStep(seqs, g, k) ELSE g[i]]
  <2>2. ASSUME NEW i \in 1 .. k
        PROVE  FlattenStep(seqs, f, i) = FlattenStep(seqs, g, i)
    <3>1. CASE i = 1
      BY <3>1 DEF FlattenStep
    <3>2. CASE i # 1
      <4>1. i - 1 \in 1 .. k /\ i - 1 # k
        BY <3>2
      <4>2. f[i - 1] = g[i - 1]
        BY <4>1
      <4> HIDE DEF f
      <4> QED BY <3>2, <4>2 DEF FlattenStep
    <3> QED BY <3>1, <3>2
  <2>3. ASSUME NEW i \in 1 .. k
        PROVE  f[i] = FlattenStep(seqs, f, i)
    <3>1. CASE i = k
      BY <2>2, <3>1
    <3>2. CASE i # k
      <4>1. k > 1 /\ i \in 1 .. k - 1
        BY <3>2
      <4>2. g[i] = FlattenStep(seqs, g, i)
        BY <2>1, <4>1
      <4> QED BY <2>2, <3>2, <4>2
    <3> QED BY <3>1, <3>2
  <2>4. Part(k, f)
    BY <2>3
  <2> QED BY <2>4
<1>2. n \in Good
  <2>1. n \in 1 .. n
    OBVIOUS
  <2> HIDE DEF Good
  <2> QED BY <1>1, <2>1, Upwards
<1>3. \E f : IsFlat(seqs, f)
  BY <1>2 DEF IsFlat
<1> QED
  BY <1>3 DEF Flat

LEMMA FlattenEmpty == FlattenSeq(<<>>) = <<>>
<1>1. Len(<<>>) = 0
  BY EmptySeq
<1> QED
  BY <1>1 DEF FlattenSeq

\* What is appended comes last.
LEMMA FlattenAppend ==
  ASSUME NEW S, NEW seqs \in Seq(Seq(S)), NEW s \in Seq(S)
  PROVE  /\ FlattenSeq(Append(seqs, s)) = FlattenSeq(seqs) \o s
         /\ FlattenSeq(seqs) \in Seq(S)
<1> DEFINE more == Append(seqs, s)
           n == Len(seqs)
<1>1. /\ n \in Nat /\ more \in Seq(Seq(S)) /\ Len(more) = n + 1
      /\ more[n + 1] = s /\ \A i \in 1 .. n : more[i] = seqs[i]
  BY LenProperties, AppendProperties
<1> HIDE DEF more
<1>2. ASSUME NEW i \in 1 .. n + 1
      PROVE  Flat(more)[i] = FlattenStep(more, Flat(more), i)
  <2>1. IsFlat(more, Flat(more))
    <3>1. Len(more) \in Nat \ {0}
      BY <1>1
    <3> QED BY <3>1, FlatExists
  <2> QED BY <1>1, <2>1 DEF IsFlat
<1>3. ASSUME NEW i \in 1 .. n
      PROVE  Flat(seqs)[i] = FlattenStep(seqs, Flat(seqs), i)
  <2>1. IsFlat(seqs, Flat(seqs))
    <3>1. Len(seqs) \in Nat \ {0}
      BY <1>1
    <3> QED BY <3>1, FlatExists
  <2> QED BY <2>1 DEF IsFlat
<1> DEFINE Good == {i \in 1 .. n : Flat(more)[i] = Flat(seqs)[i] /\ Flat(seqs)[i] \in Seq(S)}
<1>4. ASSUME NEW i \in 1 .. n, \A j \in 1 .. i - 1 : j \in Good
      PROVE  i \in Good
  <2>1. more[i] = seqs[i] /\ seqs[i] \in Seq(S)
    BY <1>1, ElementOfSeq
  <2>2. /\ Flat(more)[i] = FlattenStep(more, Flat(more), i)
        /\ Flat(seqs)[i] = FlattenStep(seqs, Flat(seqs), i)
    BY <1>1, <1>2, <1>3
  <2>3. CASE i = 1
    BY <2>1, <2>2, <2>3 DEF FlattenStep
  <2>4. CASE i # 1
    <3>1. i - 1 \in 1 .. i - 1
      BY <1>1, <2>4
    <3>2. Flat(more)[i - 1] = Flat(seqs)[i - 1] /\ Flat(seqs)[i - 1] \in Seq(S)
      BY <1>4, <3>1
    <3>3. Flat(seqs)[i - 1] \o seqs[i] \in Seq(S)
      BY <2>1, <3>2, ConcatProperties
    <3> QED BY <2>1, <2>2, <2>4, <3>2, <3>3 DEF FlattenStep
  <2> QED BY <2>3, <2>4
<1>5. \A i \in 1 .. n : i \in Good
  <2> HIDE DEF Good
  <2> QED BY <1>1, <1>4, Upwards
<1>6. FlattenSeq(more) = Flat(more)[n + 1]
  <2>1. Len(more) # 0
    BY <1>1
  <2> QED BY <1>1, <2>1, FlattenFlat
<1>7. CASE n = 0
  <2>1. seqs = <<>>
    BY <1>7, EmptySeq
  <2>2. FlattenSeq(seqs) = <<>> /\ <<>> \o s = s /\ <<>> \in Seq(S)
    BY <2>1, FlattenEmpty, ConcatEmptySeq, EmptySeq
  <2>3. Flat(more)[n + 1] = s
    BY <1>1, <1>2, <1>7 DEF FlattenStep
  <2> QED BY <1>6, <2>2, <2>3 DEF more
<1>8. CASE n # 0
  <2>1. FlattenSeq(seqs) = Flat(seqs)[n]
    BY <1>8, FlattenFlat
  <2>2. n \in 1 .. n /\ n + 1 \in 1 .. n + 1 /\ n + 1 # 1 /\ n + 1 - 1 = n
    BY <1>1, <1>8
  <2>3. Flat(more)[n] = Flat(seqs)[n] /\ Flat(seqs)[n] \in Seq(S)
    BY <1>5, <2>2
  <2>4. Flat(more)[n + 1] = FlattenStep(more, Flat(more), n + 1)
    BY <1>2, <2>2
  <2>5. FlattenStep(more, Flat(more), n + 1) = Flat(more)[n] \o s
    BY <1>1, <2>2 DEF FlattenStep
  <2> QED BY <1>6, <2>1, <2>3, <2>4, <2>5 DEF more
<1> QED
  BY <1>7, <1>8

-----------------------------------------------------------------------------
(* Prose and calls. *)

\* No call is complete from character i on.
CallsEnd(text, i) ==
  Markers(text, i) = {} \/ Arguments(text, First(Markers(text, i))) = {}
ArgumentsAt(text, i) == First(Arguments(text, First(Markers(text, i))))
CallName(text, i) == SubSeq(text, First(Markers(text, i)) + 1, ArgumentsAt(text, i) - 1)
NamedCall(text, i) == IF CallName(text, i) = <<>> THEN <<>> ELSE <<CallName(text, i)>>

\* One step of ToolCalls, which goes on behind the arguments by f.
CallsStep(text, f, i) ==
  IF Markers(text, i) = {} THEN <<>>
  ELSE LET at == First(Markers(text, i))
       IN  IF Arguments(text, at) = {} THEN <<>>
           ELSE LET args == First(Arguments(text, at))
                    name == SubSeq(text, at + 1, args - 1)
                IN  (IF name = <<>> THEN <<>> ELSE <<name>>) \o f[args + 1]

IsCalls(text, f) == f = [i \in 1 .. Len(text) + 1 |-> CallsStep(text, f, i)]
Calls(text) == CHOOSE f : IsCalls(text, f)

LEMMA ToolCallsAreCalls ==
  ASSUME NEW text, NEW from
  PROVE  ToolCalls(text, from) = Calls(text)[from]
BY DEF ToolCalls, Calls, IsCalls, CallsStep

LEMMA CallsStepIs ==
  ASSUME NEW text, NEW f, NEW i
  PROVE  CallsStep(text, f, i) =
           IF CallsEnd(text, i) THEN <<>> ELSE NamedCall(text, i) \o f[ArgumentsAt(text, i) + 1]
BY DEF CallsStep, CallsEnd, NamedCall, CallName, ArgumentsAt

\* The arguments of the next call stand at or behind character i.
LEMMA ArgumentsBounds ==
  ASSUME NEW S, NEW text \in Seq(S), NEW i \in 1 .. Len(text) + 1, ~CallsEnd(text, i)
  PROVE  /\ First(Markers(text, i)) \in i .. Len(text)
         /\ ArgumentsAt(text, i) \in First(Markers(text, i)) .. Len(text)
<1> DEFINE n  == Len(text)
           at == First(Markers(text, i))
<1>1. n \in Nat
  BY LenProperties
<1>2. at \in Markers(text, i)
  <2>1. Markers(text, i) \in SUBSET (0 .. n) /\ Markers(text, i) # {}
    BY <1>1 DEF Markers, CallsEnd
  <2> QED BY <1>1, <2>1, LeastOfBounded
<1>3. at \in i .. n
  BY <1>2 DEF Markers
<1> HIDE DEF at
<1>4. ArgumentsAt(text, i) \in Arguments(text, at)
  <2>1. Arguments(text, at) \in SUBSET (0 .. n)
    <3>1. at \in Nat
      BY <1>1, <1>3
    <3>2. \A j \in Arguments(text, at) : j \in at .. n
      BY DEF Arguments
    <3> HIDE DEF n
    <3>3. \A j \in Arguments(text, at) : j \in 0 .. n
      BY <1>1, <3>1, <3>2
    <3> QED BY <3>3
  <2>2. Arguments(text, at) # {}
    BY DEF CallsEnd, at
  <2>3. First(Arguments(text, at)) \in Arguments(text, at)
    BY <1>1, <2>1, <2>2, LeastOfBounded
  <2> QED BY <2>3 DEF ArgumentsAt, at
<1>5. ArgumentsAt(text, i) \in at .. n
  BY <1>4 DEF Arguments
<1> QED
  BY <1>3, <1>5 DEF at

LEMMA NamedCallType ==
  ASSUME NEW S, NEW text \in Seq(S), NEW i \in 1 .. Len(text) + 1, ~CallsEnd(text, i)
  PROVE  NamedCall(text, i) \in Seq(Seq(S))
<1> DEFINE at   == First(Markers(text, i))
           args == ArgumentsAt(text, i)
<1>1. at \in i .. Len(text) /\ args \in at .. Len(text) /\ Len(text) \in Nat
  BY ArgumentsBounds, LenProperties
<1>2. CallName(text, i) = SubSeq(text, at + 1, args - 1)
  BY DEF CallName
<1> HIDE DEF at, args
<1>3. \A j \in at + 1 .. args - 1 : text[j] \in S
  BY <1>1, ElementOfSeq
<1>4. CallName(text, i) \in Seq(S)
  BY <1>1, <1>2, <1>3, SubSeqProperties
<1>5. <<>> \in Seq(Seq(S)) /\ <<CallName(text, i)>> \in Seq(Seq(S))
  BY <1>4
<1> QED
  BY <1>5 DEF NamedCall

LEMMA CallsExist ==
  ASSUME NEW S, NEW text \in Seq(S)
  PROVE  IsCalls(text, Calls(text))
<1> DEFINE n == Len(text)
           Part(k, f) == f = [i \in k .. n + 1 |-> CallsStep(text, f, i)]
           Good == {k \in 1 .. n + 1 : \E f : Part(k, f)}
<1>1. n \in Nat
  BY LenProperties
<1>2. ASSUME NEW k \in 1 .. n + 1, \A j \in k + 1 .. n + 1 : j \in Good
      PROVE  k \in Good
  <2>1. PICK g : k < n + 1 => Part(k + 1, g)
    BY <1>1, <1>2
  <2> DEFINE f == [i \in k .. n + 1 |-> IF i = k THEN CallsStep(text, g, k) ELSE g[i]]
  <2>2. ASSUME NEW i \in k .. n + 1
        PROVE  CallsStep(text, f, i) = CallsStep(text, g, i)
    <3>1. CASE CallsEnd(text, i)
      BY <3>1, CallsStepIs
    <3>2. CASE ~CallsEnd(text, i)
      <4> DEFINE j == ArgumentsAt(text, i) + 1
      <4>1. j \in k .. n + 1 /\ j # k
        BY <1>1, <3>2, ArgumentsBounds
      <4>2. f[j] = g[j]
        BY <4>1
      <4>3. ASSUME NEW h
            PROVE  CallsStep(text, h, i) = NamedCall(text, i) \o h[j]
        BY <3>2, CallsStepIs
      <4> HIDE DEF f, j
      <4> QED BY <4>2, <4>3
    <3> QED BY <3>1, <3>2
  <2>3. ASSUME NEW i \in k .. n + 1
        PROVE  f[i] = CallsStep(text, f, i)
    <3>1. CASE i = k
      BY <2>2, <3>1
    <3>2. CASE i # k
      <4>1. k < n + 1 /\ i \in k + 1 .. n + 1
        BY <1>1, <3>2
      <4>2. g[i] = CallsStep(text, g, i)
        BY <2>1, <4>1
      <4> QED BY <2>2, <3>2, <4>2
    <3> QED BY <3>1, <3>2
  <2>4. Part(k, f)
    BY <2>3
  <2> QED BY <2>4
<1>3. 1 \in Good
  <2>1. 1 \in 1 .. n + 1
    BY <1>1
  <2> HIDE DEF Good
  <2> QED BY <1>1, <1>2, <2>1, Downwards
<1>4. \E f : IsCalls(text, f)
  BY <1>3 DEF IsCalls
<1> QED
  BY <1>4, Zenon DEF Calls

LEMMA CallsUnfold ==
  ASSUME NEW S, NEW text \in Seq(S), NEW i \in 1 .. Len(text) + 1
  PROVE  Calls(text)[i] = CallsStep(text, Calls(text), i)
<1>1. IsCalls(text, Calls(text))
  BY CallsExist
<1> QED
  BY <1>1 DEF IsCalls

LEMMA CallsType ==
  ASSUME NEW S, NEW text \in Seq(S)
  PROVE  ToolCalls(text, 1) \in Seq(Seq(S))
<1> DEFINE n == Len(text)
           Good == {k \in 1 .. n + 1 : Calls(text)[k] \in Seq(Seq(S))}
<1>1. n \in Nat
  BY LenProperties
<1>2. ASSUME NEW k \in 1 .. n + 1, \A j \in k + 1 .. n + 1 : j \in Good
      PROVE  k \in Good
  <2>1. Calls(text)[k] = CallsStep(text, Calls(text), k)
    BY CallsUnfold
  <2>2. CASE CallsEnd(text, k)
    BY <2>1, <2>2, EmptySeq, CallsStepIs
  <2>3. CASE ~CallsEnd(text, k)
    <3> DEFINE j == ArgumentsAt(text, k) + 1
    <3>1. j \in k + 1 .. n + 1
      BY <1>1, <2>3, ArgumentsBounds
    <3>2. Calls(text)[j] \in Seq(Seq(S))
      BY <1>2, <3>1
    <3>3. NamedCall(text, k) \in Seq(Seq(S))
      BY <2>3, NamedCallType
    <3>4. Calls(text)[k] = NamedCall(text, k) \o Calls(text)[j]
      BY <2>1, <2>3, CallsStepIs
    <3> HIDE DEF j
    <3> QED BY <3>2, <3>3, <3>4, ConcatProperties
  <2> QED BY <2>2, <2>3
<1>3. 1 \in Good
  <2>1. 1 \in 1 .. n + 1
    BY <1>1
  <2> HIDE DEF Good
  <2> QED BY <1>1, <1>2, <2>1, Downwards
<1> QED
  BY <1>3, ToolCallsAreCalls

\* The prose is a prefix of the text without a marker, all of it when there
\* is none.
LEMMA ParsedType ==
  ASSUME NEW S, NEW text \in Seq(S)
  PROVE  LET parsed == parse_mistral_tool_calls(text)
         IN  /\ parsed.prose \in Seq(S) /\ parsed.calls \in Seq(Seq(S))
             /\ Markers(parsed.prose, 1) = {}
             /\ Markers(text, 1) = {} => parsed.prose = text /\ parsed.calls = <<>>
<1> DEFINE parsed == parse_mistral_tool_calls(text)
           at     == First(Markers(text, 1))
<1>1. CASE Markers(text, 1) = {}
  <2>1. parsed = [prose |-> text, calls |-> <<>>]
    BY <1>1 DEF parse_mistral_tool_calls
  <2> HIDE DEF parsed
  <2>2. parsed.prose = text /\ parsed.calls = <<>>
    BY <2>1
  <2> QED BY <1>1, <2>2 DEF parsed
<1>2. CASE Markers(text, 1) # {}
  <2>1. parsed = [prose |-> SubSeq(text, 1, at - 1), calls |-> ToolCalls(text, 1)]
    BY <1>2 DEF parse_mistral_tool_calls
  <2>2. Len(text) \in Nat
    BY LenProperties
  <2>3. at \in Markers(text, 1) /\ \A j \in Markers(text, 1) : at <= j
    <3>1. Markers(text, 1) \in SUBSET (0 .. Len(text))
      BY <2>2 DEF Markers
    <3> QED BY <1>2, <2>2, <3>1, LeastOfBounded
  <2>4. at \in 1 .. Len(text)
    BY <2>3 DEF Markers
  <2> DEFINE before == SubSeq(text, 1, at - 1)
  <2> HIDE DEF at
  <2>5. \A j \in 1 .. at - 1 : text[j] \in S
    BY <2>2, <2>4, ElementOfSeq
  <2>6. /\ before \in Seq(S) /\ Len(before) = at - 1
        /\ \A j \in 1 .. at - 1 : before[j] = text[j]
    <3>1. at \in Nat
      BY <2>2, <2>4
    <3>2. /\ before \in Seq(S)
          /\ Len(before) = IF 1 <= at - 1 THEN at - 1 - 1 + 1 ELSE 0
          /\ \A j \in 1 .. at - 1 - 1 + 1 : before[j] = text[1 + j - 1]
      BY <2>5, <3>1, SubSeqProperties
    <3> QED BY <2>4, <3>1, <3>2
  <2>7. Markers(before, 1) = {}
    <3>1. SUFFICES ASSUME NEW j \in Markers(before, 1) PROVE FALSE
      OBVIOUS
    <3>2. j \in 1 .. at - 1 /\ text[j] = "T"
      BY <2>6 DEF Markers
    <3>3. j \in Markers(text, 1)
      BY <2>2, <2>4, <3>2 DEF Markers
    <3> QED BY <2>2, <2>3, <2>4, <3>2, <3>3
  <2>8. parsed.prose = before /\ parsed.calls = ToolCalls(text, 1)
    <3> HIDE DEF parsed
    <3> QED BY <2>1 DEF at
  <2> QED BY <1>2, <2>6, <2>7, <2>8, CallsType
<1> QED
  BY <1>1, <1>2

-----------------------------------------------------------------------------

(* The request reader. *)

Arrived == header \o body \o unread

EndIsLast == \A i \in DOMAIN header : header[i].is = "end" => i = Len(header)

ReaderType ==
  /\ sent \in Seq(Pieces) /\ unread \in Seq(Pieces)
  /\ header \in Seq(Pieces) /\ body \in Seq(Pieces)
  /\ status \in {0, 200, 400, 408, 413}

\* The header is complete and asks for a body of a size that is allowed.
HeaderAccepted == HeaderRead /\ HeaderStatus \in {0, 200} /\ Len(header) <= MAX_HEADER_BYTES + 1

WhileReading ==
  IF HeaderRead THEN HeaderAccepted /\ HeaderStatus = 0 /\ Len(body) < ContentLength
  ELSE Len(header) <= MAX_HEADER_BYTES

(***************************************************************************)
(* The reader's inductive invariant: nothing is lost or reordered between  *)
(* the socket and the buffers, the header ends at its first empty line,    *)
(* and the status is what the two buffers call for.                        *)
(***************************************************************************)
ReaderInv ==
  /\ ReaderType
  /\ sent = Arrived
  /\ EndIsLast
  /\ ~HeaderRead => body = <<>>
  /\ status = 0 => WhileReading
  /\ status = 200 => HeaderAccepted /\ Len(body) = ContentLength
  /\ status = 408 => socket = "silent"
  /\ status = 413 => \/ ~HeaderRead /\ Len(header) > MAX_HEADER_BYTES
                     \/ HeaderRead /\ HeaderStatus = 413
  /\ status = 400 => socket \in {"closed", "failed"} \/ (HeaderRead /\ HeaderStatus = 400)

\* Pieces are joined in any order.
LEMMA PiecesJoin ==
  ASSUME NEW r \in Seq(Pieces), NEW s \in Seq(Pieces), NEW t \in Seq(Pieces)
  PROVE  (r \o s) \o t = r \o (s \o t)
BY ConcatAssociative

\* The lines of a kind in the header that has been read.
LEMMA LinesBounded ==
  ASSUME header \in Seq(Pieces), NEW kind
  PROVE  /\ Lines(kind) \in SUBSET (1 .. Len(header))
         /\ Lines(kind) \in SUBSET (0 .. Len(header))
         /\ Len(header) \in Nat
<1>1. DOMAIN header = 1 .. Len(header) /\ Len(header) \in Nat
  BY LenProperties
<1> QED
  BY <1>1 DEF Lines

LEMMA DeclaredLength ==
  ASSUME header \in Seq(Pieces)
  PROVE  /\ ContentLength \in Nat
         /\ Lines("length") # {} =>
              \E i \in Lines("length") :
                /\ ContentLength = header[i].value
                /\ \A j \in Lines("length") : j <= i
<1>1. /\ Lines("length") \in SUBSET (0 .. Len(header)) /\ Len(header) \in Nat
  BY LinesBounded
<1>2. ASSUME Lines("length") # {}
      PROVE  /\ Max(Lines("length")) \in Lines("length")
             /\ \A j \in Lines("length") : j <= Max(Lines("length"))
  BY <1>1, <1>2, LeastOfBounded
<1>3. ASSUME Lines("length") # {} PROVE header[Max(Lines("length"))].value \in Nat
  <2>1. header[Max(Lines("length"))] \in Pieces
    BY <1>2, <1>3, ElementOfSeq DEF Lines
  <2> QED BY <2>1 DEF Pieces
<1> QED
  BY <1>2, <1>3 DEF ContentLength

\* The status of a header is one of four, and 200 only without a body.
HeaderFacts ==
  /\ HeaderStatus \in {0, 200, 400, 413}
  /\ ContentLength \in Nat
  /\ HeaderStatus = 200 => ContentLength = 0
  /\ HeaderStatus = 0 => ContentLength > 0
  /\ HeaderStatus \in {0, 200} => ContentLength <= MAX_BODY_BYTES
  /\ HeaderStatus = 413 => ContentLength > MAX_BODY_BYTES
  /\ HeaderStatus = 400 => header[1].is # "request" \/ Lines("nocolon") \cup Lines("badlength") # {}

LEMMA HeaderIsJudged ==
  header \in Seq(Pieces) => HeaderFacts
<1> SUFFICES ASSUME header \in Seq(Pieces) PROVE HeaderFacts
  OBVIOUS
<1>1. ContentLength \in Nat /\ MAX_BODY_BYTES \in Nat
  BY DeclaredLength, ReaderAssumption
<1> QED
  BY <1>1 DEF HeaderStatus, HeaderFacts

\* One more piece of the header is the next of what was sent.
LEMMA HeaderGrows ==
  ASSUME ReaderInv, ReadHeader
  PROVE  /\ header' \in Seq(Pieces) /\ unread' \in Seq(Pieces)
         /\ Len(header') = Len(header) + 1 /\ Len(header) \in Nat
         /\ header'[Len(header) + 1] = Head(unread)
         /\ \A i \in 1 .. Len(header) : header'[i] = header[i]
         /\ Arrived' = Arrived
<1>1. /\ header \in Seq(Pieces) /\ unread \in Seq(Pieces) /\ unread # <<>>
      /\ header' = Append(header, Head(unread)) /\ unread' = Tail(unread)
      /\ body = <<>> /\ body' = <<>>
  BY DEF ReaderInv, ReaderType, ReadHeader
<1>2. /\ Head(unread) \in Pieces /\ Tail(unread) \in Seq(Pieces)
      /\ <<Head(unread)>> \o Tail(unread) = unread
  BY <1>1, HeadTailProperties
<1>3. Len(header) \in Nat
  BY <1>1, LenProperties
<1>4. /\ header' \in Seq(Pieces) /\ Len(header') = Len(header) + 1
      /\ header'[Len(header) + 1] = Head(unread)
      /\ \A i \in 1 .. Len(header) : header'[i] = header[i]
  BY <1>1, <1>2, AppendProperties
<1>5. Arrived' = Arrived
  <2>1. Arrived' = header' \o Tail(unread) /\ Arrived = header \o unread
    BY <1>1, <1>4, <1>2, ConcatEmptySeq DEF Arrived
  <2>2. header' = header \o <<Head(unread)>>
    BY <1>1, <1>2, AppendIsConcat
  <2>3. (header \o <<Head(unread)>>) \o Tail(unread) = header \o (<<Head(unread)>> \o Tail(unread))
    BY <1>1, <1>2, PiecesJoin
  <2> QED BY <1>2, <2>1, <2>2, <2>3
<1> QED
  BY <1>1, <1>2, <1>3, <1>4, <1>5
LEMMA HeaderReadMeans ==
  ASSUME header \in Seq(Pieces)
  PROVE  HeaderRead <=> \E i \in 1 .. Len(header) : header[i].is = "end"
<1>1. DOMAIN header = 1 .. Len(header)
  BY LenProperties
<1> QED
  BY <1>1 DEF HeaderRead, Lines

LEMMA ReadHeaderKeeps ==
  ASSUME ReaderInv, ReadHeader
  PROVE  ReaderInv'
<1> DEFINE n == Len(header)
<1>1. /\ header' \in Seq(Pieces) /\ unread' \in Seq(Pieces)
      /\ Len(header') = n + 1 /\ n \in Nat
      /\ header'[n + 1] = Head(unread)
      /\ \A i \in 1 .. n : header'[i] = header[i]
      /\ Arrived' = Arrived
  BY HeaderGrows
<1>2. /\ header \in Seq(Pieces) /\ sent \in Seq(Pieces) /\ sent = Arrived
      /\ ~HeaderRead /\ body = <<>> /\ n <= MAX_HEADER_BYTES
      /\ body' = body /\ sent' = sent /\ socket' = socket
      /\ status' = IF Head(unread).is = "end" THEN HeaderStatus'
                   ELSE IF Len(header') > MAX_HEADER_BYTES THEN 413 ELSE 0
  BY DEF ReaderInv, ReaderType, ReadHeader, Reading, WhileReading
<1>3. HeaderFacts'
  <2>1. (header \in Seq(Pieces))'
    BY <1>1
  <2> QED BY <2>1, HeaderIsJudged, PTL
<1>4. \A i \in 1 .. n : header'[i].is # "end"
  BY <1>1, <1>2, HeaderReadMeans
<1>5. HeaderRead' <=> Head(unread).is = "end"
  <2>1. (header \in Seq(Pieces) => (HeaderRead <=> \E i \in 1 .. Len(header) : header[i].is = "end"))'
    BY HeaderReadMeans, PTL
  <2>2. HeaderRead' <=> \E i \in 1 .. n + 1 : header'[i].is = "end"
    BY <1>1, <2>1
  <2>3. \A i \in 1 .. n + 1 : i \in 1 .. n \/ i = n + 1
    BY <1>1
  <2>4. n + 1 \in 1 .. n + 1
    BY <1>1
  <2> HIDE DEF n
  <2> QED BY <1>1, <1>4, <2>2, <2>3, <2>4
<1>6. EndIsLast'
  <2>1. DOMAIN header' = 1 .. n + 1
    BY <1>1, LenProperties
  <2>2. \A i \in 1 .. n + 1 : i \in 1 .. n \/ i = n + 1
    BY <1>1
  <2> HIDE DEF n
  <2> QED BY <1>1, <1>4, <2>1, <2>2 DEF EndIsLast
<1>7. Len(body') = 0 /\ body' \in Seq(Pieces) /\ MAX_HEADER_BYTES \in Nat
  BY <1>2, EmptySeq, ReaderAssumption
<1>8. CASE Head(unread).is = "end"
  <2>1. HeaderRead' /\ status' = HeaderStatus' /\ Len(header') <= MAX_HEADER_BYTES + 1
    BY <1>1, <1>2, <1>5, <1>7, <1>8
  <2>2. ReaderType'
    BY <1>1, <1>2, <1>3, <1>7, <2>1 DEF ReaderType, HeaderFacts
  <2>3. status' = 0 => WhileReading'
    BY <1>3, <1>7, <2>1 DEF WhileReading, HeaderAccepted, HeaderFacts
  <2>4. status' = 200 => HeaderAccepted' /\ Len(body') = ContentLength'
    BY <1>3, <1>7, <2>1 DEF HeaderAccepted, HeaderFacts
  <2> QED
    BY <1>1, <1>2, <1>3, <1>6, <2>1, <2>2, <2>3, <2>4 DEF ReaderInv, HeaderFacts
<1>9. CASE Head(unread).is # "end"
  <2>1. ~HeaderRead' /\ status' = IF Len(header') > MAX_HEADER_BYTES THEN 413 ELSE 0
    BY <1>2, <1>5, <1>9
  <2>2. ReaderType'
    BY <1>1, <1>2, <1>7, <2>1 DEF ReaderType
  <2>3. status' = 0 => WhileReading'
    BY <1>1, <1>7, <2>1 DEF WhileReading
  <2> QED
    BY <1>1, <1>2, <1>6, <2>1, <2>2, <2>3 DEF ReaderInv
<1> QED
  BY <1>8, <1>9

LEMMA ReadBodyKeeps ==
  ASSUME ReaderInv, ReadBody
  PROVE  ReaderInv'
<1>1. /\ ReaderType /\ sent = Arrived /\ EndIsLast /\ HeaderRead
      /\ HeaderAccepted /\ Len(body) < ContentLength
      /\ unread # <<>> /\ status = 0
      /\ body' = Append(body, Head(unread)) /\ unread' = Tail(unread)
      /\ status' = IF Len(body') = ContentLength THEN 200 ELSE 0
      /\ sent' = sent /\ header' = header /\ socket' = socket
  BY DEF ReaderInv, ReadBody, Reading, WhileReading
<1>2. header \in Seq(Pieces) /\ body \in Seq(Pieces) /\ unread \in Seq(Pieces)
  BY <1>1 DEF ReaderType
<1>3. /\ Head(unread) \in Pieces /\ Tail(unread) \in Seq(Pieces)
      /\ <<Head(unread)>> \o Tail(unread) = unread
  BY <1>1, <1>2, HeadTailProperties
<1>4. /\ body' \in Seq(Pieces) /\ Len(body') = Len(body) + 1 /\ Len(body) \in Nat
      /\ body' = body \o <<Head(unread)>>
  BY <1>1, <1>2, <1>3, AppendProperties, AppendIsConcat, LenProperties
<1>5. Arrived' = Arrived
  <2> DEFINE s == <<Head(unread)>>
             t == Tail(unread)
  <2>1. s \in Seq(Pieces)
    BY <1>3
  <2>2. Arrived' = (header \o (body \o s)) \o t /\ Arrived = (header \o body) \o unread
    BY <1>1, <1>4 DEF Arrived
  <2>3. unread = s \o t /\ t \in Seq(Pieces)
    BY <1>3
  <2> HIDE DEF s, t
  <2>4. header \o body \in Seq(Pieces)
    BY <1>2, ConcatProperties
  <2>6. header \o (body \o s) = (header \o body) \o s
    <3>1. header \in Seq(Pieces) /\ body \in Seq(Pieces)
      BY <1>2
    <3> QED BY <2>1, <3>1, PiecesJoin
  <2>5. ((header \o body) \o s) \o t = (header \o body) \o (s \o t)
    <3> DEFINE r == header \o body
    <3>1. r \in Seq(Pieces) /\ t \in Seq(Pieces)
      BY <2>3, <2>4
    <3> HIDE DEF r
    <3>2. (r \o s) \o t = r \o (s \o t)
      BY <2>1, <3>1, PiecesJoin
    <3> QED BY <3>2 DEF r
  <2> QED BY <2>2, <2>3, <2>5, <2>6
<1>6. /\ HeaderRead' = HeaderRead /\ HeaderStatus' = HeaderStatus /\ ContentLength' = ContentLength
      /\ EndIsLast' = EndIsLast /\ HeaderAccepted' = HeaderAccepted
  BY <1>1 DEF HeaderRead, HeaderStatus, ContentLength, EndIsLast, HeaderAccepted, Lines
<1>7. ContentLength \in Nat /\ (HeaderStatus = 200 => ContentLength = 0)
  BY <1>2, HeaderIsJudged DEF HeaderFacts
<1>8. HeaderStatus = 0
  BY <1>1, <1>4, <1>7 DEF HeaderAccepted
<1>9. ReaderType'
  BY <1>1, <1>2, <1>3, <1>4 DEF ReaderType
<1>10. status' = 0 => WhileReading'
  BY <1>1, <1>4, <1>6, <1>7, <1>8 DEF WhileReading
<1> QED
  BY <1>1, <1>5, <1>6, <1>9, <1>10 DEF ReaderInv

\* A read that fails leaves what was read.
LEMMA ReadEndsKeeps ==
  ASSUME ReaderInv, ReadTimeout \/ ReadFails
  PROVE  ReaderInv'
<1>1. /\ sent' = sent /\ unread' = unread /\ header' = header /\ body' = body
      /\ \/ status' = 408 /\ socket' = "silent"
         \/ status' = 400 /\ socket' \in {"closed", "failed"}
  BY DEF ReadTimeout, ReadFails
<1>2. Arrived' = Arrived /\ EndIsLast' = EndIsLast /\ HeaderRead' = HeaderRead
  BY <1>1 DEF Arrived, EndIsLast, HeaderRead, Lines
<1> QED
  BY <1>1, <1>2 DEF ReaderInv, ReaderType

LEMMA ReadRequestKeeps ==
  ASSUME ReaderInv, ReadRequest
  PROVE  ReaderInv'
BY ReadHeaderKeeps, ReadBodyKeeps, ReadEndsKeeps DEF ReadRequest

LEMMA ReaderUnchanged ==
  ASSUME ReaderInv, UNCHANGED readerVars
  PROVE  ReaderInv'
<1>1. /\ sent' = sent /\ unread' = unread /\ header' = header /\ body' = body
      /\ socket' = socket /\ status' = status
  BY DEF readerVars
<1>2. /\ Arrived' = Arrived /\ EndIsLast' = EndIsLast /\ HeaderRead' = HeaderRead
      /\ HeaderStatus' = HeaderStatus /\ ContentLength' = ContentLength
      /\ ReaderType' = ReaderType
  BY <1>1 DEF Arrived, EndIsLast, HeaderRead, HeaderStatus, ContentLength, Lines, ReaderType
<1>3. HeaderAccepted' = HeaderAccepted
  BY <1>1, <1>2 DEF HeaderAccepted
<1>4. WhileReading' = WhileReading
  BY <1>1, <1>2, <1>3 DEF WhileReading
<1> QED
  BY <1>1, <1>2, <1>3, <1>4 DEF ReaderInv

LEMMA ReaderStarts ==
  ASSUME NEW pieces \in Seq(Pieces), InitReader(pieces)
  PROVE  ReaderInv
<1>1. /\ sent = pieces /\ unread = pieces /\ header = <<>> /\ body = <<>> /\ status = 0
  BY DEF InitReader
<1>2. Arrived = pieces /\ Len(header) = 0 /\ header \in Seq(Pieces)
  BY <1>1, ConcatEmptySeq, EmptySeq DEF Arrived
<1>3. DOMAIN header = {}
  BY <1>2, LenProperties
<1> QED
  BY <1>1, <1>2, <1>3, ReaderAssumption
     DEF ReaderInv, ReaderType, EndIsLast, HeaderRead, Lines, WhileReading
-----------------------------------------------------------------------------
(* What the reader's invariant says of the request. *)

LEMMA ArrivedFacts ==
  ASSUME ReaderInv
  PROVE  /\ DOMAIN sent = 1 .. Len(sent) /\ Len(sent) \in Nat
         /\ DOMAIN header = 1 .. Len(header) /\ Len(header) \in Nat
         /\ Len(body) \in Nat
         /\ Len(header) + Len(body) <= Len(sent)
         /\ \A i \in 1 .. Len(header) : sent[i] = header[i]
         /\ SubSeq(sent, 1, Len(header)) = header
         /\ SubSeq(sent, Len(header) + 1, Len(header) + Len(body)) = body
<1>1. /\ header \in Seq(Pieces) /\ body \in Seq(Pieces) /\ unread \in Seq(Pieces)
      /\ sent = (header \o body) \o unread /\ sent \in Seq(Pieces)
  BY DEF ReaderInv, ReaderType, Arrived
<1>2. /\ Len(header) \in Nat /\ Len(body) \in Nat /\ Len(unread) \in Nat
      /\ DOMAIN header = 1 .. Len(header) /\ DOMAIN sent = 1 .. Len(sent) /\ Len(sent) \in Nat
  BY <1>1, LenProperties
<1> DEFINE taken == header \o body
<1>3. taken \in Seq(Pieces) /\ Len(taken) = Len(header) + Len(body)
  BY <1>1, ConcatProperties
<1>4. \A i \in 1 .. Len(header) + Len(body) :
         taken[i] = IF i <= Len(header) THEN header[i] ELSE body[i - Len(header)]
  BY <1>1, ConcatProperties
<1>5. sent = taken \o unread
  BY <1>1
<1> HIDE DEF taken
<1>6. Len(sent) = Len(taken) + Len(unread)
  BY <1>1, <1>3, <1>5, ConcatProperties
<1>7. \A i \in 1 .. Len(taken) + Len(unread) :
         sent[i] = IF i <= Len(taken) THEN taken[i] ELSE unread[i - Len(taken)]
  BY <1>1, <1>3, <1>5, ConcatProperties
<1> DEFINE h == Len(header)
           b == Len(body)
           u == Len(unread)
<1>8. h \in Nat /\ b \in Nat /\ u \in Nat /\ Len(taken) = h + b /\ Len(sent) = h + b + u
  BY <1>2, <1>3, <1>6
<1>9. \A i \in 1 .. h + b + u :
         sent[i] = IF i <= h + b THEN taken[i] ELSE unread[i - (h + b)]
  BY <1>7, <1>8
<1>10. \A i \in 1 .. h + b : taken[i] = IF i <= h THEN header[i] ELSE body[i - h]
  BY <1>4
<1>11. SubSeq(sent, 1, h) \in Seq(Pieces) /\ Len(SubSeq(sent, 1, h)) = h
       /\ \A i \in 1 .. h : SubSeq(sent, 1, h)[i] = sent[i]
  <2>1. \A i \in 1 .. h : sent[i] \in Pieces
    BY <1>1, <1>2, <1>8, ElementOfSeq
  <2>2. 1 \in Int /\ h \in Int /\ h - 1 + 1 = h
    BY <1>8
  <2> HIDE DEF h
  <2> QED BY <1>8, <2>1, <2>2, SubSeqProperties
<1>12. SubSeq(sent, h + 1, h + b) \in Seq(Pieces) /\ Len(SubSeq(sent, h + 1, h + b)) = b
       /\ \A i \in 1 .. b : SubSeq(sent, h + 1, h + b)[i] = sent[h + i]
  <2>1. \A i \in h + 1 .. h + b : sent[i] \in Pieces
    <3>1. ASSUME NEW i \in h + 1 .. h + b PROVE i \in 1 .. Len(sent)
      <4> HIDE DEF h, b, u
      <4> QED BY <1>8, <3>1
    <3> QED BY <1>1, <3>1, ElementOfSeq, <1>2
  <2> HIDE DEF h, b
  <2> QED BY <1>8, <2>1, SubSeqProperties
<1> HIDE DEF h, b, u
<1>13. \A i \in 1 .. h : sent[i] = header[i]
  BY <1>8, <1>9, <1>10
<1>14. \A i \in 1 .. b : sent[h + i] = body[i]
  <2>1. ASSUME NEW i \in 1 .. b PROVE sent[h + i] = body[i]
    <3> DEFINE m == h + i
    <3>1. m \in 1 .. h + b /\ m \in 1 .. h + b + u /\ ~(m <= h) /\ m - h = i /\ m <= h + b
      BY <1>8
    <3> HIDE DEF m
    <3>2. sent[m] = taken[m]
      BY <1>9, <3>1
    <3>3. taken[m] = body[m - h]
      BY <1>10, <3>1
    <3> QED BY <3>1, <3>2, <3>3 DEF m
  <2> QED BY <2>1
<1>15. SubSeq(sent, 1, h) = header
  <2>1. \A i \in 1 .. h : SubSeq(sent, 1, h)[i] = header[i]
    BY <1>11, <1>13
  <2>2. Len(header) = h
    BY DEF h
  <2> QED BY <1>1, <1>11, <2>1, <2>2, SeqEqual
<1>16. SubSeq(sent, h + 1, h + b) = body
  <2>1. \A i \in 1 .. b : SubSeq(sent, h + 1, h + b)[i] = body[i]
    BY <1>12, <1>14
  <2>2. Len(body) = b
    BY DEF b
  <2> QED BY <1>1, <1>12, <2>1, <2>2, SeqEqual
<1> QED
  BY <1>2, <1>8, <1>13, <1>15, <1>16 DEF h, b
\* The header that was sent ends where the header that was read does.
LEMMA HeaderAsSent ==
  ASSUME ReaderInv, HeaderRead
  PROVE  /\ Ends # {} /\ Min(Ends) = Len(header)
         /\ HeaderOfSent = header
<1>1. /\ DOMAIN sent = 1 .. Len(sent) /\ Len(sent) \in Nat
      /\ Len(header) \in Nat /\ Len(body) \in Nat /\ Len(header) + Len(body) <= Len(sent)
      /\ \A i \in 1 .. Len(header) : sent[i] = header[i]
      /\ SubSeq(sent, 1, Len(header)) = header
  BY ArrivedFacts
<1>2. PICK e \in 1 .. Len(header) : header[e].is = "end"
  BY HeaderReadMeans DEF ReaderInv, ReaderType
<1>3. e = Len(header) /\ \A i \in 1 .. Len(header) : header[i].is = "end" => i = Len(header)
  <2>1. DOMAIN header = 1 .. Len(header)
    BY ArrivedFacts
  <2>2. ASSUME NEW i \in 1 .. Len(header), header[i].is = "end" PROVE i = Len(header)
    <3>1. i \in DOMAIN header
      BY <2>1
    <3> QED BY <2>2, <3>1 DEF ReaderInv, EndIsLast
  <2> QED BY <1>2, <2>2
<1>4. Len(header) \in Ends
  <2>1. sent[Len(header)].is = "end"
    BY <1>1, <1>2, <1>3
  <2>2. Len(header) \in DOMAIN sent
    <3>1. Len(header) \in 1 .. Len(sent)
      BY <1>1, <1>2
    <3> QED BY <1>1, <3>1, Zenon
  <2> QED BY <2>1, <2>2 DEF Ends
<1>5. \A i \in Ends : Len(header) <= i
  <2>1. ASSUME NEW i \in Ends PROVE Len(header) <= i
    <3>1. i \in DOMAIN sent /\ sent[i].is = "end"
      BY DEF Ends
    <3>2. i \in 1 .. Len(sent)
      BY <1>1, <3>1, Zenon
    <3>3. i \in 1 .. Len(header) => i = Len(header)
      BY <1>1, <1>3, <3>1
    <3> HIDE DEF Ends
    <3> QED
      <4>1. Len(header) \in Nat /\ Len(sent) \in Nat
        BY <1>1
      <4> QED BY <3>2, <3>3, <4>1
  <2> QED BY <2>1
<1>6. Ends \in SUBSET (0 .. Len(sent))
  BY <1>1 DEF Ends
<1>7. Min(Ends) \in Ends /\ \A i \in Ends : Min(Ends) <= i
  BY <1>1, <1>4, <1>6, LeastOfBounded
<1>8. Min(Ends) = Len(header)
  <2> DEFINE m == Min(Ends)
             n == Len(header)
  <2>1. m <= n /\ n <= m
    BY <1>4, <1>5, <1>7
  <2>3. m \in Nat /\ n \in Nat
    <3>1. \A S : S \in SUBSET (0 .. Len(sent)) => \A x \in S : x \in Nat
      BY <1>1
    <3> QED BY <1>1, <1>6, <1>7, <3>1
  <2> HIDE DEF m, n
  <2>2. m = n
    BY <2>1, <2>3
  <2> QED BY <2>2 DEF m, n
<1> QED
  BY <1>1, <1>4, <1>8 DEF HeaderOfSent

\* The body that was asked for is the one the last Content-Length declares.
LEMMA DeclaredAsSent ==
  ASSUME ReaderInv, HeaderRead
  PROVE  \/ Declares(ContentLength)
         \/ ContentLength = 0 /\ \A n \in Nat \cap 1 .. Len(sent) : ~Declares(n)
<1>1. header \in Seq(Pieces)
  BY DEF ReaderInv, ReaderType
<1>2. /\ DOMAIN header = 1 .. Len(header) /\ HeaderOfSent = header
      /\ \A i \in 1 .. Len(header) : sent[i] = header[i]
      /\ Len(header) \in Nat
  BY ArrivedFacts, HeaderAsSent
<1>3. CASE Lines("length") = {}
  <2>1. ContentLength = 0
    BY <1>3 DEF ContentLength
  <2>2. ASSUME NEW n, Declares(n) PROVE FALSE
    <3>1. PICK i \in 1 .. Len(header) : sent[i] = [is |-> "length", value |-> n]
      BY <1>2, <2>2 DEF Declares
    <3>2. header[i].is = "length"
      BY <1>2, <3>1
    <3> QED BY <1>2, <1>3, <3>2 DEF Lines
  <2> QED BY <2>1, <2>2
<1>4. CASE Lines("length") # {}
  <2>1. PICK i \in Lines("length") :
           ContentLength = header[i].value /\ \A j \in Lines("length") : j <= i
    BY <1>1, <1>4, DeclaredLength
  <2>2. i \in 1 .. Len(header) /\ header[i].is = "length"
    BY <1>2, <2>1 DEF Lines
  <2>3. header[i] \in Pieces
    BY <1>1, <2>2, ElementOfSeq
  <2>4. sent[i] = [is |-> "length", value |-> ContentLength]
    BY <1>2, <2>1, <2>2, <2>3 DEF Pieces
  <2>5. ASSUME NEW j \in i + 1 .. Len(header) PROVE sent[j].is # "length"
    <3>1. j \in 1 .. Len(header) /\ ~(j <= i)
      BY <1>2, <2>2
    <3>2. j \notin Lines("length")
      BY <2>1, <3>1
    <3> QED BY <1>2, <3>1, <3>2 DEF Lines
  <2> QED BY <1>2, <2>2, <2>4, <2>5 DEF Declares
<1> QED
  BY <1>3, <1>4

LEMMA ReaderHandlesAsSent ==
  ASSUME ReaderInv
  PROVE  HandledAsSent
<1>1. header \in Seq(Pieces) /\ sent \in Seq(Pieces) /\ body \in Seq(Pieces)
  BY DEF ReaderInv, ReaderType
<1>2. /\ DOMAIN sent = 1 .. Len(sent) /\ DOMAIN header = 1 .. Len(header)
      /\ Len(header) \in Nat /\ Len(body) \in Nat /\ Len(sent) \in Nat
      /\ Len(header) + Len(body) <= Len(sent)
      /\ \A i \in 1 .. Len(header) : sent[i] = header[i]
      /\ SubSeq(sent, Len(header) + 1, Len(header) + Len(body)) = body
  BY ArrivedFacts
<1>3. HeaderFacts
  BY <1>1, HeaderIsJudged
<1>4. ASSUME status = 200
      PROVE  /\ Ends # {}
             /\ header = HeaderOfSent
             /\ body = SubSeq(sent, Len(header) + 1, Len(header) + Len(body))
             /\ Declares(Len(body)) \/ (body = <<>> /\ \A n \in Nat \cap 1 .. Len(sent) : ~Declares(n))
             /\ Len(header) <= MAX_HEADER_BYTES + 1 /\ Len(body) <= MAX_BODY_BYTES
  <2>1. HeaderAccepted /\ HeaderRead /\ Len(body) = ContentLength
    BY <1>4 DEF ReaderInv, HeaderAccepted
  <2>2. Len(body) = 0 => body = <<>>
    BY <1>1, EmptySeq
  <2>3. Ends # {} /\ header = HeaderOfSent
    BY <2>1, HeaderAsSent
  <2>4. Declares(Len(body)) \/ (Len(body) = 0 /\ \A n \in Nat \cap 1 .. Len(sent) : ~Declares(n))
    BY <2>1, DeclaredAsSent
  <2>5. Len(header) <= MAX_HEADER_BYTES + 1 /\ Len(body) <= MAX_BODY_BYTES
    BY <1>3, <2>1 DEF HeaderAccepted, HeaderFacts
  <2> QED BY <1>2, <2>2, <2>3, <2>4, <2>5
<1>5. ASSUME status = 413
      PROVE  \/ Ends = {} \/ Min(Ends) > MAX_HEADER_BYTES
             \/ \E i \in DOMAIN sent : sent[i].is = "length" /\ sent[i].value > MAX_BODY_BYTES
  <2>1. CASE ~HeaderRead /\ Len(header) > MAX_HEADER_BYTES /\ Ends # {}
    <3>1. \A i \in 1 .. Len(header) : header[i].is # "end"
      BY <1>1, <2>1, HeaderReadMeans
    <3>2. \A i \in Ends : i \in 1 .. Len(sent) /\ i > Len(header)
      BY <1>2, <3>1 DEF Ends
    <3>3. Ends \in SUBSET (0 .. Len(sent))
      BY <1>2 DEF Ends
    <3>4. Min(Ends) \in Ends
      BY <1>2, <2>1, <3>3, LeastOfBounded
    <3>5. Min(Ends) \in Nat /\ Min(Ends) > Len(header)
      <4>1. Min(Ends) \in 1 .. Len(sent) /\ Min(Ends) > Len(header)
        BY <3>2, <3>4
      <4> QED BY <4>1
    <3> QED BY <1>2, <2>1, <3>5, ReaderAssumption
  <2>2. CASE HeaderRead /\ HeaderStatus = 413
    <3>1. ContentLength > MAX_BODY_BYTES
      BY <1>3, <2>2 DEF HeaderFacts
    <3>2. Lines("length") # {}
      BY <3>1, ReaderAssumption DEF ContentLength
    <3>3. PICK i \in Lines("length") : ContentLength = header[i].value
      BY <1>1, <3>2, DeclaredLength
    <3>4. i \in 1 .. Len(header) /\ header[i].is = "length"
      BY <1>2, <3>3 DEF Lines
    <3>5. i \in 1 .. Len(sent) /\ sent[i] = header[i]
      BY <1>2, <3>4
    <3> QED BY <1>2, <3>1, <3>3, <3>4, <3>5
  <2> QED BY <1>5, <2>1, <2>2 DEF ReaderInv
<1>6. ASSUME status = 400
      PROVE  \/ socket \in {"closed", "failed"} \/ sent[1].is # "request"
             \/ \E i \in DOMAIN sent : sent[i].is \in {"nocolon", "badlength"}
  <2>1. CASE HeaderRead /\ HeaderStatus = 400
    <3>1. 1 \in 1 .. Len(header)
      BY <1>1, <1>2, <2>1, HeaderReadMeans
    <3>2. sent[1] = header[1]
      BY <1>2, <3>1
    <3>3. ASSUME NEW i \in Lines("nocolon") \cup Lines("badlength")
          PROVE  i \in DOMAIN sent /\ sent[i].is \in {"nocolon", "badlength"}
      <4>1. i \in 1 .. Len(header) /\ header[i].is \in {"nocolon", "badlength"}
        BY <1>2, <3>3 DEF Lines
      <4> QED BY <1>2, <4>1
    <3> QED BY <1>3, <2>1, <3>2, <3>3 DEF HeaderFacts
  <2> QED BY <1>6, <2>1 DEF ReaderInv
<1>7. status = 408 => socket = "silent"
  BY DEF ReaderInv
<1> QED
  BY <1>4, <1>5, <1>6, <1>7 DEF HandledAsSent
-----------------------------------------------------------------------------
(* The text of a connection. *)

Symbols == Letters \cup {"L", "C", "W", "?"}

\* No stop sequence is empty.
RealStops == \A i \in DOMAIN ask.stops : ask.stops[i] # <<>>

\* What the end of the generation put behind the text.
TextTail == IF pc \in {"record", "closed"} THEN flush(Spelled.pending) ELSE <<>>

CutAtStop ==
  \E at \in 0 .. Len(Spelled.text) :
    /\ Cut(Spelled.text, ask.stops, at)
    /\ output = SubSeq(Spelled.text, 1, at) \o TextTail

\* What was passed on of a text that was cut holds no stop sequence.
PassedOnStopFree ==
  \E n \in 0 .. Len(Spelled.text) :
    /\ PassedOn = SubSeq(Spelled.text, 1, n) \o TextTail
    /\ NoStops(SubSeq(Spelled.text, 1, n), ask.stops)

\* Where the connection is, and what has been counted and written.
ControlInv ==
  /\ ask \in Asks
  /\ pc \in {"read", "refuse", "route", "generate", "flush", "record", "closed"}
  /\ pc = "read" <=> status = 0
  /\ pc = "refuse" => status \in {400, 408, 413}
  /\ count \in 0 .. ask.max_tokens
  /\ cut \in BOOLEAN
  /\ client \in {"there", "gone"}
  /\ answer.status \in {0, 200, 204, 400, 404, 405, 408, 413, 415}
  /\ recorded \in {0, 1}
  /\ pc # "closed" => recorded = 0 /\ answer = NoAnswer

TextType ==
  /\ bytes \in Seq(Symbols) /\ pending \in Seq(Symbols) /\ output \in Seq(Symbols)
  /\ streamed \in Seq(Seq(Symbols))

Before == pc \in {"read", "refuse", "route"}

(***************************************************************************)
(* The text's inductive invariant.  What has been decoded is what all bytes*)
(* spell at once, which is what the next token's bytes are decoded behind; *)
(* until a stop sequence is found there is none in it; and when one was    *)
(* found, the text before its last token held none.                        *)
(***************************************************************************)
TextInv ==
  /\ TextType
  /\ Before => bytes = <<>> /\ streamed = <<>> /\ output = <<>> /\ ~cut
  /\ pending = IF pc \in {"record", "closed"} THEN <<>> ELSE Spelled.pending
  /\ pc = "generate" => ~cut
  /\ ~cut => output = Spelled.text \o TextTail /\ PassedOn = output
  /\ RealStops =>
       /\ ~cut => NoStops(Spelled.text, ask.stops)
       /\ cut => CutAtStop /\ PassedOnStopFree

ConnectionInv == ReaderInv /\ ControlInv /\ TextInv

-----------------------------------------------------------------------------
(* The steps. *)

LEMMA SymbolsAreAlphabet == Alphabet(Symbols)
BY DEF Alphabet, Symbols

LEMMA SpelledType ==
  ASSUME TextType
  PROVE  /\ Spelled \in Scanned(Symbols) /\ Len(Spelled.pending) \in 0 .. 2
         /\ Spelled.text \in Seq(Symbols) /\ Spelled.pending \in Seq(Symbols)
<1>1. <<>> \in Seq(Symbols) /\ bytes \in Seq(Symbols)
  BY EmptySeq DEF TextType
<1>2. Spelled \in Scanned(Symbols) /\ Len(Spelled.pending) \in 0 .. 2
  BY <1>1, SymbolsAreAlphabet, PushType DEF Spelled
<1> QED
  BY <1>2 DEF Scanned

LEMMA TailType ==
  ASSUME NEW seq \in Seq(Symbols)
  PROVE  flush(seq) \in Seq(Symbols) /\ (seq = <<>> => flush(seq) = <<>>)
<1>1. <<>> \in Seq(Symbols) /\ <<"?">> \in Seq(Symbols)
  BY EmptySeq DEF Symbols
<1> QED
  BY <1>1 DEF flush

LEMMA AskType ==
  ASSUME ask \in Asks
  PROVE  ask.stops \in Seq(Seq(Symbols)) /\ ask.max_tokens \in Nat
<1>1. ask.stops \in Seq(Seq(Letters \cup {"W", "?"})) /\ ask.max_tokens \in Nat
  BY DEF Asks
<1>2. Seq(Letters \cup {"W", "?"}) \subseteq Seq(Symbols)
  BY SeqMonotonic DEF Symbols
<1>3. Seq(Seq(Letters \cup {"W", "?"})) \subseteq Seq(Seq(Symbols))
  BY <1>2, SeqMonotonic
<1> QED
  BY <1>1, <1>3

LEMMA TokensType ==
  ASSUME NEW token \in Vocabulary
  PROVE  token \in Seq(Symbols)
<1>1. Seq(Letters \cup {"L", "C"}) \subseteq Seq(Symbols)
  BY SeqMonotonic DEF Symbols
<1> QED
  BY <1>1, ConnectionAssumption

\* Wherever a text is cut, it is within it.
LEMMA StopCutType ==
  ASSUME NEW S, NEW whole \in Seq(S), NEW text \in Seq(S), NEW stops \in Seq(Seq(S)),
         StopCut(whole, text, stops) # {}
  PROVE  First(StopCut(whole, text, stops)) \in 0 .. Len(whole)
<1> DEFINE from == trailing_char_boundary_start(whole, MaxStopLen(stops) + ByteLen(text))
           Found(i) == Occurrences(whole, stops[i], from) # {}
           hits == {i \in DOMAIN stops : MaxStopLen(stops) > 0 /\ Found(i)}
           at == Occurrences(whole, stops[First(hits)], from)
<1>1. /\ Len(whole) \in Nat /\ DOMAIN stops = 1 .. Len(stops) /\ Len(stops) \in Nat
  BY LenProperties
<1>2. from \in 0 .. Len(whole)
  <2>1. MaxStopLen(stops) + ByteLen(text) \in Nat
    <3>1. MaxStopLen(stops) \in Nat /\ ByteLen(text) \in Nat
      BY MaxStopLenBounds, ByteLenType
    <3> QED BY <3>1
  <2> HIDE DEF from
  <2> QED BY <2>1, WindowStart DEF from
<1>3. hits # {} /\ StopCut(whole, text, stops) = {First(at)}
  BY DEF StopCut
<1>4. hits \in SUBSET (0 .. Len(stops))
  BY <1>1
<1>5. First(hits) \in hits
  <2> HIDE DEF hits
  <2> QED BY <1>1, <1>3, <1>4, LeastOfBounded
<1>6. at # {} /\ at \in SUBSET (0 .. Len(whole))
  <2>1. at # {}
    BY <1>5
  <2>2. at \in SUBSET (from .. Len(whole))
    BY DEF Occurrences
  <2> HIDE DEF from, at
  <2> QED BY <1>1, <1>2, <2>1, <2>2
<1>7. First(at) \in at
  <2> HIDE DEF at
  <2> QED BY <1>1, <1>6, LeastOfBounded
<1>8. First({First(at)}) = First(at)
  BY DEF First
<1> HIDE DEF at
<1> QED
  BY <1>3, <1>6, <1>7, <1>8
\* Steps keep the control part.
LEMMA ControlKeeps ==
  ASSUME ConnectionInv, [Next]_vars, ReaderInv'
  PROVE  ControlInv'
<1>1. ControlInv /\ ask.max_tokens \in Nat /\ status' \in {0, 200, 400, 408, 413}
  BY AskType DEF ConnectionInv, ControlInv, ReaderInv, ReaderType
<1>2. Refusal(status).status = status
  BY DEF Refusal, NoAnswer
<1>3. ASSUME NEW code PROVE Refusal(code).status = code
  BY DEF Refusal, NoAnswer
<1>4. NoAnswer.status = 0
  BY DEF NoAnswer
<1>5. CASE Read
  BY <1>1, <1>5 DEF Read, ControlInv, ReadRequest, wireVars, textVars
<1>6. CASE Refuse
  BY <1>1, <1>3, <1>4, <1>6 DEF Refuse, Respond, ControlInv, readerVars, textVars
<1>7. CASE RouteOther
  <2>1. /\ \E code \in {200, 204, 400, 404, 405, 415} : Respond(Refusal(code))
        /\ pc = "route"
    BY <1>7 DEF RouteOther
  <2> QED BY <1>1, <1>3, <1>4, <2>1 DEF Respond, ControlInv, readerVars, textVars
<1>8. CASE RouteAnswer
  BY <1>1, <1>8 DEF RouteAnswer, ControlInv, readerVars, textVars, wireVars
<1>9. CASE RouteStream
  <2>1. CASE Respond(Refusal(400))
    BY <1>1, <1>3, <1>4, <1>9, <2>1 DEF RouteStream, Respond, ControlInv, readerVars, textVars
  <2>2. CASE /\ pc' \in {"generate", "closed"}
             /\ UNCHANGED <<readerVars, ask, textVars, client, answer, recorded>>
    BY <1>1, <1>4, <1>9, <2>2 DEF RouteStream, ControlInv, readerVars, textVars
  <2> QED BY <1>9, <2>1, <2>2 DEF RouteStream
<1>10. CASE GenerationFails
  <2>1. /\ pc = "generate" /\ pc' = "closed"
        /\ answer' = answer \/ answer' = Refusal(400)
        /\ UNCHANGED <<readerVars, ask, textVars, client, recorded>>
    BY <1>10 DEF GenerationFails
  <2> QED BY <1>1, <1>3, <1>4, <2>1 DEF ControlInv, readerVars, textVars
<1>11. CASE DecodeToken
  <2>1. /\ pc = "generate" /\ count < ask.max_tokens
        /\ \/ cut' = TRUE /\ pc' = "flush" /\ count' = count
           \/ cut' = cut /\ pc' \in {"generate", "flush"} /\ count' = count + 1
        /\ UNCHANGED <<readerVars, ask, client, answer, recorded>>
    BY <1>11 DEF DecodeToken
  <2>2. count' \in 0 .. ask.max_tokens /\ cut' \in BOOLEAN
    <3> DEFINE max == ask.max_tokens
    <3>1. max \in Nat /\ count \in 0 .. max /\ count < max /\ cut \in BOOLEAN
      BY <1>1, <2>1 DEF ControlInv
    <3>2. (count' = count /\ cut' = TRUE) \/ (count' = count + 1 /\ cut' = cut)
      BY <2>1, Zenon
    <3>4. cut' \in BOOLEAN
      BY <3>1, <3>2, Zenon
    <3> HIDE DEF max
    <3>3. count' \in 0 .. max
      BY <3>1, <3>2
    <3> QED BY <3>3, <3>4 DEF max
  <2> QED BY <1>1, <2>1, <2>2 DEF ControlInv, readerVars
<1>12. CASE DecodeStops
  BY <1>1, <1>12 DEF DecodeStops, ControlInv, readerVars, textVars, wireVars
<1>13. CASE Flush
  <2>1. /\ pc = "flush" /\ pc' = "record"
        /\ UNCHANGED <<readerVars, ask, bytes, count, cut, client, answer, recorded>>
    BY <1>13 DEF Flush
  <2> QED BY <1>1, <1>4, <2>1 DEF ControlInv, readerVars
<1>14. CASE Complete
  <2>1. /\ pc = "record" /\ pc' = "closed" /\ recorded' = recorded + 1
        /\ answer' = answer \/ answer'.status = 200
        /\ UNCHANGED <<readerVars, ask, textVars, client>>
    BY <1>14 DEF Complete
  <2>2. recorded' = 1 /\ answer'.status \in {0, 200}
    BY <1>1, <1>4, <2>1 DEF ControlInv
  <2> QED BY <1>1, <2>1, <2>2 DEF ControlInv, readerVars, textVars
<1>15. CASE ClientLeaves
  BY <1>1, <1>15 DEF ClientLeaves, ControlInv, readerVars, textVars, wireVars
<1>16. CASE UNCHANGED vars
  BY <1>1, <1>16 DEF vars, ControlInv
<1> QED
  BY <1>5, <1>6, <1>7, <1>8, <1>9, <1>10, <1>11, <1>12, <1>13, <1>14, <1>15, <1>16
     DEF Next, ServerStep, Closed

\* What every step does to the reader and the request.
LEMMA ReaderKeeps ==
  ASSUME ReaderInv, [Next]_vars
  PROVE  ReaderInv' /\ ask' = ask
<1>1. CASE Read
  BY <1>1, ReadRequestKeeps DEF Read
<1>2. CASE ~Read
  <2>1. UNCHANGED readerVars /\ ask' = ask
    BY <1>2 DEF Next, ServerStep, vars, readerVars, Refuse, RouteOther, Respond, RouteAnswer,
                RouteStream, GenerationFails, DecodeToken, DecodeStops, Flush, Complete,
                ClientLeaves, Closed
  <2> QED BY <2>1, ReaderUnchanged
<1> QED
  BY <1>1, <1>2
\* A step that leaves the text.
LEMMA TextStays ==
  ASSUME TextInv, ask' = ask, UNCHANGED textVars, TextTail' = TextTail,
         Before' => Before, pc' = "generate" => ~cut,
         pending = IF pc' \in {"record", "closed"} THEN <<>> ELSE Spelled.pending
  PROVE  TextInv'
<1>1. /\ bytes' = bytes /\ pending' = pending /\ output' = output /\ streamed' = streamed
      /\ cut' = cut
  BY DEF textVars
<1>2. /\ Spelled' = Spelled /\ PassedOn' = PassedOn /\ RealStops' = RealStops
      /\ TextType' = TextType
  BY <1>1 DEF Spelled, PassedOn, RealStops, TextType
<1>3. CutAtStop' = CutAtStop /\ PassedOnStopFree' = PassedOnStopFree
  BY <1>1, <1>2 DEF CutAtStop, PassedOnStopFree
<1> QED
  BY <1>1, <1>2, <1>3 DEF TextInv

\* Without bytes there is no text, and nothing is kept.
LEMMA NothingSpelled ==
  ASSUME bytes = <<>>
  PROVE  Spelled = [text |-> <<>>, pending |-> <<>>] /\ TextTail = <<>>
<1>1. Spelled = [text |-> <<>>, pending |-> <<>>]
  BY PushNothing DEF Spelled
<1>2. flush(<<>>) = <<>>
  BY DEF flush
<1> QED
  BY <1>1, <1>2 DEF TextTail

LEMMA PassedOnGrows ==
  ASSUME TextType, NEW text \in Seq(Symbols),
         IF text = <<>> THEN streamed' = streamed ELSE streamed' = Append(streamed, text)
  PROVE  /\ PassedOn' = PassedOn \o text
         /\ PassedOn \in Seq(Symbols) /\ streamed' \in Seq(Seq(Symbols))
<1>1. streamed \in Seq(Seq(Symbols))
  BY DEF TextType
<1>2. /\ FlattenSeq(Append(streamed, text)) = FlattenSeq(streamed) \o text
      /\ FlattenSeq(streamed) \in Seq(Symbols)
  BY <1>1, FlattenAppend
<1>3. Append(streamed, text) \in Seq(Seq(Symbols))
  BY <1>1, AppendProperties
<1>4. FlattenSeq(streamed) \o <<>> = FlattenSeq(streamed)
  BY <1>2, ConcatEmptySeq
<1> QED
  BY <1>1, <1>2, <1>3, <1>4 DEF PassedOn

\* The next token's text follows what all bytes before it spell.
LEMMA TokenIsSpelled ==
  ASSUME TextType, NEW token \in Seq(Symbols), bytes' = bytes \o token, pending = Spelled.pending
  PROVE  /\ Spelled' = Joined(Spelled, push(pending, token))
         /\ push(pending, token) \in Scanned(Symbols)
         /\ bytes' \in Seq(Symbols)
<1>1. bytes \in Seq(Symbols) /\ pending \in Seq(Symbols)
  BY DEF TextType
<1>2. push(<<>>, bytes \o token) = Joined(push(<<>>, bytes), push(push(<<>>, bytes).pending, token))
  BY <1>1, SymbolsAreAlphabet, SplitDoesNotMatter
<1>3. push(pending, token) \in Scanned(Symbols)
  BY <1>1, SymbolsAreAlphabet, PushType
<1>4. bytes' \in Seq(Symbols)
  BY <1>1, ConcatProperties
<1> QED
  BY <1>2, <1>3, <1>4 DEF Spelled

LEMMA DecodeTokenKeeps ==
  ASSUME ConnectionInv, DecodeToken
  PROVE  TextInv'
<1>1. /\ TextInv /\ TextType /\ ask \in Asks /\ pc = "generate" /\ ask' = ask /\ ~cut
      /\ pending = Spelled.pending /\ PassedOn = output
  BY DEF ConnectionInv, ControlInv, TextInv, DecodeToken
<1>2. /\ Spelled.text \in Seq(Symbols) /\ Spelled.pending \in Seq(Symbols)
      /\ Spelled \in Scanned(Symbols)
  BY <1>1, SpelledType
<1>3. output = Spelled.text
  <2>1. output = Spelled.text \o <<>>
    BY <1>1 DEF TextInv, TextTail
  <2> QED BY <1>2, <2>1, ConcatEmptySeq
<1>4. PICK token \in Vocabulary :
         LET pushed == push(pending, token)
             whole  == output \o pushed.text
             at     == StopCut(whole, pushed.text, ask.stops)
         IN  /\ bytes' = bytes \o token
             /\ pending' = pushed.pending
             /\ \/ /\ at # {}
                   /\ output' = SubSeq(whole, 1, First(at)) /\ cut' = TRUE /\ pc' = "flush"
                   /\ streamed' = streamed
                \/ /\ at = {}
                   /\ output' = whole /\ cut' = cut /\ pc' \in {"generate", "flush"}
                   /\ IF pushed.text = <<>> THEN streamed' = streamed
                      ELSE streamed' = Append(streamed, pushed.text)
  BY DEF DecodeToken, OnToken
<1> DEFINE pushed == push(pending, token)
           text == pushed.text
           whole == output \o text
           at == StopCut(whole, text, ask.stops)
<1>5. /\ Spelled' = Joined(Spelled, pushed) /\ pushed \in Scanned(Symbols)
      /\ bytes' \in Seq(Symbols)
  BY <1>1, <1>4, TokensType, TokenIsSpelled
<1>6. pending' = pushed.pending
  BY <1>4
<1>7. \/ /\ at # {}
         /\ output' = SubSeq(whole, 1, First(at)) /\ cut' = TRUE /\ pc' = "flush"
         /\ streamed' = streamed
      \/ /\ at = {}
         /\ output' = whole /\ cut' = cut /\ pc' \in {"generate", "flush"}
         /\ IF text = <<>> THEN streamed' = streamed ELSE streamed' = Append(streamed, text)
  BY <1>4
<1> HIDE DEF pushed
<1>8. /\ text \in Seq(Symbols) /\ pending' \in Seq(Symbols)
      /\ Spelled'.text = whole /\ Spelled'.pending = pending'
  BY <1>3, <1>5, <1>6 DEF Joined, Scanned
<1> HIDE DEF text
<1>9. /\ output \in Seq(Symbols) /\ whole \in Seq(Symbols)
      /\ Len(whole) = Len(output) + Len(text)
      /\ Len(output) \in Nat /\ Len(text) \in Nat
  BY <1>2, <1>3, <1>8, ConcatProperties, LenProperties
<1>10. ask.stops \in Seq(Seq(Symbols))
  BY <1>1, AskType
<1>11. pc' \in {"generate", "flush"} /\ TextTail' = <<>> /\ ~Before'
  BY <1>7 DEF TextTail, Before
<1>12. RealStops' = RealStops
  BY <1>1 DEF RealStops
<1>13. RealStops =>
          /\ at = {} => NoStops(whole, ask.stops)
          /\ at # {} => \E a \in 0 .. Len(whole) : at = {a} /\ Cut(whole, ask.stops, a)
  <2> HAVE RealStops
  <2>1. NoStops(output, ask.stops)
    BY <1>1, <1>3 DEF TextInv
  <2>2. \A i \in DOMAIN ask.stops : ask.stops[i] # <<>>
    BY DEF RealStops
  <2> DEFINE stops == ask.stops
  <2>3. stops \in Seq(Seq(Symbols)) /\ NoStops(output, stops)
        /\ \A i \in DOMAIN stops : stops[i] # <<>>
    BY <1>10, <2>1, <2>2
  <2> SUFFICES /\ StopCut(output \o text, text, stops) = {} => NoStops(output \o text, stops)
               /\ StopCut(output \o text, text, stops) # {} =>
                    \E a \in 0 .. Len(output \o text) :
                      StopCut(output \o text, text, stops) = {a} /\ Cut(output \o text, stops, a)
    OBVIOUS
  <2> HIDE DEF stops
  <2> QED BY <1>8, <1>9, <2>3, StopIsFound
<1>14. CASE at = {}
  <2>1. /\ output' = whole /\ ~cut'
        /\ IF text = <<>> THEN streamed' = streamed ELSE streamed' = Append(streamed, text)
    <3> HIDE DEF whole, at
    <3>1. /\ output' = whole /\ cut' = cut
          /\ IF text = <<>> THEN streamed' = streamed ELSE streamed' = Append(streamed, text)
      BY <1>7, <1>14
    <3> QED BY <1>1, <3>1
  <2> HIDE DEF whole, at
  <2>2. PassedOn' = PassedOn \o text /\ streamed' \in Seq(Seq(Symbols))
    BY <1>1, <1>8, <2>1, PassedOnGrows
  <2>3. PassedOn' = whole
    BY <1>1, <2>2 DEF whole
  <2>4. whole \o <<>> = whole
    BY <1>9, ConcatEmptySeq
  <2>5. TextType'
    BY <1>5, <1>8, <1>9, <2>1, <2>2 DEF TextType
  <2>6. pending' = IF pc' \in {"record", "closed"} THEN <<>> ELSE Spelled'.pending
    BY <1>8, <1>11
  <2>7. output' = Spelled'.text \o TextTail' /\ PassedOn' = output'
    BY <1>8, <1>11, <2>1, <2>3, <2>4
  <2>8. RealStops' => NoStops(Spelled'.text, ask'.stops)
    BY <1>1, <1>8, <1>12, <1>13, <1>14
  <2> QED BY <1>11, <2>1, <2>5, <2>6, <2>7, <2>8 DEF TextInv
<1>15. CASE at # {}
  <2>1. /\ output' = SubSeq(whole, 1, First(at)) /\ cut' = TRUE /\ pc' = "flush"
        /\ streamed' = streamed
    BY <1>7, <1>15, Zenon
  <2>2. First(at) \in 0 .. Len(whole)
    <3> DEFINE stops == ask.stops
    <3>1. stops \in Seq(Seq(Symbols)) /\ StopCut(whole, text, stops) # {}
      BY <1>10, <1>15
    <3> HIDE DEF whole, stops
    <3>2. First(StopCut(whole, text, stops)) \in 0 .. Len(whole)
      BY <1>8, <1>9, <3>1, StopCutType
    <3> QED BY <3>2 DEF stops
  <2>3. RealStops => Cut(whole, ask.stops, First(at))
    <3> HAVE RealStops
    <3>1. PICK a \in 0 .. Len(whole) : at = {a} /\ Cut(whole, ask.stops, a)
      BY <1>13, <1>15
    <3>2. First({a}) = a
      BY DEF First
    <3> HIDE DEF at, whole
    <3> QED BY <3>1, <3>2
  <2>4. SubSeq(whole, 1, Len(output)) = output
    BY <1>8, <1>9, SubSeqOfConcat1, SubSeqFull
  <2> HIDE DEF whole, at
  <2> DEFINE a == First(at)
             n == Len(output)
  <2>5. SubSeq(whole, 1, a) \in Seq(Symbols)
    <3>1. a \in a .. Len(whole)
      BY <1>9, <2>2
    <3> HIDE DEF a
    <3> QED BY <1>9, <2>2, <3>1, PrefixProperties DEF a
  <2>6. TextType'
    BY <1>1, <1>5, <1>8, <2>1, <2>5 DEF TextType
  <2>7. pending' = IF pc' \in {"record", "closed"} THEN <<>> ELSE Spelled'.pending
    BY <1>8, <1>11
  <2>8. SubSeq(whole, 1, a) \o <<>> = SubSeq(whole, 1, a)
    BY <2>5, ConcatEmptySeq
  <2>9. RealStops => CutAtStop'
    <3> HAVE RealStops
    <3>1. Cut(whole, ask'.stops, a) /\ a \in 0 .. Len(whole)
      BY <1>1, <2>2, <2>3
    <3>2. output' = SubSeq(whole, 1, a) \o <<>>
      BY <2>1, <2>8
    <3> QED BY <1>8, <1>11, <3>1, <3>2 DEF CutAtStop
  <2>10. RealStops => PassedOnStopFree'
    <3> HAVE RealStops
    <3>1. PassedOn' = SubSeq(whole, 1, n) \o <<>>
      <4>1. PassedOn' = output /\ output \o <<>> = output
        BY <1>1, <1>9, <2>1, ConcatEmptySeq DEF PassedOn
      <4> QED BY <2>4, <4>1
    <3>2. NoStops(SubSeq(whole, 1, n), ask'.stops)
      BY <1>1, <1>3, <2>4 DEF TextInv
    <3>3. n \in 0 .. Len(whole)
      BY <1>9
    <3> QED BY <1>8, <1>11, <3>1, <3>2, <3>3 DEF PassedOnStopFree
  <2> QED BY <1>11, <1>12, <2>1, <2>6, <2>7, <2>9, <2>10 DEF TextInv
<1> QED
  BY <1>14, <1>15
LEMMA FlushKeeps ==
  ASSUME ConnectionInv, Flush
  PROVE  TextInv'
<1> DEFINE tail == flush(pending)
<1>1. /\ TextInv /\ TextType /\ pc = "flush" /\ pc' = "record" /\ ask' = ask
      /\ bytes' = bytes /\ cut' = cut /\ pending' = <<>>
      /\ pending = Spelled.pending
      /\ output' = output \o tail
      /\ IF tail = <<>> THEN streamed' = streamed ELSE streamed' = Append(streamed, tail)
  BY DEF ConnectionInv, TextInv, Flush, OnToken
<1>2. /\ TextTail = <<>> /\ TextTail' = tail /\ ~Before'
      /\ Spelled' = Spelled /\ RealStops' = RealStops
  BY <1>1 DEF TextTail, Spelled, RealStops, Before
<1>3. pending \in Seq(Symbols) /\ output \in Seq(Symbols) /\ bytes \in Seq(Symbols)
      /\ Spelled.text \in Seq(Symbols)
  BY <1>1, SpelledType DEF TextType
<1>4. tail \in Seq(Symbols)
  BY <1>3, TailType
<1> HIDE DEF tail
<1>5. /\ PassedOn' = PassedOn \o tail /\ PassedOn \in Seq(Symbols)
      /\ streamed' \in Seq(Seq(Symbols))
  BY <1>1, <1>4, PassedOnGrows
<1>6. TextType'
  <2>1. output' \in Seq(Symbols) /\ pending' \in Seq(Symbols)
    BY <1>1, <1>3, <1>4, ConcatProperties, EmptySeq
  <2> QED BY <1>1, <1>3, <1>5, <2>1 DEF TextType
<1>7. ~cut' => output' = Spelled'.text \o TextTail' /\ PassedOn' = output'
  <2> HAVE ~cut'
  <2>1. output = Spelled.text \o <<>> /\ PassedOn = output
    BY <1>1, <1>2 DEF TextInv
  <2>2. output = Spelled.text
    BY <1>3, <2>1, ConcatEmptySeq
  <2> QED BY <1>1, <1>2, <1>5, <2>1, <2>2
<1>8. ASSUME NEW n \in 0 .. Len(Spelled.text)
      PROVE  SubSeq(Spelled.text, 1, n) \o <<>> = SubSeq(Spelled.text, 1, n)
  <2> DEFINE t == Spelled.text
  <2>1. t \in Seq(Symbols) /\ n \in 0 .. Len(t) /\ n \in n .. Len(t)
    BY <1>3, LenProperties
  <2> HIDE DEF t
  <2>2. SubSeq(t, 1, n) \in Seq(Symbols)
    BY <2>1, PrefixProperties
  <2>3. SubSeq(t, 1, n) \o <<>> = SubSeq(t, 1, n)
    BY <2>2, ConcatEmptySeq
  <2> QED BY <2>3 DEF t
<1>9. RealStops /\ cut => CutAtStop'
  <2> HAVE RealStops /\ cut
  <2>1. PICK at \in 0 .. Len(Spelled.text) :
           Cut(Spelled.text, ask.stops, at) /\ output = SubSeq(Spelled.text, 1, at) \o <<>>
    BY <1>1, <1>2 DEF TextInv, CutAtStop
  <2>2. output' = SubSeq(Spelled.text, 1, at) \o tail
    BY <1>1, <1>8, <2>1
  <2> QED BY <1>1, <1>2, <2>1, <2>2 DEF CutAtStop
<1>10. RealStops /\ cut => PassedOnStopFree'
  <2> HAVE RealStops /\ cut
  <2>1. PICK n \in 0 .. Len(Spelled.text) :
           /\ PassedOn = SubSeq(Spelled.text, 1, n) \o <<>>
           /\ NoStops(SubSeq(Spelled.text, 1, n), ask.stops)
    BY <1>1, <1>2 DEF TextInv, PassedOnStopFree
  <2>2. PassedOn' = SubSeq(Spelled.text, 1, n) \o tail
    BY <1>5, <1>8, <2>1
  <2> QED BY <1>1, <1>2, <2>1, <2>2 DEF PassedOnStopFree
<1>11. RealStops /\ ~cut => NoStops(Spelled'.text, ask'.stops)
  BY <1>1, <1>2 DEF TextInv
<1>12. pending' = IF pc' \in {"record", "closed"} THEN <<>> ELSE Spelled'.pending
  BY <1>1
<1> QED
  BY <1>1, <1>2, <1>6, <1>7, <1>9, <1>10, <1>11, <1>12 DEF TextInv

\* A request leaves for its answer before there is any text.
LEMMA EndsWithoutText ==
  ASSUME TextInv, ask' = ask, UNCHANGED textVars, pc' \in {"generate", "closed"},
         Before \/ (pc = "generate" /\ bytes = <<>>)
  PROVE  TextInv'
<1>1. bytes = <<>> /\ ~cut /\ bytes' = <<>>
  BY DEF TextInv, textVars
<1>2. Spelled = [text |-> <<>>, pending |-> <<>>] /\ TextTail = <<>>
  BY <1>1, NothingSpelled
<1>3. TextTail' = <<>>
  <2>1. (bytes = <<>> => Spelled = [text |-> <<>>, pending |-> <<>>] /\ TextTail = <<>>)'
    BY NothingSpelled, PTL
  <2> QED BY <1>1, <2>1
<1>4. pending = <<>>
  BY <1>2 DEF TextInv
<1>5. ~Before'
  BY DEF Before
<1> QED
  BY <1>1, <1>2, <1>3, <1>4, <1>5, TextStays

LEMMA TextKeeps ==
  ASSUME ConnectionInv, [Next]_vars, ask' = ask
  PROVE  TextInv'
<1>1. TextInv
  BY DEF ConnectionInv
<1>2. CASE Read
  <2>1. UNCHANGED textVars /\ pc = "read" /\ pc' \in {"read", "route", "refuse"}
    BY <1>2 DEF Read
  <2>2. TextTail = <<>> /\ TextTail' = <<>> /\ Before
    BY <2>1 DEF TextTail, Before
  <2>3. pending = Spelled.pending
    BY <1>1, <2>1 DEF TextInv
  <2> QED BY <1>1, <2>1, <2>2, <2>3, TextStays
<1>3. CASE Refuse \/ RouteOther \/ RouteAnswer \/ RouteStream
  <2>1. UNCHANGED textVars /\ pc' \in {"generate", "closed"} /\ Before
    BY <1>3 DEF Refuse, RouteOther, Respond, RouteAnswer, RouteStream, Before
  <2> QED BY <1>1, <2>1, EndsWithoutText
<1>4. CASE GenerationFails
  <2>1. UNCHANGED textVars /\ pc' = "closed" /\ pc = "generate" /\ bytes = <<>>
    BY <1>4 DEF GenerationFails
  <2> QED BY <1>1, <2>1, EndsWithoutText
<1>5. CASE DecodeToken
  BY <1>5, DecodeTokenKeeps
<1>6. CASE DecodeStops
  <2>1. UNCHANGED textVars /\ pc = "generate" /\ pc' = "flush"
    BY <1>6 DEF DecodeStops
  <2>2. TextTail = <<>> /\ TextTail' = <<>> /\ ~Before'
    BY <2>1 DEF TextTail, Before
  <2>3. pending = Spelled.pending
    BY <1>1, <2>1 DEF TextInv
  <2> QED BY <1>1, <2>1, <2>2, <2>3, TextStays
<1>7. CASE Flush
  BY <1>7, FlushKeeps
<1>8. CASE Complete
  <2>1. UNCHANGED textVars /\ pc = "record" /\ pc' = "closed"
    BY <1>8 DEF Complete
  <2>2. TextTail' = TextTail /\ ~Before'
    BY <2>1 DEF TextTail, textVars, Spelled, Before
  <2>3. pending = <<>>
    BY <1>1, <2>1 DEF TextInv
  <2> QED BY <1>1, <2>1, <2>2, <2>3, TextStays
<1>9. CASE ClientLeaves \/ UNCHANGED vars
  <2>1. UNCHANGED textVars /\ pc' = pc
    BY <1>9 DEF ClientLeaves, vars, textVars
  <2>2. TextTail' = TextTail /\ Before' = Before
    BY <2>1 DEF TextTail, textVars, Spelled, Before
  <2> QED BY <1>1, <2>1, <2>2, TextStays DEF TextInv
<1> QED
  BY <1>2, <1>3, <1>4, <1>5, <1>6, <1>7, <1>8, <1>9 DEF Next, ServerStep, Closed

LEMMA ConnectionKeeps ==
  ASSUME ConnectionInv, [Next]_vars
  PROVE  ConnectionInv'
<1>1. ReaderInv' /\ ask' = ask
  BY ReaderKeeps DEF ConnectionInv
<1> QED
  BY <1>1, ControlKeeps, TextKeeps DEF ConnectionInv

LEMMA ConnectionStarts ==
  ASSUME Init
  PROVE  ConnectionInv
<1>1. PICK exchange \in Exchanges : InitReader(exchange.pieces) /\ ask = exchange.ask
  BY DEF Init
<1>2. exchange.pieces \in Seq(Pieces) /\ exchange.ask \in Asks
  BY ConnectionAssumption
<1>3. ReaderInv /\ status = 0
  BY <1>1, <1>2, ReaderStarts DEF InitReader
<1>4. /\ pc = "read" /\ bytes = <<>> /\ pending = <<>> /\ output = <<>> /\ streamed = <<>>
      /\ count = 0 /\ cut = FALSE /\ client = "there" /\ answer = NoAnswer /\ recorded = 0
  BY DEF Init
<1>5. ControlInv
  <2>1. ask \in Asks
    BY <1>1, <1>2
  <2>2. count \in 0 .. ask.max_tokens
    BY <1>4, <2>1, AskType
  <2>3. answer.status = 0
    BY <1>4 DEF NoAnswer
  <2> QED BY <1>3, <1>4, <2>1, <2>2, <2>3 DEF ControlInv
<1>6. TextInv
  <2>1. Spelled = [text |-> <<>>, pending |-> <<>>] /\ TextTail = <<>>
    BY <1>4, NothingSpelled
  <2>2. PassedOn = <<>>
    BY <1>4, FlattenEmpty DEF PassedOn
  <2>3. /\ <<>> \in Seq(Symbols) /\ <<>> \in Seq(Seq(Symbols)) /\ <<>> \o <<>> = <<>>
    BY EmptySeq, ConcatEmptySeq
  <2>4. ask.stops \in Seq(Seq(Symbols))
    BY <1>1, <1>2, AskType
  <2>5. RealStops => NoStops(<<>>, ask.stops)
    <3> HAVE RealStops
    <3>1. ASSUME NEW i \in DOMAIN ask.stops PROVE Occurrences(<<>>, ask.stops[i], 0) = {}
      <4> DEFINE stop == ask.stops[i]
      <4>1. stop \in Seq(Symbols) /\ stop # <<>>
        <5>1. i \in 1 .. Len(ask.stops)
          BY <2>4, LenProperties
        <5> QED BY <2>4, <5>1, ElementOfSeq DEF RealStops
      <4> HIDE DEF stop
      <4>2. Len(stop) \in Nat \ {0} /\ Len(<<>>) = 0
        BY <4>1, EmptySeq
      <4>3. Occurrences(<<>>, stop, 0) = {}
        BY <4>2 DEF Occurrences, OccursAt
      <4> QED BY <4>3 DEF stop
    <3> QED BY <3>1 DEF NoStops
  <2>6. Spelled.text = <<>> /\ Spelled.pending = <<>>
    BY <2>1
  <2> QED
    BY <1>4, <2>1, <2>2, <2>3, <2>5, <2>6 DEF TextInv, TextType
<1> QED
  BY <1>3, <1>5, <1>6 DEF ConnectionInv

(***************************************************************************)
(* The inductive invariant holds in every state of every connection.       *)
(***************************************************************************)
THEOREM ConnectionInvariant == Spec => []ConnectionInv
<1>1. Init => ConnectionInv
  BY ConnectionStarts
<1>2. ConnectionInv /\ [Next]_vars => ConnectionInv'
  BY ConnectionKeeps
<1> QED
  BY <1>1, <1>2, PTL DEF Spec

-----------------------------------------------------------------------------
(* Theorems. *)

(***************************************************************************)
(* Type correctness: at most two bytes wait for the rest of a character,   *)
(* no generation exceeds the tokens that were asked for, and a connection  *)
(* appends to the chat history at most once.                               *)
(***************************************************************************)
THEOREM TypeCorrect == Spec => []TypeOK
<1>1. ConnectionInv => TypeOK
  <2> SUFFICES ASSUME ConnectionInv PROVE TypeOK
    OBVIOUS
  <2>1. Len(pending) \in 0 .. 2
    <3>1. Len(Spelled.pending) \in 0 .. 2 /\ Len(<<>>) = 0
      BY SpelledType DEF ConnectionInv, TextInv
    <3> QED BY <3>1 DEF ConnectionInv, TextInv
  <2> QED BY <2>1 DEF ConnectionInv, ReaderInv, ReaderType, ControlInv, TypeOK
<1> QED
  BY <1>1, ConnectionInvariant, PTL

(***************************************************************************)
(* However the bytes of a request arrive, late or not to their end, what   *)
(* is handled is what was sent, and a refusal has its cause.               *)
(***************************************************************************)
THEOREM RequestsHandledAsSent == Spec => []HandledAsSent
<1>1. ConnectionInv => HandledAsSent
  BY ReaderHandlesAsSent DEF ConnectionInv
<1> QED
  BY <1>1, ConnectionInvariant, PTL

(***************************************************************************)
(* However a character is split between tokens, it is decoded once, and    *)
(* what was passed on to the stream is what is returned.                   *)
(***************************************************************************)
THEOREM TextIsDecodedOnce == Spec => []TextDecodedOnce
<1>1. ConnectionInv => TextDecodedOnce
  <2> SUFFICES ASSUME ConnectionInv PROVE TextDecodedOnce
    OBVIOUS
  <2> QED BY DEF ConnectionInv, TextInv, TextDecodedOnce, TextTail
<1> QED
  BY <1>1, ConnectionInvariant, PTL

(***************************************************************************)
(* For every list of stop sequences that are not empty: no text that was   *)
(* kept or passed on holds one, and a text that was cut ends where the     *)
(* first of the list begins.                                               *)
(***************************************************************************)
THEOREM StopSequencesCut == Spec => []StopSequenceCuts
<1>1. ConnectionInv => StopSequenceCuts
  <2> SUFFICES ASSUME ConnectionInv, \A i \in DOMAIN ask.stops : ask.stops[i] # <<>>
               PROVE  /\ ~cut => \A i \in DOMAIN ask.stops : ~HoldsStop(Spelled.text, i)
                      /\ cut =>
                           /\ \E i \in DOMAIN ask.stops :
                                /\ HoldsStop(Spelled.text, i)
                                /\ \A j \in 1 .. i - 1 : ~HoldsStop(Spelled.text, j)
                                /\ LET at == First(Occurrences(Spelled.text, ask.stops[i], 0))
                                   IN  output = WithTail(SubSeq(Spelled.text, 1, at))
                           /\ \E n \in 0 .. Len(Spelled.text) :
                                /\ PassedOn = WithTail(SubSeq(Spelled.text, 1, n))
                                /\ \A j \in DOMAIN ask.stops :
                                     ~HoldsStop(SubSeq(Spelled.text, 1, n), j)
    BY DEF StopSequenceCuts
  <2> DEFINE text == Spelled.text
  <2>1. /\ ~cut => NoStops(text, ask.stops)
        /\ cut => CutAtStop /\ PassedOnStopFree
    BY DEF ConnectionInv, TextInv, RealStops
  <2>2. text \in Seq(Symbols)
    BY SpelledType DEF ConnectionInv, TextInv
  <2>3. ASSUME NEW n \in 0 .. Len(text)
        PROVE  WithTail(SubSeq(text, 1, n)) = SubSeq(text, 1, n) \o TextTail
    <3> HIDE DEF text
    <3>1. n \in n .. Len(text)
      BY <2>2, LenProperties
    <3>2. SubSeq(text, 1, n) \in Seq(Symbols)
      BY <2>2, <3>1, PrefixProperties
    <3>3. SubSeq(text, 1, n) \o <<>> = SubSeq(text, 1, n)
      BY <3>2, ConcatEmptySeq
    <3> QED BY <3>3 DEF WithTail, TextTail
  <2>4. ASSUME ~cut PROVE \A i \in DOMAIN ask.stops : ~HoldsStop(text, i)
    BY <2>1, <2>4 DEF NoStops, HoldsStop
  <2>5. ASSUME cut
        PROVE  \E i \in DOMAIN ask.stops :
                 /\ HoldsStop(text, i)
                 /\ \A j \in 1 .. i - 1 : ~HoldsStop(text, j)
                 /\ LET at == First(Occurrences(text, ask.stops[i], 0))
                    IN  output = WithTail(SubSeq(text, 1, at))
    <3>1. PICK at \in 0 .. Len(text) :
             Cut(text, ask.stops, at) /\ output = SubSeq(text, 1, at) \o TextTail
      BY <2>1, <2>5 DEF CutAtStop
    <3>2. output = WithTail(SubSeq(text, 1, at))
      BY <2>3, <3>1
    <3>3. PICK i \in DOMAIN ask.stops :
             /\ Occurrences(text, ask.stops[i], 0) # {}
             /\ \A j \in 1 .. i - 1 : Occurrences(text, ask.stops[j], 0) = {}
             /\ at = First(Occurrences(text, ask.stops[i], 0))
      BY <3>1 DEF Cut
    <3> HIDE DEF text
    <3> QED BY <3>2, <3>3 DEF HoldsStop
  <2>6. ASSUME cut
        PROVE  \E n \in 0 .. Len(text) :
                 /\ PassedOn = WithTail(SubSeq(text, 1, n))
                 /\ \A j \in DOMAIN ask.stops : ~HoldsStop(SubSeq(text, 1, n), j)
    <3>1. PICK n \in 0 .. Len(text) :
             PassedOn = SubSeq(text, 1, n) \o TextTail /\ NoStops(SubSeq(text, 1, n), ask.stops)
      BY <2>1, <2>6 DEF PassedOnStopFree
    <3>2. PassedOn = WithTail(SubSeq(text, 1, n))
      BY <2>3, <3>1
    <3> HIDE DEF text
    <3> QED BY <3>1, <3>2 DEF NoStops, HoldsStop
  <2> QED BY <2>4, <2>5, <2>6
<1> QED
  BY <1>1, ConnectionInvariant, PTL

-----------------------------------------------------------------------------
(* Streams of events. *)

EventTypes ==
  Opens \cup Closes \cup Within \cup
  {"message_start", "ping", "message_delta", "message_stop", "response.created",
   "response.in_progress", "response.completed", "response.failed", "[DONE]", "role", "delta",
   "finish", "usage", "stream-start", "stream-end", "message-start", "message-end", "done",
   "generated_text", "error"}

Reasons ==
  {"", "tool_use", "max_tokens", "end_turn", "tool_calls", "stop", "TOOL_CALL", "MAX_TOKENS",
   "COMPLETE", "STOP", "error"}

Events ==
  [type : EventTypes, index : Nat, text : Seq(Symbols), calls : Seq(Seq(Symbols)),
   reason : Reasons]

CallStarts == {"tool-call-start"}
BlockStarts == Opens \ CallStarts

CountIn(s, types, n) == Cardinality({i \in 1 .. n : s[i].type \in types})

\* The last block opened up to n has this index.
OpenedAs(s, n, index) ==
  \E o \in 1 .. n : /\ s[o].type \in Opens /\ s[o].index = index
                    /\ \A j \in o + 1 .. n : s[j].type \notin Opens

\* The i-th event is allowed after those before it.
Fits(s, i) ==
  /\ s[i].type \in Opens =>
       /\ CountIn(s, Opens, i - 1) <= CountIn(s, Closes, i - 1)
       /\ s[i].index = CountIn(s, SameKind(s[i].type), i - 1)
  /\ s[i].type \in Closes \cup Within =>
       /\ CountIn(s, Opens, i - 1) > CountIn(s, Closes, i - 1)
       /\ OpenedAs(s, i - 1, s[i].index)

\* Where a stream stands: between blocks, or within the one of this index,
\* behind so many content blocks and calls.
At(blocks, calls) == [open |-> 0, index |-> 0, blocks |-> blocks, calls |-> calls]
In(index, blocks, calls) == [open |-> 1, index |-> index, blocks |-> blocks, calls |-> calls]

\* A stream that has not ended and stands there.
Stream(ends, s, q) ==
  /\ s \in Seq(Events)
  /\ \A i \in 1 .. Len(s) : Fits(s, i) /\ s[i].type \notin ends
  /\ CountIn(s, Opens, Len(s)) = CountIn(s, Closes, Len(s)) + q.open
  /\ CountIn(s, CallStarts, Len(s)) = q.calls
  /\ CountIn(s, BlockStarts, Len(s)) = q.blocks
  /\ q.open = 1 => OpenedAs(s, Len(s), q.index)

\* These events lead any stream that stands at q to q2.
Leads(ends, q, t, q2) ==
  /\ t \in Seq(Events)
  /\ \A s \in Seq(Events) : Stream(ends, s, q) => Stream(ends, s \o t, q2)

LEMMA EventsAppended ==
  ASSUME NEW s \in Seq(Events), NEW e \in Events
  PROVE  /\ Append(s, e) \in Seq(Events) /\ Len(Append(s, e)) = Len(s) + 1 /\ Len(s) \in Nat
         /\ \A i \in 1 .. Len(s) : Append(s, e)[i] = s[i]
         /\ Append(s, e)[Len(s) + 1] = e
BY LenProperties, AppendProperties

LEMMA CountType ==
  ASSUME NEW s, NEW types, NEW n \in Nat
  PROVE  CountIn(s, types, n) \in Nat
<1>1. IsFiniteSet(1 .. n)
  BY FS_Interval
<1>2. {i \in 1 .. n : s[i].type \in types} \subseteq 1 .. n
  OBVIOUS
<1> DEFINE T == {i \in 1 .. n : s[i].type \in types}
<1>3. IsFiniteSet(T)
  BY <1>1, <1>2, FS_Subset
<1> HIDE DEF T
<1>4. Cardinality(T) \in Nat
  BY <1>3, FS_CardinalityType
<1> QED
  BY <1>4 DEF CountIn, T

LEMMA CountStays ==
  ASSUME NEW s \in Seq(Events), NEW e \in Events, NEW types, NEW n \in 0 .. Len(s)
  PROVE  CountIn(Append(s, e), types, n) = CountIn(s, types, n)
<1> DEFINE more == Append(s, e)
<1>1. \A i \in 1 .. n : more[i] = s[i]
  BY EventsAppended
<1> HIDE DEF more
<1>2. {i \in 1 .. n : more[i].type \in types} = {i \in 1 .. n : s[i].type \in types}
  BY <1>1
<1> QED
  BY <1>2 DEF CountIn, more

LEMMA CountGrows ==
  ASSUME NEW s \in Seq(Events), NEW e \in Events, NEW types
  PROVE  /\ e.type \in types =>
              CountIn(Append(s, e), types, Len(s) + 1) = CountIn(s, types, Len(s)) + 1
         /\ e.type \notin types =>
              CountIn(Append(s, e), types, Len(s) + 1) = CountIn(s, types, Len(s))
<1> DEFINE more == Append(s, e)
           n == Len(s)
           T == {i \in 1 .. n : s[i].type \in types}
           U == {i \in 1 .. n + 1 : more[i].type \in types}
<1>1. n \in Nat /\ more[n + 1] = e /\ \A i \in 1 .. n : more[i] = s[i]
  BY EventsAppended
<1>2. IsFiniteSet(T) /\ n + 1 \notin T
  <2>1. IsFiniteSet(1 .. n) /\ T \subseteq 1 .. n
    BY <1>1, FS_Interval
  <2> HIDE DEF T
  <2>2. IsFiniteSet(T)
    BY <2>1, FS_Subset
  <2> QED BY <1>1, <2>1, <2>2
<1> HIDE DEF more, n
<1>3. U = IF e.type \in types THEN T \cup {n + 1} ELSE T
  BY <1>1
<1> HIDE DEF T, U
<1>4. Cardinality(T \cup {n + 1}) = Cardinality(T) + 1
  BY <1>2, FS_AddElement
<1>5. CountIn(more, types, n + 1) = Cardinality(U) /\ CountIn(s, types, n) = Cardinality(T)
  BY DEF CountIn, U, T
<1> QED
  BY <1>3, <1>4, <1>5 DEF more, n

LEMMA OpenedStays ==
  ASSUME NEW s \in Seq(Events), NEW e \in Events, NEW n \in 0 .. Len(s), NEW index,
         OpenedAs(s, n, index)
  PROVE  /\ OpenedAs(Append(s, e), n, index)
         /\ n = Len(s) /\ e.type \notin Opens => OpenedAs(Append(s, e), n + 1, index)
<1> DEFINE more == Append(s, e)
<1>1. /\ Len(s) \in Nat /\ more[Len(s) + 1] = e
      /\ \A i \in 1 .. Len(s) : more[i] = s[i]
  BY EventsAppended
<1> HIDE DEF more
<1>2. PICK o \in 1 .. n : /\ s[o].type \in Opens /\ s[o].index = index
                          /\ \A j \in o + 1 .. n : s[j].type \notin Opens
  BY Zenon DEF OpenedAs
<1>3. more[o].type \in Opens /\ more[o].index = index
  BY <1>1, <1>2
<1>4. \A j \in o + 1 .. n : more[j].type \notin Opens
  BY <1>1, <1>2
<1>5. OpenedAs(more, n, index)
  BY <1>3, <1>4, Zenon DEF OpenedAs
<1>6. ASSUME n = Len(s), e.type \notin Opens
      PROVE  OpenedAs(more, n + 1, index)
  <2>1. \A j \in o + 1 .. n + 1 : more[j].type \notin Opens
    BY <1>1, <1>4, <1>6
  <2>2. o \in 1 .. n + 1
    BY <1>1
  <2> QED BY <1>3, <2>1, <2>2, Zenon DEF OpenedAs
<1> QED
  BY <1>5, <1>6 DEF more

LEMMA FitsStays ==
  ASSUME NEW s \in Seq(Events), NEW e \in Events, NEW i \in 1 .. Len(s), Fits(s, i)
  PROVE  Fits(Append(s, e), i)
<1> DEFINE more == Append(s, e)
<1>1. i - 1 \in 0 .. Len(s) /\ more[i] = s[i]
  BY EventsAppended
<1>2. \A types : CountIn(more, types, i - 1) = CountIn(s, types, i - 1)
  BY <1>1, CountStays
<1>3. OpenedAs(s, i - 1, s[i].index) => OpenedAs(more, i - 1, s[i].index)
  BY <1>1, OpenedStays
<1> HIDE DEF more
<1>4. Fits(more, i)
  BY <1>1, <1>2, <1>3, Zenon DEF Fits
<1> QED
  BY <1>4 DEF more

\* A stream goes on by one event.
LEMMA StreamGrows ==
  ASSUME NEW ends, NEW s, NEW q, Stream(ends, s, q), NEW e \in Events, e.type \notin ends,
         Fits(Append(s, e), Len(s) + 1)
  PROVE  \A i \in 1 .. Len(Append(s, e)) :
           Fits(Append(s, e), i) /\ Append(s, e)[i].type \notin ends
<1>1. s \in Seq(Events) /\ \A i \in 1 .. Len(s) : Fits(s, i) /\ s[i].type \notin ends
  BY DEF Stream
<1> DEFINE more == Append(s, e)
<1>2. /\ Len(more) = Len(s) + 1 /\ Len(s) \in Nat /\ more[Len(s) + 1] = e
      /\ \A i \in 1 .. Len(s) : more[i] = s[i]
  BY <1>1, EventsAppended
<1>3. \A i \in 1 .. Len(s) : Fits(more, i)
  BY <1>1, FitsStays
<1> HIDE DEF more
<1>4. \A i \in 1 .. Len(more) : i \in 1 .. Len(s) \/ i = Len(s) + 1
  BY <1>2
<1>5. Fits(more, Len(s) + 1)
  BY DEF more
<1>6. \A i \in 1 .. Len(more) : Fits(more, i) /\ more[i].type \notin ends
  BY <1>1, <1>2, <1>3, <1>4, <1>5
<1> QED
  BY <1>6 DEF more

\* What an event adds to the number of those of these types.
Adds(e, types) == IF e.type \in types THEN 1 ELSE 0

LEMMA StreamMoves ==
  ASSUME NEW ends, NEW s, NEW q, Stream(ends, s, q), NEW e \in Events, e.type \notin ends,
         Fits(Append(s, e), Len(s) + 1),
         NEW q2, q.open \in Nat, q2.open \in Nat,
         q2.open = q.open + Adds(e, Opens) - Adds(e, Closes),
         q2.calls = q.calls + Adds(e, CallStarts),
         q2.blocks = q.blocks + Adds(e, BlockStarts),
         q2.open = 1 => OpenedAs(Append(s, e), Len(s) + 1, q2.index)
  PROVE  Stream(ends, Append(s, e), q2)
<1> DEFINE more == Append(s, e)
           n == Len(s)
<1>1. s \in Seq(Events)
  BY DEF Stream
<1>2. more \in Seq(Events) /\ Len(more) = n + 1 /\ n \in Nat
  BY <1>1, EventsAppended
<1>3. ASSUME NEW types
      PROVE  /\ CountIn(s, types, n) \in Nat /\ Adds(e, types) \in Nat
             /\ CountIn(more, types, n + 1) = CountIn(s, types, n) + Adds(e, types)
  <2>1. CountIn(s, types, n) \in Nat /\ Adds(e, types) \in Nat
    BY <1>2, CountType DEF Adds
  <2> HIDE DEF more, n
  <2>2. CASE e.type \in types
    <3>1. CountIn(more, types, n + 1) = CountIn(s, types, n) + 1
      BY <1>1, <2>2, CountGrows DEF more, n
    <3>2. Adds(e, types) = 1
      BY <2>2 DEF Adds
    <3> QED BY <2>1, <3>1, <3>2
  <2>3. CASE e.type \notin types
    <3>1. CountIn(more, types, n + 1) = CountIn(s, types, n)
      BY <1>1, <2>3, CountGrows DEF more, n
    <3>2. Adds(e, types) = 0
      BY <2>3 DEF Adds
    <3> QED BY <2>1, <3>1, <3>2
  <2> QED BY <2>1, <2>2, <2>3
<1>4. /\ CountIn(s, Opens, n) = CountIn(s, Closes, n) + q.open
      /\ CountIn(s, CallStarts, n) = q.calls
      /\ CountIn(s, BlockStarts, n) = q.blocks
  BY DEF Stream
<1>5. \A i \in 1 .. Len(more) : Fits(more, i) /\ more[i].type \notin ends
  BY StreamGrows
<1> HIDE DEF more, n
<1>6. CountIn(more, Opens, n + 1) = CountIn(more, Closes, n + 1) + q2.open
  <2>1. /\ CountIn(more, Opens, n + 1) = CountIn(s, Opens, n) + Adds(e, Opens)
        /\ CountIn(s, Opens, n) \in Nat /\ Adds(e, Opens) \in Nat
    BY <1>3
  <2>2. /\ CountIn(more, Closes, n + 1) = CountIn(s, Closes, n) + Adds(e, Closes)
        /\ CountIn(s, Closes, n) \in Nat /\ Adds(e, Closes) \in Nat
    BY <1>3
  <2> QED BY <1>4, <2>1, <2>2
<1>7. /\ CountIn(more, CallStarts, n + 1) = q2.calls
      /\ CountIn(more, BlockStarts, n + 1) = q2.blocks
  BY <1>3, <1>4
<1>8. q2.open = 1 => OpenedAs(more, n + 1, q2.index)
  BY DEF more, n
<1> QED
  BY <1>2, <1>5, <1>6, <1>7, <1>8, Zenon DEF Stream, more

-----------------------------------------------------------------------------
(* What each kind of event does. *)

LEMMA StreamFacts ==
  ASSUME NEW ends, NEW s, NEW q, Stream(ends, s, q), NEW e \in Events
  PROVE  /\ s \in Seq(Events) /\ Len(s) \in Nat
         /\ Append(s, e)[Len(s) + 1] = e
         /\ CountIn(Append(s, e), Opens, Len(s)) = CountIn(Append(s, e), Closes, Len(s)) + q.open
         /\ CountIn(Append(s, e), Opens, Len(s)) \in Nat
         /\ CountIn(Append(s, e), Closes, Len(s)) \in Nat
         /\ CountIn(Append(s, e), CallStarts, Len(s)) = q.calls
         /\ CountIn(Append(s, e), BlockStarts, Len(s)) = q.blocks
         /\ q.open = 1 => OpenedAs(Append(s, e), Len(s), q.index)
         /\ q.open = 1 /\ e.type \notin Opens => OpenedAs(Append(s, e), Len(s) + 1, q.index)
<1>1. /\ s \in Seq(Events)
      /\ CountIn(s, Opens, Len(s)) = CountIn(s, Closes, Len(s)) + q.open
      /\ CountIn(s, CallStarts, Len(s)) = q.calls
      /\ CountIn(s, BlockStarts, Len(s)) = q.blocks
      /\ q.open = 1 => OpenedAs(s, Len(s), q.index)
  BY DEF Stream
<1>2. Len(s) \in Nat /\ Append(s, e)[Len(s) + 1] = e /\ Len(s) \in 0 .. Len(s)
  BY <1>1, EventsAppended
<1>3. \A types : /\ CountIn(Append(s, e), types, Len(s)) = CountIn(s, types, Len(s))
                 /\ CountIn(s, types, Len(s)) \in Nat
  BY <1>1, <1>2, CountStays, CountType
<1>4. q.open = 1 => /\ OpenedAs(Append(s, e), Len(s), q.index)
                    /\ e.type \notin Opens => OpenedAs(Append(s, e), Len(s) + 1, q.index)
  BY <1>1, <1>2, OpenedStays
<1> QED
  BY <1>1, <1>2, <1>3, <1>4

\* Events of no block change nothing.
LEMMA BesideBlocks ==
  ASSUME NEW ends, NEW s, NEW e \in Events, e.type \notin ends,
         e.type \notin Opens \cup Closes \cup Within,
         NEW q, q.open \in Nat, q.blocks \in Nat, q.calls \in Nat, Stream(ends, s, q)
  PROVE  Stream(ends, Append(s, e), q)
<1>1. Append(s, e)[Len(s) + 1] = e
  BY StreamFacts
<1>2. Fits(Append(s, e), Len(s) + 1)
  BY <1>1 DEF Fits
<1>3. q.open = 1 => OpenedAs(Append(s, e), Len(s) + 1, q.index)
  BY StreamFacts
<1>4. Adds(e, Opens) = 0 /\ Adds(e, Closes) = 0
  BY DEF Adds
<1>5. Adds(e, CallStarts) = 0 /\ Adds(e, BlockStarts) = 0
  BY DEF Adds, Opens, CallStarts, BlockStarts
<1>6. /\ q.open = q.open + Adds(e, Opens) - Adds(e, Closes)
      /\ q.calls = q.calls + Adds(e, CallStarts)
      /\ q.blocks = q.blocks + Adds(e, BlockStarts)
  BY <1>4, <1>5
<1> QED
  BY <1>2, <1>3, <1>6, StreamMoves

\* The next content block is opened.
LEMMA BlockOpens ==
  ASSUME NEW ends, NEW s, NEW e \in Events, e.type \notin ends,
         NEW blocks \in Nat, NEW calls \in Nat, Stream(ends, s, At(blocks, calls)),
         e.type \in BlockStarts, e.index = blocks
  PROVE  Stream(ends, Append(s, e), In(blocks, blocks + 1, calls))
<1> DEFINE q  == At(blocks, calls)
           q2 == In(blocks, blocks + 1, calls)
           more == Append(s, e)
           n == Len(s)
<1>1. q.open = 0 /\ q.blocks = blocks /\ q.calls = calls
  BY DEF At
<1>2. q2.open = 1 /\ q2.blocks = blocks + 1 /\ q2.calls = calls /\ q2.index = blocks
  BY DEF In
<1> HIDE DEF q, q2
<1>3. /\ more[n + 1] = e /\ n \in Nat
      /\ CountIn(more, Opens, n) = CountIn(more, Closes, n) + q.open
      /\ CountIn(more, Opens, n) \in Nat /\ CountIn(more, Closes, n) \in Nat
      /\ CountIn(more, BlockStarts, n) = q.blocks
  BY StreamFacts DEF q
<1> HIDE DEF more, n
<1>4. e.type \notin Closes \cup Within
  BY DEF Opens, Closes, Within, BlockStarts, CallStarts
<1>5. SameKind(e.type) = BlockStarts
  BY DEF SameKind, BlockStarts, CallStarts
<1>6. Fits(more, n + 1)
  <2>1. n + 1 - 1 = n
    BY <1>3
  <2>2. CountIn(more, Opens, n) <= CountIn(more, Closes, n)
    BY <1>1, <1>3
  <2> QED BY <1>1, <1>3, <1>4, <1>5, <2>1, <2>2 DEF Fits, CallStarts, BlockStarts
<1>7. OpenedAs(more, n + 1, blocks)
  <2>1. \A j \in n + 1 + 1 .. n + 1 : more[j].type \notin Opens
    BY <1>3
  <2>2. n + 1 \in 1 .. n + 1
    BY <1>3
  <2>3. e.type \in Opens
    BY DEF BlockStarts
  <2> QED BY <1>3, <2>1, <2>2, <2>3, Zenon DEF OpenedAs
<1>8. Adds(e, Opens) = 1 /\ Adds(e, Closes) = 0
  BY <1>4 DEF Adds, BlockStarts
<1>9. Adds(e, CallStarts) = 0 /\ Adds(e, BlockStarts) = 1
  BY DEF Adds, BlockStarts, CallStarts
<1>10. /\ q2.open = q.open + Adds(e, Opens) - Adds(e, Closes)
       /\ q2.calls = q.calls + Adds(e, CallStarts)
       /\ q2.blocks = q.blocks + Adds(e, BlockStarts)
       /\ q.open \in Nat /\ q2.open \in Nat
  BY <1>1, <1>2, <1>8, <1>9
<1>11. Stream(ends, s, q)
  BY DEF q
<1>12. Stream(ends, Append(s, e), q2)
  BY <1>2, <1>6, <1>7, <1>10, <1>11, StreamMoves DEF more, n
<1> QED
  BY <1>12 DEF q2

\* The next call is opened.
LEMMA CallOpens ==
  ASSUME NEW ends, NEW s, NEW e \in Events, e.type \notin ends,
         NEW blocks \in Nat, NEW calls \in Nat, Stream(ends, s, At(blocks, calls)),
         e.type = "tool-call-start", e.index = calls
  PROVE  Stream(ends, Append(s, e), In(calls, blocks, calls + 1))
<1> DEFINE q  == At(blocks, calls)
           q2 == In(calls, blocks, calls + 1)
           more == Append(s, e)
           n == Len(s)
<1>1. q.open = 0 /\ q.blocks = blocks /\ q.calls = calls
  BY DEF At
<1>2. q2.open = 1 /\ q2.blocks = blocks /\ q2.calls = calls + 1 /\ q2.index = calls
  BY DEF In
<1> HIDE DEF q, q2
<1>3. /\ more[n + 1] = e /\ n \in Nat
      /\ CountIn(more, Opens, n) = CountIn(more, Closes, n) + q.open
      /\ CountIn(more, Opens, n) \in Nat /\ CountIn(more, Closes, n) \in Nat
      /\ CountIn(more, CallStarts, n) = q.calls
  BY StreamFacts DEF q
<1> HIDE DEF more, n
<1>4. e.type \notin Closes \cup Within /\ e.type \in Opens
  BY DEF Opens, Closes, Within, BlockStarts, CallStarts
<1>5. SameKind(e.type) = CallStarts
  BY DEF SameKind, BlockStarts, CallStarts
<1>6. Fits(more, n + 1)
  <2>1. n + 1 - 1 = n
    BY <1>3
  <2>2. CountIn(more, Opens, n) <= CountIn(more, Closes, n)
    BY <1>1, <1>3
  <2> QED BY <1>1, <1>3, <1>4, <1>5, <2>1, <2>2 DEF Fits, CallStarts, BlockStarts
<1>7. OpenedAs(more, n + 1, calls)
  <2>1. \A j \in n + 1 + 1 .. n + 1 : more[j].type \notin Opens
    BY <1>3
  <2>2. n + 1 \in 1 .. n + 1
    BY <1>3
  <2> QED BY <1>3, <1>4, <2>1, <2>2, Zenon DEF OpenedAs
<1>8. Adds(e, Opens) = 1 /\ Adds(e, Closes) = 0
  BY <1>4 DEF Adds, BlockStarts
<1>9. Adds(e, CallStarts) = 1 /\ Adds(e, BlockStarts) = 0
  BY DEF Adds, BlockStarts, CallStarts
<1>10. /\ q2.open = q.open + Adds(e, Opens) - Adds(e, Closes)
       /\ q2.calls = q.calls + Adds(e, CallStarts)
       /\ q2.blocks = q.blocks + Adds(e, BlockStarts)
       /\ q.open \in Nat /\ q2.open \in Nat
  BY <1>1, <1>2, <1>8, <1>9
<1>11. Stream(ends, s, q)
  BY DEF q
<1>12. Stream(ends, Append(s, e), q2)
  BY <1>2, <1>6, <1>7, <1>10, <1>11, StreamMoves DEF more, n
<1> QED
  BY <1>12 DEF q2

\* Events within the open block, and its end.
LEMMA InsideBlock ==
  ASSUME NEW ends, NEW s, NEW e \in Events, e.type \notin ends,
         NEW index \in Nat, NEW blocks \in Nat, NEW calls \in Nat,
         Stream(ends, s, In(index, blocks, calls)), e.index = index
  PROVE  /\ e.type \in Within => Stream(ends, Append(s, e), In(index, blocks, calls))
         /\ e.type \in Closes => Stream(ends, Append(s, e), At(blocks, calls))
<1> DEFINE q  == In(index, blocks, calls)
           q2 == At(blocks, calls)
           more == Append(s, e)
           n == Len(s)
<1>1. q.open = 1 /\ q.blocks = blocks /\ q.calls = calls /\ q.index = index
  BY DEF In
<1>2. q2.open = 0 /\ q2.blocks = blocks /\ q2.calls = calls
  BY DEF At
<1> HIDE DEF q, q2
<1>3. /\ more[n + 1] = e /\ n \in Nat
      /\ CountIn(more, Opens, n) = CountIn(more, Closes, n) + q.open
      /\ CountIn(more, Opens, n) \in Nat /\ CountIn(more, Closes, n) \in Nat
      /\ q.open = 1 => OpenedAs(more, n, q.index)
      /\ q.open = 1 /\ e.type \notin Opens => OpenedAs(more, n + 1, q.index)
  BY StreamFacts DEF q
<1> HIDE DEF more, n
<1>4. e.type \in Closes \cup Within => e.type \notin Opens
  BY DEF Opens, Closes, Within, BlockStarts, CallStarts
<1>5. ASSUME e.type \in Closes \cup Within
      PROVE  Fits(more, n + 1)
  <2>1. n + 1 - 1 = n
    BY <1>3
  <2>2. CountIn(more, Opens, n) > CountIn(more, Closes, n)
    BY <1>1, <1>3
  <2>3. OpenedAs(more, n, index)
    BY <1>1, <1>3
  <2> QED BY <1>3, <1>4, <1>5, <2>1, <2>2, <2>3 DEF Fits
<1>6. Stream(ends, s, q)
  BY DEF q
<1>7. ASSUME e.type \in Within
      PROVE  Stream(ends, Append(s, e), q)
  <2>1. Adds(e, Opens) = 0 /\ Adds(e, Closes) = 0
    BY <1>7 DEF Adds, Opens, Closes, Within
  <2>2. Adds(e, CallStarts) = 0 /\ Adds(e, BlockStarts) = 0
    BY <1>7 DEF Adds, Opens, Within, BlockStarts, CallStarts
  <2>3. /\ q.open = q.open + Adds(e, Opens) - Adds(e, Closes)
        /\ q.calls = q.calls + Adds(e, CallStarts)
        /\ q.blocks = q.blocks + Adds(e, BlockStarts)
        /\ q.open \in Nat
    BY <1>1, <2>1, <2>2
  <2>4. OpenedAs(more, n + 1, q.index)
    BY <1>1, <1>3, <1>4, <1>7
  <2> QED BY <1>5, <1>6, <1>7, <2>3, <2>4, StreamMoves DEF more, n
<1>8. ASSUME e.type \in Closes
      PROVE  Stream(ends, Append(s, e), q2)
  <2>1. Adds(e, Opens) = 0 /\ Adds(e, Closes) = 1
    BY <1>8 DEF Adds, Opens, Closes
  <2>2. Adds(e, CallStarts) = 0 /\ Adds(e, BlockStarts) = 0
    BY <1>8 DEF Adds, Opens, Closes, BlockStarts, CallStarts
  <2>3. /\ q2.open = q.open + Adds(e, Opens) - Adds(e, Closes)
        /\ q2.calls = q.calls + Adds(e, CallStarts)
        /\ q2.blocks = q.blocks + Adds(e, BlockStarts)
        /\ q.open \in Nat /\ q2.open \in Nat
    BY <1>1, <1>2, <2>1, <2>2
  <2>4. q2.open = 1 => OpenedAs(more, n + 1, q2.index)
    BY <1>2
  <2> QED BY <1>5, <1>6, <1>8, <2>3, <2>4, StreamMoves DEF more, n
<1> QED
  BY <1>7, <1>8 DEF q, q2

-----------------------------------------------------------------------------
(* Several events. *)

\* What ends a stream belongs to no block.
Apart(ends) == ends \cap (Opens \cup Closes \cup Within) = {}

LEMMA LeadsNothing ==
  ASSUME NEW ends, NEW q
  PROVE  Leads(ends, q, <<>>, q)
<1>1. <<>> \in Seq(Events)
  BY EmptySeq
<1>2. \A s \in Seq(Events) : s \o <<>> = s
  BY ConcatEmptySeq
<1> QED
  BY <1>1, <1>2 DEF Leads

LEMMA LeadsOne ==
  ASSUME NEW ends, NEW q, NEW q2, NEW e \in Events,
         \A s \in Seq(Events) : Stream(ends, s, q) => Stream(ends, Append(s, e), q2)
  PROVE  Leads(ends, q, <<e>>, q2)
<1>1. <<e>> \in Seq(Events)
  OBVIOUS
<1>2. \A s \in Seq(Events) : Append(s, e) = s \o <<e>>
  BY AppendIsConcat
<1> QED
  BY <1>1, <1>2 DEF Leads

LEMMA LeadsJoin ==
  ASSUME NEW ends, NEW q, NEW q1, NEW q2, NEW t, NEW u,
         Leads(ends, q, t, q1), Leads(ends, q1, u, q2)
  PROVE  Leads(ends, q, t \o u, q2)
<1>1. t \in Seq(Events) /\ u \in Seq(Events)
  BY DEF Leads
<1>2. t \o u \in Seq(Events)
  BY <1>1, ConcatProperties
<1>3. ASSUME NEW s \in Seq(Events), Stream(ends, s, q)
      PROVE  Stream(ends, s \o (t \o u), q2)
  <2>1. Stream(ends, s \o t, q1)
    BY <1>3 DEF Leads
  <2>2. s \o t \in Seq(Events)
    BY <1>1, ConcatProperties
  <2>3. Stream(ends, (s \o t) \o u, q2)
    BY <2>1, <2>2 DEF Leads
  <2>4. (s \o t) \o u = s \o (t \o u)
    BY <1>1, Associative
  <2> QED BY <2>3, <2>4
<1> QED
  BY <1>2, <1>3 DEF Leads

LEMMA LeadsOn ==
  ASSUME NEW ends, NEW q, NEW q2, NEW s, NEW t, Stream(ends, s, q), Leads(ends, q, t, q2)
  PROVE  Stream(ends, s \o t, q2) /\ t \in Seq(Events)
BY DEF Leads, Stream

LEMMA LeadsBeside ==
  ASSUME NEW ends, NEW e \in Events, e.type \notin ends \cup Opens \cup Closes \cup Within,
         NEW q, q.open \in Nat, q.blocks \in Nat, q.calls \in Nat
  PROVE  Leads(ends, q, <<e>>, q)
<1>1. \A s \in Seq(Events) : Stream(ends, s, q) => Stream(ends, Append(s, e), q)
  BY BesideBlocks
<1> QED
  BY <1>1, LeadsOne

LEMMA LeadsIntoBlock ==
  ASSUME NEW ends, Apart(ends), NEW e \in Events, NEW blocks \in Nat, NEW calls \in Nat,
         e.type \in Opens \ {"tool-call-start"}, e.index = blocks
  PROVE  Leads(ends, At(blocks, calls), <<e>>, In(blocks, blocks + 1, calls))
<1>1. e.type \notin ends /\ e.type \in BlockStarts
  BY DEF Apart, BlockStarts, CallStarts
<1>2. \A s \in Seq(Events) : Stream(ends, s, At(blocks, calls)) =>
                               Stream(ends, Append(s, e), In(blocks, blocks + 1, calls))
  BY <1>1, BlockOpens
<1> QED
  BY <1>2, LeadsOne

LEMMA LeadsIntoCall ==
  ASSUME NEW ends, Apart(ends), NEW e \in Events, NEW blocks \in Nat, NEW calls \in Nat,
         e.type = "tool-call-start", e.index = calls
  PROVE  Leads(ends, At(blocks, calls), <<e>>, In(calls, blocks, calls + 1))
<1>1. e.type \notin ends
  BY DEF Apart, Opens
<1>2. \A s \in Seq(Events) : Stream(ends, s, At(blocks, calls)) =>
                               Stream(ends, Append(s, e), In(calls, blocks, calls + 1))
  BY <1>1, CallOpens
<1> QED
  BY <1>2, LeadsOne

LEMMA LeadsInside ==
  ASSUME NEW ends, Apart(ends), NEW e \in Events,
         NEW blocks \in Nat, NEW calls \in Nat, NEW index \in Nat, e.index = index
  PROVE  /\ e.type \in Within =>
              Leads(ends, In(index, blocks, calls), <<e>>, In(index, blocks, calls))
         /\ e.type \in Closes =>
              Leads(ends, In(index, blocks, calls), <<e>>, At(blocks, calls))
<1>1. ASSUME e.type \in Within
      PROVE  Leads(ends, In(index, blocks, calls), <<e>>, In(index, blocks, calls))
  <2>1. e.type \notin ends
    BY <1>1 DEF Apart
  <2>2. \A s \in Seq(Events) : Stream(ends, s, In(index, blocks, calls)) =>
                                 Stream(ends, Append(s, e), In(index, blocks, calls))
    BY <1>1, <2>1, InsideBlock
  <2> QED BY <2>2, LeadsOne
<1>2. ASSUME e.type \in Closes
      PROVE  Leads(ends, In(index, blocks, calls), <<e>>, At(blocks, calls))
  <2>1. e.type \notin ends
    BY <1>2 DEF Apart
  <2>2. \A s \in Seq(Events) : Stream(ends, s, In(index, blocks, calls)) =>
                                 Stream(ends, Append(s, e), At(blocks, calls))
    BY <1>2, <2>1, InsideBlock
  <2> QED BY <2>2, LeadsOne
<1> QED
  BY <1>1, <1>2

\* Groups of events, one after the other.
LEMMA LeadsGroups ==
  ASSUME NEW ends, NEW groups \in Seq(Seq(Events)), NEW path,
         \A i \in 1 .. Len(groups) : Leads(ends, path[i - 1], groups[i], path[i])
  PROVE  Leads(ends, path[0], FlattenSeq(groups), path[Len(groups)])
<1> DEFINE n == Len(groups)
           Leading(k) == SubSeq(groups, 1, k)
           Reached(k) == Leads(ends, path[0], FlattenSeq(Leading(k)), path[k])
           Good == {k \in 1 .. n : Reached(k)}
<1>1. n \in Nat
  BY LenProperties
<1>2. Reached(0)
  <2>1. Leading(0) = <<>>
    BY SubSeqEmpty
  <2> QED BY <2>1, FlattenEmpty, LeadsNothing
<1>3. ASSUME NEW k \in 1 .. n, \A j \in 1 .. k - 1 : j \in Good
      PROVE  k \in Good
  <2>1. Reached(k - 1)
    BY <1>1, <1>2, <1>3
  <2>2. Leading(k - 1) \in Seq(Seq(Events)) /\ groups[k] \in Seq(Events)
    <3>1. k - 1 \in 0 .. n /\ 0 \in 0 .. n
      BY <1>1
    <3> QED BY <3>1, PrefixProperties, ElementOfSeq
  <2>3. Leading(k) = Append(Leading(k - 1), groups[k])
    <3>1. \A i \in 1 .. k : groups[i] \in Seq(Events)
      BY <1>1, ElementOfSeq
    <3>2. /\ Leading(k) \in Seq(Seq(Events)) /\ Len(Leading(k)) = k
          /\ \A i \in 1 .. k : Leading(k)[i] = groups[i]
      <4>1. /\ Leading(k) \in Seq(Seq(Events))
            /\ Len(Leading(k)) = IF 1 <= k THEN k - 1 + 1 ELSE 0
            /\ \A i \in 1 .. k - 1 + 1 : Leading(k)[i] = groups[1 + i - 1]
        BY <1>1, <3>1, SubSeqProperties
      <4> QED BY <1>1, <4>1
    <3>3. /\ Len(Leading(k - 1)) = k - 1
          /\ \A i \in 1 .. k - 1 : Leading(k - 1)[i] = groups[i]
      <4>1. /\ Len(Leading(k - 1)) = IF 1 <= k - 1 THEN k - 1 - 1 + 1 ELSE 0
            /\ \A i \in 1 .. k - 1 - 1 + 1 : Leading(k - 1)[i] = groups[1 + i - 1]
        BY <1>1, <3>1, SubSeqProperties
      <4> QED BY <1>1, <4>1
    <3> DEFINE before == Leading(k - 1)
               more == Append(before, groups[k])
    <3>4. /\ more \in Seq(Seq(Events)) /\ Len(more) = k
          /\ \A i \in 1 .. k - 1 : more[i] = groups[i]
          /\ more[k] = groups[k]
      <4> HIDE DEF Leading
      <4>1. /\ more \in Seq(Seq(Events)) /\ Len(more) = Len(before) + 1
            /\ \A i \in 1 .. Len(before) : more[i] = before[i]
            /\ more[Len(before) + 1] = groups[k]
        BY <2>2, AppendProperties
      <4> HIDE DEF more
      <4> QED BY <1>1, <3>3, <4>1
    <3> HIDE DEF more, Leading
    <3>5. \A i \in 1 .. k : more[i] = Leading(k)[i]
      <4>1. \A i \in 1 .. k : i \in 1 .. k - 1 \/ i = k
        BY <1>1
      <4>2. \A i \in 1 .. k : more[i] = groups[i]
        BY <3>4, <4>1
      <4> QED BY <3>2, <4>2
    <3>6. more = Leading(k)
      BY <3>2, <3>4, <3>5, SeqEqual
    <3> QED BY <3>6 DEF more
  <2>4. FlattenSeq(Leading(k)) = FlattenSeq(Leading(k - 1)) \o groups[k]
    BY <2>2, <2>3, FlattenAppend
  <2>5. Leads(ends, path[k - 1], groups[k], path[k])
    BY <1>1
  <2> HIDE DEF Leading
  <2>6. Reached(k)
    BY <2>1, <2>4, <2>5, LeadsJoin
  <2> QED BY <2>6
<1>4. Reached(n)
  <2>1. CASE n = 0
    BY <1>2, <2>1
  <2>2. CASE n # 0
    <3>1. n \in 1 .. n
      BY <1>1, <2>2
    <3> HIDE DEF Good
    <3>2. n \in Good
      BY <1>1, <1>3, <3>1, Upwards
    <3> QED BY <3>2 DEF Good
  <2> QED BY <2>1, <2>2
<1>5. Leading(n) = groups
  <2>1. \A i \in 1 .. n : groups[i] \in Seq(Events)
    BY <1>1, ElementOfSeq
  <2>2. /\ Leading(n) \in Seq(Seq(Events)) /\ Len(Leading(n)) = n
        /\ \A i \in 1 .. n : Leading(n)[i] = groups[i]
    <3>1. /\ Leading(n) \in Seq(Seq(Events))
          /\ Len(Leading(n)) = IF 1 <= n THEN n - 1 + 1 ELSE 0
          /\ \A i \in 1 .. n - 1 + 1 : Leading(n)[i] = groups[1 + i - 1]
      BY <1>1, <2>1, SubSeqProperties
    <3> QED BY <1>1, <3>1
  <2> HIDE DEF Leading
  <2> QED BY <2>2, SeqEqual
<1> QED
  BY <1>4, <1>5

LEMMA Two ==
  ASSUME NEW S, NEW a \in S, NEW b \in S
  PROVE  <<a, b>> = <<a>> \o <<b>> /\ <<a, b>> \in Seq(S)
<1>1. <<a, b>> = Append(<<a>>, b)
  OBVIOUS
<1>2. <<a>> \in Seq(S) /\ <<a, b>> \in Seq(S)
  OBVIOUS
<1> QED
  BY <1>1, <1>2, AppendIsConcat

LEMMA Three ==
  ASSUME NEW S, NEW a \in S, NEW b \in S, NEW c \in S
  PROVE  <<a, b, c>> = (<<a>> \o <<b>>) \o <<c>> /\ <<a, b, c>> \in Seq(S)
<1>1. <<a, b, c>> = <<a, b>> \o <<c>>
  OBVIOUS
<1>2. <<a, b, c>> \in Seq(S)
  OBVIOUS
<1>3. <<a, b>> = <<a>> \o <<b>>
  BY Two
<1> QED
  BY <1>1, <1>2, <1>3

LEMMA KnownTypes ==
  /\ \A type \in {"content_block_start", "output_item.added", "content-start"} :
       type \in EventTypes /\ type \in Opens \ {"tool-call-start"}
  /\ "tool-call-start" \in EventTypes
  /\ \A type \in Closes \cup Within : type \in EventTypes
BY DEF EventTypes, Opens

LEMMA KnownClosers ==
  {"content_block_stop", "output_item.done", "content-end", "tool-call-end"} \subseteq Closes
BY DEF Closes

LEMMA KnownInner ==
  {"content_block_delta", "content_part.added", "output_text.delta", "output_text.done",
   "content_part.done", "function_call_arguments.delta", "function_call_arguments.done",
   "content-delta", "tool-call-delta"} \subseteq Within
BY DEF Within

LEMMA EventType ==
  ASSUME NEW type \in EventTypes, NEW index \in Nat, NEW text \in Seq(Symbols),
         NEW calls \in Seq(Seq(Symbols))
  PROVE  /\ Event(type, index, text, calls) \in Events
         /\ Event(type, index, text, calls).type = type
         /\ Event(type, index, text, calls).index = index
<1>1. "" \in Reasons
  BY DEF Reasons
<1> QED
  BY <1>1 DEF Event, Events

LEMMA TextEventType ==
  ASSUME NEW type \in EventTypes, NEW index \in Nat, NEW text \in Seq(Symbols)
  PROVE  /\ Event(type, index, text, <<>>) \in Events
         /\ Event(type, index, text, <<>>).type = type
         /\ Event(type, index, text, <<>>).index = index
<1> DEFINE calls == <<>>
<1>1. calls \in Seq(Seq(Symbols))
  BY EmptySeq
<1> HIDE DEF calls
<1>2. /\ Event(type, index, text, calls) \in Events
      /\ Event(type, index, text, calls).type = type
      /\ Event(type, index, text, calls).index = index
  BY <1>1, EventType
<1> QED
  BY <1>2 DEF calls

LEMMA CallEventType ==
  ASSUME NEW type \in EventTypes, NEW index \in Nat, NEW calls \in Seq(Seq(Symbols))
  PROVE  /\ Event(type, index, <<>>, calls) \in Events
         /\ Event(type, index, <<>>, calls).type = type
         /\ Event(type, index, <<>>, calls).index = index
<1> DEFINE text == <<>>
<1>1. text \in Seq(Symbols)
  BY EmptySeq
<1> HIDE DEF text
<1>2. /\ Event(type, index, text, calls) \in Events
      /\ Event(type, index, text, calls).type = type
      /\ Event(type, index, text, calls).index = index
  BY <1>1, EventType
<1> QED
  BY <1>2 DEF text

LEMMA MarkType ==
  ASSUME NEW type \in EventTypes, NEW index \in Nat
  PROVE  /\ Mark(type, index) \in Events
         /\ Mark(type, index).type = type /\ Mark(type, index).index = index
<1> DEFINE text == <<>>
<1>1. text \in Seq(Symbols)
  BY EmptySeq
<1>2. Mark(type, index) = Event(type, index, text, <<>>)
  BY DEF Mark
<1> HIDE DEF text
<1> QED
  BY <1>1, <1>2, TextEventType

LEMMA SignalType ==
  ASSUME NEW type \in EventTypes, NEW reason \in Reasons
  PROVE  /\ Signal(type) \in Events /\ Signal(type).type = type
         /\ Finish(type, reason) \in Events /\ Finish(type, reason).type = type
         /\ Finish(type, reason).reason = reason
<1>1. Signal(type) \in Events /\ Signal(type).type = type
  BY MarkType DEF Signal
<1>2. Finish(type, reason) = [Signal(type) EXCEPT !.reason = reason]
  BY DEF Finish
<1> HIDE DEF Signal
<1> QED
  BY <1>1, <1>2 DEF Events

LEMMA BlockLeads ==
  ASSUME NEW ends, Apart(ends), NEW blocks \in Nat, NEW calls \in Nat,
         NEW a \in Events, NEW b \in Events, NEW c \in Events,
         a.type \in Opens \ {"tool-call-start"}, b.type \in Within, c.type \in Closes,
         a.index = blocks, b.index = blocks, c.index = blocks
  PROVE  Leads(ends, At(blocks, calls), <<a, b, c>>, At(blocks + 1, calls))
<1>1. Leads(ends, At(blocks, calls), <<a>>, In(blocks, blocks + 1, calls))
  BY LeadsIntoBlock
<1>2. blocks + 1 \in Nat
  OBVIOUS
<1>3. Leads(ends, In(blocks, blocks + 1, calls), <<b>>, In(blocks, blocks + 1, calls))
  BY <1>2, LeadsInside
<1>4. Leads(ends, In(blocks, blocks + 1, calls), <<c>>, At(blocks + 1, calls))
  BY <1>2, LeadsInside
<1>5. Leads(ends, At(blocks, calls), <<a>> \o <<b>>, In(blocks, blocks + 1, calls))
  BY <1>1, <1>3, LeadsJoin
<1>6. Leads(ends, At(blocks, calls), (<<a>> \o <<b>>) \o <<c>>, At(blocks + 1, calls))
  BY <1>4, <1>5, LeadsJoin
<1>7. <<a, b, c>> = (<<a>> \o <<b>>) \o <<c>>
  BY Three
<1> QED
  BY <1>6, <1>7

LEMMA AnthropicBlockLeads ==
  ASSUME NEW ends, Apart(ends), NEW index \in Nat, NEW text \in Seq(Symbols),
         NEW calls \in Seq(Seq(Symbols))
  PROVE  Leads(ends, At(index, 0), AnthropicBlock(index, text, calls), At(index + 1, 0))
<1> DEFINE a == Mark("content_block_start", index)
           b == Event("content_block_delta", index, text, calls)
           c == Mark("content_block_stop", index)
<1>1. a \in Events /\ a.type = "content_block_start" /\ a.index = index
  BY KnownTypes, KnownClosers, KnownInner, MarkType
<1>2. b \in Events /\ b.type = "content_block_delta" /\ b.index = index
  BY KnownTypes, KnownInner, EventType
<1>3. c \in Events /\ c.type = "content_block_stop" /\ c.index = index
  BY KnownTypes, KnownClosers, KnownInner, MarkType
<1>4. AnthropicBlock(index, text, calls) = <<a, b, c>>
  BY DEF AnthropicBlock
<1> HIDE DEF a, b, c
<1>5. a.type \in Opens \ {"tool-call-start"} /\ b.type \in Within /\ c.type \in Closes
  BY <1>1, <1>2, <1>3 DEF Opens, Within, Closes
<1>6. Leads(ends, At(index, 0), <<a, b, c>>, At(index + 1, 0))
  BY <1>1, <1>2, <1>3, <1>5, BlockLeads
<1> QED
  BY <1>4, <1>6

LEMMA CohereContentLeads ==
  ASSUME NEW ends, Apart(ends), NEW text \in Seq(Symbols)
  PROVE  Leads(ends, At(0, 0), CohereContent(text), At(1, 0))
<1> DEFINE a == Mark("content-start", 0)
           b == Event("content-delta", 0, text, <<>>)
           c == Mark("content-end", 0)
<1>1. a \in Events /\ a.type = "content-start" /\ a.index = 0
  BY KnownTypes, KnownClosers, KnownInner, MarkType
<1>2. b \in Events /\ b.type = "content-delta" /\ b.index = 0
  BY KnownTypes, KnownInner, TextEventType
<1>3. c \in Events /\ c.type = "content-end" /\ c.index = 0
  BY KnownTypes, KnownClosers, KnownInner, MarkType
<1>4. CohereContent(text) = <<a, b, c>>
  BY DEF CohereContent
<1> HIDE DEF a, b, c
<1>5. a.type \in Opens \ {"tool-call-start"} /\ b.type \in Within /\ c.type \in Closes
  BY <1>1, <1>2, <1>3 DEF Opens, Within, Closes
<1>6. Leads(ends, At(0, 0), <<a, b, c>>, At(0 + 1, 0))
  BY <1>1, <1>2, <1>3, <1>5, BlockLeads
<1> QED
  BY <1>4, <1>6

LEMMA CohereCallLeads ==
  ASSUME NEW ends, Apart(ends), NEW blocks \in Nat, NEW index \in Nat, NEW call \in Seq(Symbols)
  PROVE  Leads(ends, At(blocks, index), CohereCall(index, call), At(blocks, index + 1))
<1> DEFINE a == Mark("tool-call-start", index)
           b == Event("tool-call-delta", index, <<>>, <<call>>)
           c == Mark("tool-call-end", index)
<1>1. a \in Events /\ a.type = "tool-call-start" /\ a.index = index
  BY KnownTypes, KnownClosers, KnownInner, MarkType
<1>2. b \in Events /\ b.type = "tool-call-delta" /\ b.index = index
  <2> DEFINE calls == <<call>>
  <2>1. calls \in Seq(Seq(Symbols))
    OBVIOUS
  <2> HIDE DEF calls
  <2>2. LET e == Event("tool-call-delta", index, <<>>, calls)
        IN  e \in Events /\ e.type = "tool-call-delta" /\ e.index = index
    BY <2>1, KnownTypes, KnownInner, CallEventType
  <2> QED BY <2>2 DEF calls
<1>3. c \in Events /\ c.type = "tool-call-end" /\ c.index = index
  BY KnownTypes, KnownClosers, KnownInner, MarkType
<1>4. CohereCall(index, call) = <<a, b, c>>
  BY DEF CohereCall
<1> HIDE DEF a, b, c
<1>5. b.type \in Within /\ c.type \in Closes /\ index + 1 \in Nat
  BY <1>2, <1>3 DEF Within, Closes
<1>6. Leads(ends, At(blocks, index), <<a>>, In(index, blocks, index + 1))
  BY <1>1, LeadsIntoCall
<1>7. Leads(ends, In(index, blocks, index + 1), <<b>>, In(index, blocks, index + 1))
  BY <1>2, <1>5, LeadsInside
<1>8. Leads(ends, In(index, blocks, index + 1), <<c>>, At(blocks, index + 1))
  BY <1>3, <1>5, LeadsInside
<1>9. Leads(ends, At(blocks, index), <<a>> \o <<b>>, In(index, blocks, index + 1))
  BY <1>6, <1>7, LeadsJoin
<1>10. Leads(ends, At(blocks, index), (<<a>> \o <<b>>) \o <<c>>, At(blocks, index + 1))
  BY <1>8, <1>9, LeadsJoin
<1>11. <<a, b, c>> = (<<a>> \o <<b>>) \o <<c>>
  BY <1>1, <1>2, <1>3, Three
<1> QED
  BY <1>4, <1>10, <1>11

LEMMA ResponseStartLeads ==
  ASSUME NEW ends, Apart(ends)
  PROVE  Leads(ends, At(0, 0), write_responses_text_start(0), In(0, 1, 0))
<1> DEFINE a == Mark("output_item.added", 0)
           b == Mark("content_part.added", 0)
<1>1. a \in Events /\ a.type = "output_item.added" /\ a.index = 0
  BY KnownTypes, KnownClosers, KnownInner, MarkType
<1>2. b \in Events /\ b.type = "content_part.added" /\ b.index = 0
  BY KnownTypes, KnownClosers, KnownInner, MarkType
<1>3. write_responses_text_start(0) = <<a, b>>
  BY DEF write_responses_text_start
<1> HIDE DEF a, b
<1>4. a.type \in Opens \ {"tool-call-start"} /\ b.type \in Within
  BY <1>1, <1>2 DEF Opens, Within
<1>5. Leads(ends, At(0, 0), <<a>>, In(0, 0 + 1, 0))
  BY <1>1, <1>4, LeadsIntoBlock
<1>6. Leads(ends, In(0, 1, 0), <<b>>, In(0, 1, 0))
  BY <1>2, <1>4, LeadsInside
<1>7. Leads(ends, At(0, 0), <<a>> \o <<b>>, In(0, 1, 0))
  BY <1>5, <1>6, LeadsJoin
<1>8. <<a, b>> = <<a>> \o <<b>>
  BY <1>1, <1>2, Two
<1> QED
  BY <1>3, <1>7, <1>8

LEMMA ResponseDoneLeads ==
  ASSUME NEW ends, Apart(ends), NEW text \in Seq(Symbols)
  PROVE  Leads(ends, In(0, 1, 0), write_responses_text_done(0, text), At(1, 0))
<1> DEFINE a == Event("output_text.done", 0, text, <<>>)
           b == Mark("content_part.done", 0)
           c == Mark("output_item.done", 0)
<1>1. a \in Events /\ a.type = "output_text.done" /\ a.index = 0
  BY KnownTypes, KnownInner, TextEventType
<1>2. b \in Events /\ b.type = "content_part.done" /\ b.index = 0
  BY KnownTypes, KnownClosers, KnownInner, MarkType
<1>3. c \in Events /\ c.type = "output_item.done" /\ c.index = 0
  BY KnownTypes, KnownClosers, KnownInner, MarkType
<1>4. write_responses_text_done(0, text) = <<a, b, c>>
  BY DEF write_responses_text_done
<1> HIDE DEF a, b, c
<1>5. a.type \in Within /\ b.type \in Within /\ c.type \in Closes
  BY <1>1, <1>2, <1>3 DEF Within, Closes
<1>6. Leads(ends, In(0, 1, 0), <<a>>, In(0, 1, 0))
  BY <1>1, <1>5, LeadsInside
<1>7. Leads(ends, In(0, 1, 0), <<b>>, In(0, 1, 0))
  BY <1>2, <1>5, LeadsInside
<1>8. Leads(ends, In(0, 1, 0), <<c>>, At(1, 0))
  BY <1>3, <1>5, LeadsInside
<1>9. Leads(ends, In(0, 1, 0), <<a>> \o <<b>>, In(0, 1, 0))
  BY <1>6, <1>7, LeadsJoin
<1>10. Leads(ends, In(0, 1, 0), (<<a>> \o <<b>>) \o <<c>>, At(1, 0))
  BY <1>8, <1>9, LeadsJoin
<1>11. <<a, b, c>> = (<<a>> \o <<b>>) \o <<c>>
  BY <1>1, <1>2, <1>3, Three
<1> QED
  BY <1>4, <1>10, <1>11

LEMMA ResponseCallLeads ==
  ASSUME NEW ends, Apart(ends), NEW index \in Nat, NEW call \in Seq(Symbols)
  PROVE  Leads(ends, At(index, 0), ResponseCall(index, call), At(index + 1, 0))
<1> DEFINE a == Mark("output_item.added", index)
           b == Event("function_call_arguments.delta", index, <<>>, <<call>>)
           c == Mark("function_call_arguments.done", index)
           d == Mark("output_item.done", index)
<1>1. a \in Events /\ a.type = "output_item.added" /\ a.index = index
  BY KnownTypes, KnownClosers, KnownInner, MarkType
<1>2. b \in Events /\ b.type = "function_call_arguments.delta" /\ b.index = index
  <2> DEFINE calls == <<call>>
  <2>1. calls \in Seq(Seq(Symbols))
    OBVIOUS
  <2> HIDE DEF calls
  <2>2. LET e == Event("function_call_arguments.delta", index, <<>>, calls)
        IN  e \in Events /\ e.type = "function_call_arguments.delta" /\ e.index = index
    BY <2>1, KnownTypes, KnownInner, CallEventType
  <2> QED BY <2>2 DEF calls
<1>3. c \in Events /\ c.type = "function_call_arguments.done" /\ c.index = index
  BY KnownTypes, KnownClosers, KnownInner, MarkType
<1>4. d \in Events /\ d.type = "output_item.done" /\ d.index = index
  BY KnownTypes, KnownClosers, KnownInner, MarkType
<1>5. ResponseCall(index, call) = <<a, b, c, d>>
  BY DEF ResponseCall
<1> HIDE DEF a, b, c, d
<1>6. /\ a.type \in Opens \ {"tool-call-start"} /\ b.type \in Within /\ c.type \in Within
      /\ d.type \in Closes /\ index + 1 \in Nat
  BY <1>1, <1>2, <1>3, <1>4 DEF Opens, Within, Closes
<1>7. Leads(ends, At(index, 0), <<a>>, In(index, index + 1, 0))
  BY <1>1, <1>6, LeadsIntoBlock
<1>8. Leads(ends, In(index, index + 1, 0), <<b>>, In(index, index + 1, 0))
  BY <1>2, <1>6, LeadsInside
<1>9. Leads(ends, In(index, index + 1, 0), <<c>>, In(index, index + 1, 0))
  BY <1>3, <1>6, LeadsInside
<1>10. Leads(ends, In(index, index + 1, 0), <<d>>, At(index + 1, 0))
  BY <1>4, <1>6, LeadsInside
<1>11. Leads(ends, At(index, 0), <<a>> \o <<b>>, In(index, index + 1, 0))
  BY <1>7, <1>8, LeadsJoin
<1>12. Leads(ends, At(index, 0), (<<a>> \o <<b>>) \o <<c>>, In(index, index + 1, 0))
  BY <1>9, <1>11, LeadsJoin
<1>13. Leads(ends, At(index, 0), ((<<a>> \o <<b>>) \o <<c>>) \o <<d>>, At(index + 1, 0))
  BY <1>10, <1>12, LeadsJoin
<1>14. <<a, b, c, d>> = ((<<a>> \o <<b>>) \o <<c>>) \o <<d>>
  <2>1. a \in Events /\ b \in Events /\ c \in Events /\ d \in Events
    BY <1>1, <1>2, <1>3, <1>4
  <2>2. <<a, b, c, d>> = <<a, b, c>> \o <<d>>
    BY <2>1
  <2>3. <<a, b, c>> = (<<a>> \o <<b>>) \o <<c>>
    BY <2>1, Three
  <2> QED BY <2>2, <2>3
<1> QED
  BY <1>5, <1>13, <1>14

-----------------------------------------------------------------------------
(* Streams that have ended. *)

ReportsErrorIn(s) ==
  \E i \in DOMAIN s : s[i].type \in {"error", "response.failed"} \/ s[i].reason = "error"

\* A whole stream.
Ended(ends, s) ==
  /\ s \in Seq(Events) /\ s # <<>> /\ s[Len(s)].type \in ends
  /\ \A i \in 1 .. Len(s) :
       /\ Fits(s, i)
       /\ s[i].type \in ends =>
            i = Len(s) /\ (ReportsErrorIn(s) \/ ~(CountIn(s, Opens, i) > CountIn(s, Closes, i)))

\* These events end any stream that stands at q.
Completes(ends, q, t) ==
  t \in Seq(Events) /\ \A s \in Seq(Events) : Stream(ends, s, q) => Ended(ends, s \o t)

LEMMA LastEventEnds ==
  ASSUME NEW ends, Apart(ends), NEW s, NEW q, Stream(ends, s, q),
         NEW e \in Events, e.type \in ends,
         q.open = 0 \/ ReportsErrorIn(Append(s, e))
  PROVE  Ended(ends, Append(s, e))
<1> DEFINE more == Append(s, e)
           n == Len(s)
<1>1. s \in Seq(Events) /\ \A i \in 1 .. n : Fits(s, i) /\ s[i].type \notin ends
  BY DEF Stream
<1>2. /\ more \in Seq(Events) /\ Len(more) = n + 1 /\ n \in Nat /\ more[n + 1] = e
      /\ \A i \in 1 .. n : more[i] = s[i]
  BY <1>1, EventsAppended
<1>3. \A i \in 1 .. n : Fits(more, i)
  BY <1>1, FitsStays
<1>4. e.type \notin Opens \cup Closes \cup Within
  BY DEF Apart
<1>5. q.open = 0 => ~(CountIn(more, Opens, n + 1) > CountIn(more, Closes, n + 1))
  <2>1. /\ CountIn(more, Opens, n + 1) = CountIn(s, Opens, n)
        /\ CountIn(more, Closes, n + 1) = CountIn(s, Closes, n)
    BY <1>1, <1>4, CountGrows
  <2>2. CountIn(s, Opens, n) = CountIn(s, Closes, n) + q.open
    BY DEF Stream
  <2>3. CountIn(s, Closes, n) \in Nat
    BY <1>2, CountType
  <2> HIDE DEF more, n
  <2> QED BY <2>1, <2>2, <2>3
<1>6. more # <<>>
  BY <1>1, AppendProperties
<1> HIDE DEF more, n
<1>7. Fits(more, n + 1)
  BY <1>2, <1>4 DEF Fits
<1>8. \A i \in 1 .. Len(more) : i \in 1 .. n \/ i = n + 1
  BY <1>2
<1>9. q.open = 0 \/ ReportsErrorIn(more)
  BY DEF more
<1>10. \A i \in 1 .. Len(more) :
         /\ Fits(more, i)
         /\ more[i].type \in ends =>
              /\ i = Len(more)
              /\ ReportsErrorIn(more) \/ ~(CountIn(more, Opens, i) > CountIn(more, Closes, i))
  BY <1>1, <1>2, <1>3, <1>5, <1>7, <1>8, <1>9
<1>11. more[Len(more)].type \in ends
  BY <1>2
<1>12. Ended(ends, more)
  BY <1>2, <1>6, <1>10, <1>11, Zenon DEF Ended
<1> QED
  BY <1>12 DEF more

LEMMA CompletesBy ==
  ASSUME NEW ends, Apart(ends), NEW q, NEW q2, NEW t, Leads(ends, q, t, q2),
         NEW e \in Events, e.type \in ends,
         \/ q2.open = 0
         \/ e.type = "error"
         \/ \E i \in 1 .. Len(t) : t[i].type = "response.failed"
  PROVE  Completes(ends, q, t \o <<e>>)
<1>1. t \in Seq(Events) /\ <<e>> \in Seq(Events)
  BY DEF Leads
<1>2. t \o <<e>> \in Seq(Events)
  BY <1>1, ConcatProperties
<1>3. ASSUME NEW s \in Seq(Events), Stream(ends, s, q)
      PROVE  Ended(ends, s \o (t \o <<e>>))
  <2>1. Stream(ends, s \o t, q2)
    BY <1>3 DEF Leads
  <2>2. /\ s \o t \in Seq(Events) /\ Len(s \o t) = Len(s) + Len(t)
        /\ Len(s) \in Nat /\ Len(t) \in Nat
        /\ \A i \in 1 .. Len(s) + Len(t) :
             (s \o t)[i] = IF i <= Len(s) THEN s[i] ELSE t[i - Len(s)]
    BY <1>1, ConcatProperties, LenProperties
  <2> DEFINE part == s \o t
             whole == Append(part, e)
  <2>3. s \o (t \o <<e>>) = whole
    <3>1. whole = part \o <<e>>
      BY <2>2, AppendIsConcat
    <3>2. (s \o t) \o <<e>> = s \o (t \o <<e>>)
      BY <1>1, Associative
    <3> QED BY <3>1, <3>2
  <2>4. /\ whole \in Seq(Events) /\ Len(whole) = Len(part) + 1 /\ Len(part) \in Nat
        /\ whole[Len(part) + 1] = e /\ \A i \in 1 .. Len(part) : whole[i] = part[i]
    BY <2>2, EventsAppended
  <2>5. DOMAIN whole = 1 .. Len(part) + 1
    BY <2>4, LenProperties
  <2> HIDE DEF whole
  <2>6. CASE q2.open = 0
    BY <2>1, <2>3, <2>6, LastEventEnds DEF whole
  <2>7. CASE e.type = "error"
    <3>1. Len(part) + 1 \in DOMAIN whole
      BY <2>4, <2>5
    <3>2. ReportsErrorIn(whole)
      BY <2>4, <2>7, <3>1 DEF ReportsErrorIn
    <3> QED BY <2>1, <2>3, <3>2, LastEventEnds DEF whole
  <2>8. ASSUME NEW i \in 1 .. Len(t), t[i].type = "response.failed"
        PROVE  Ended(ends, whole)
    <3>1. Len(s) + i \in 1 .. Len(part) /\ part[Len(s) + i] = t[i]
      <4>1. /\ Len(s) + i \in 1 .. Len(s) + Len(t) /\ ~(Len(s) + i <= Len(s))
            /\ Len(s) + i - Len(s) = i
        BY <2>2
      <4> QED BY <2>2, <4>1
    <3>2. Len(s) + i \in DOMAIN whole /\ whole[Len(s) + i] = t[i]
      <4> HIDE DEF part
      <4> QED BY <2>4, <2>5, <3>1
    <3>3. ReportsErrorIn(whole)
      BY <2>8, <3>2 DEF ReportsErrorIn
    <3> QED BY <2>1, <3>3, LastEventEnds DEF whole
  <2> QED BY <2>3, <2>6, <2>7, <2>8
<1> QED
  BY <1>2, <1>3 DEF Completes

LEMMA CompletesBesides ==
  ASSUME NEW ends, Apart(ends), NEW q, NEW q2, NEW t, Leads(ends, q, t, q2),
         q2.open = 0, q2.blocks \in Nat, q2.calls \in Nat,
         NEW a \in Events, a.type \notin ends \cup Opens \cup Closes \cup Within,
         NEW e \in Events, e.type \in ends
  PROVE  Completes(ends, q, t \o <<a, e>>)
<1>1. Leads(ends, q2, <<a>>, q2)
  BY LeadsBeside
<1>2. Leads(ends, q, t \o <<a>>, q2)
  BY <1>1, LeadsJoin
<1>3. Completes(ends, q, (t \o <<a>>) \o <<e>>)
  BY <1>2, CompletesBy
<1>4. t \in Seq(Events) /\ <<a>> \in Seq(Events) /\ <<e>> \in Seq(Events)
  BY DEF Leads
<1>5. (t \o <<a>>) \o <<e>> = t \o (<<a>> \o <<e>>)
  BY <1>4, Associative
<1>6. <<a, e>> = <<a>> \o <<e>>
  BY Two
<1> QED
  BY <1>3, <1>5, <1>6

LEMMA CompletesAtOnce ==
  ASSUME NEW ends, Apart(ends), NEW q, NEW e \in Events, e.type \in ends,
         q.open = 0 \/ e.type = "error"
  PROVE  Completes(ends, q, <<e>>)
<1> DEFINE t == <<>>
<1>1. Leads(ends, q, t, q)
  BY LeadsNothing
<1>2. <<e>> \in Seq(Events)
  OBVIOUS
<1>3. t \o <<e>> = <<e>>
  BY <1>2, ConcatEmptySeq
<1> HIDE DEF t
<1>4. Completes(ends, q, t \o <<e>>)
  BY <1>1, CompletesBy
<1> QED
  BY <1>3, <1>4

\* What leads to where a completion begins is part of it.
LEMMA LeadsComplete ==
  ASSUME NEW ends, NEW q, NEW q2, NEW t, NEW u, Leads(ends, q, t, q2), Completes(ends, q2, u)
  PROVE  Completes(ends, q, t \o u)
<1>1. t \in Seq(Events) /\ u \in Seq(Events)
  BY DEF Leads, Completes
<1>2. t \o u \in Seq(Events)
  BY <1>1, ConcatProperties
<1>3. ASSUME NEW s \in Seq(Events), Stream(ends, s, q)
      PROVE  Ended(ends, s \o (t \o u))
  <2>1. Stream(ends, s \o t, q2)
    BY <1>3 DEF Leads
  <2>2. s \o t \in Seq(Events)
    BY <1>1, ConcatProperties
  <2>3. Ended(ends, (s \o t) \o u)
    BY <2>1, <2>2 DEF Completes
  <2>4. (s \o t) \o u = s \o (t \o u)
    BY <1>1, Associative
  <2> QED BY <2>3, <2>4
<1> QED
  BY <1>2, <1>3 DEF Completes

-----------------------------------------------------------------------------
(* The streams of the routes. *)

\* The types that end a stream of this route.
EndsOf(route) ==
  {"[DONE]", "message_stop", "message-end", "stream-end", "done", "generated_text", "error"}
    \cup (IF route = "gemini" THEN {"finish"} ELSE {})

LEMMA EndsApart ==
  ASSUME NEW route
  PROVE  Apart(EndsOf(route))
BY DEF Apart, EndsOf, Opens, Closes, Within

\* Types of no block that do not end a stream.
Beside(route) ==
  {"message_start", "ping", "message_delta", "response.created", "response.in_progress",
   "response.completed", "response.failed", "role", "delta", "usage", "stream-start",
   "message-start"} \cup (IF route = "gemini" THEN {} ELSE {"finish"})

LEMMA BesideTypes ==
  ASSUME NEW route, NEW type \in Beside(route)
  PROVE  type \in EventTypes /\ type \notin EndsOf(route) \cup Opens \cup Closes \cup Within
BY DEF Beside, EndsOf, EventTypes, Opens, Closes, Within

LEMMA EndTypes ==
  ASSUME NEW route, NEW type \in EndsOf(route)
  PROVE  type \in EventTypes
BY DEF EndsOf, EventTypes

\* Where a stream stands while its text comes into being.
Stage(route, tools) ==
  IF route \in {"openai_response", "anthropic", "cohere_v2"} /\ ~tools THEN In(0, 1, 0)
  ELSE At(0, 0)

Stands(q) == q.open \in Nat /\ q.blocks \in Nat /\ q.calls \in Nat

LEMMA PlacesStand ==
  ASSUME NEW index \in Nat, NEW blocks \in Nat, NEW calls \in Nat
  PROVE  /\ Stands(At(blocks, calls)) /\ Stands(In(index, blocks, calls))
         /\ At(blocks, calls).open = 0
BY DEF Stands, At, In

LEMMA StageStands ==
  ASSUME NEW route, NEW tools
  PROVE  Stands(Stage(route, tools))
BY PlacesStand DEF Stage

LEMMA SignalLeads ==
  ASSUME NEW route, NEW type \in Beside(route), NEW q, Stands(q)
  PROVE  Leads(EndsOf(route), q, <<Signal(type)>>, q)
<1> DEFINE e == Signal(type)
           ends == EndsOf(route)
<1>1. type \in EventTypes /\ type \notin ends \cup Opens \cup Closes \cup Within
  BY BesideTypes
<1>2. e \in Events /\ e.type = type
  BY <1>1, MarkType DEF Signal
<1>3. q.open \in Nat /\ q.blocks \in Nat /\ q.calls \in Nat
  BY DEF Stands
<1> HIDE DEF e, ends
<1>4. Leads(ends, q, <<e>>, q)
  BY <1>1, <1>2, <1>3, LeadsBeside
<1> QED
  BY <1>4 DEF e, ends

LEMMA MarkLeads ==
  ASSUME NEW route, NEW type \in Opens \ {"tool-call-start"}, type \in EventTypes
  PROVE  Leads(EndsOf(route), At(0, 0), <<Mark(type, 0)>>, In(0, 1, 0))
<1> DEFINE e == Mark(type, 0)
           ends == EndsOf(route)
<1>1. e \in Events /\ e.type = type /\ e.index = 0
  BY MarkType
<1>2. Apart(ends)
  BY EndsApart
<1> HIDE DEF e, ends
<1>3. Leads(ends, At(0, 0), <<e>>, In(0, 0 + 1, 0))
  BY <1>1, <1>2, LeadsIntoBlock
<1> QED
  BY <1>3 DEF e, ends

LEMMA TwoSignalsLead ==
  ASSUME NEW route, NEW first \in Beside(route), NEW second \in Beside(route)
  PROVE  Leads(EndsOf(route), At(0, 0), <<Signal(first), Signal(second)>>, At(0, 0))
<1> DEFINE a == Signal(first)
           b == Signal(second)
<1>1. Stands(At(0, 0))
  BY PlacesStand
<1>2. Leads(EndsOf(route), At(0, 0), <<a>>, At(0, 0)) /\ Leads(EndsOf(route), At(0, 0), <<b>>, At(0, 0))
  BY <1>1, SignalLeads
<1>3. a \in Events /\ b \in Events
  BY BesideTypes, MarkType DEF Signal
<1> HIDE DEF a, b
<1>4. Leads(EndsOf(route), At(0, 0), <<a>> \o <<b>>, At(0, 0))
  BY <1>2, LeadsJoin
<1>5. <<a, b>> = <<a>> \o <<b>>
  BY <1>3, Two
<1>6. Leads(EndsOf(route), At(0, 0), <<a, b>>, At(0, 0))
  BY <1>4, <1>5
<1> QED
  BY <1>6 DEF a, b

\* What is written before the text opens the block that will hold it, if the
\* text is streamed in one.
LEMMA OpeningLeads ==
  ASSUME NEW route, NEW tools \in BOOLEAN
  PROVE  Leads(EndsOf(route), At(0, 0), Opening(route, tools), Stage(route, tools))
<1> DEFINE ends == EndsOf(route)
<1>0. Stands(At(0, 0)) /\ Apart(ends)
  BY PlacesStand, EndsApart
<1>1. CASE route = "openai_chat"
  <2>1. Opening(route, tools) = <<Signal("role")>> /\ Stage(route, tools) = At(0, 0)
    BY <1>1 DEF Opening, Stage
  <2>2. "role" \in Beside(route)
    BY DEF Beside
  <2> QED BY <1>0, <2>1, <2>2, SignalLeads
<1>2. CASE route = "cohere_v1"
  <2>1. Opening(route, tools) = <<Signal("stream-start")>> /\ Stage(route, tools) = At(0, 0)
    BY <1>2 DEF Opening, Stage
  <2>2. "stream-start" \in Beside(route)
    BY DEF Beside
  <2> QED BY <1>0, <2>1, <2>2, SignalLeads
<1>3. CASE route = "openai_response"
  <2> DEFINE text == IF tools THEN <<>> ELSE write_responses_text_start(0)
             two == <<Signal("response.created"), Signal("response.in_progress")>>
  <2>1. Opening(route, tools) = two \o text
    BY <1>3 DEF Opening, ResponseOpening
  <2>2. Leads(ends, At(0, 0), two, At(0, 0))
    <3>1. "response.created" \in Beside(route) /\ "response.in_progress" \in Beside(route)
      BY DEF Beside
    <3> QED BY <3>1, TwoSignalsLead
  <2>3. Leads(ends, At(0, 0), text, Stage(route, tools))
    <3>1. CASE tools
      <4>1. text = <<>> /\ Stage(route, tools) = At(0, 0)
        BY <3>1 DEF Stage
      <4> QED BY <4>1, LeadsNothing
    <3>2. CASE ~tools
      <4>1. text = write_responses_text_start(0) /\ Stage(route, tools) = In(0, 1, 0)
        BY <1>3, <3>2 DEF Stage
      <4> QED BY <1>0, <4>1, ResponseStartLeads
    <3> QED BY <3>1, <3>2
  <2> HIDE DEF text, two
  <2> QED BY <2>1, <2>2, <2>3, LeadsJoin
<1>4. CASE route = "anthropic"
  <2> DEFINE text == IF tools THEN <<>> ELSE <<Mark("content_block_start", 0)>>
             two == <<Signal("message_start"), Signal("ping")>>
  <2>1. Opening(route, tools) = two \o text
    BY <1>4 DEF Opening, AnthropicOpening
  <2>2. Leads(ends, At(0, 0), two, At(0, 0))
    <3>1. "message_start" \in Beside(route) /\ "ping" \in Beside(route)
      BY DEF Beside
    <3> QED BY <3>1, TwoSignalsLead
  <2>3. Leads(ends, At(0, 0), text, Stage(route, tools))
    <3>1. CASE tools
      <4>1. text = <<>> /\ Stage(route, tools) = At(0, 0)
        BY <3>1 DEF Stage
      <4> QED BY <4>1, LeadsNothing
    <3>2. CASE ~tools
      <4>1. text = <<Mark("content_block_start", 0)>> /\ Stage(route, tools) = In(0, 1, 0)
        BY <1>4, <3>2 DEF Stage
      <4>2. /\ "content_block_start" \in Opens \ {"tool-call-start"}
            /\ "content_block_start" \in EventTypes
        BY KnownTypes
      <4> QED BY <4>1, <4>2, MarkLeads
    <3> QED BY <3>1, <3>2
  <2> HIDE DEF text, two
  <2> QED BY <2>1, <2>2, <2>3, LeadsJoin
<1>5. CASE route = "cohere_v2"
  <2> DEFINE text == IF tools THEN <<>> ELSE <<Mark("content-start", 0)>>
             start == <<Signal("message-start")>>
  <2>1. Opening(route, tools) = start \o text
    BY <1>5 DEF Opening
  <2>2. Leads(ends, At(0, 0), start, At(0, 0))
    <3>1. "message-start" \in Beside(route)
      BY DEF Beside
    <3> QED BY <1>0, <3>1, SignalLeads
  <2>3. Leads(ends, At(0, 0), text, Stage(route, tools))
    <3>1. CASE tools
      <4>1. text = <<>> /\ Stage(route, tools) = At(0, 0)
        BY <3>1 DEF Stage
      <4> QED BY <4>1, LeadsNothing
    <3>2. CASE ~tools
      <4>1. text = <<Mark("content-start", 0)>> /\ Stage(route, tools) = In(0, 1, 0)
        BY <1>5, <3>2 DEF Stage
      <4>2. "content-start" \in Opens \ {"tool-call-start"} /\ "content-start" \in EventTypes
        BY KnownTypes
      <4> QED BY <4>1, <4>2, MarkLeads
    <3> QED BY <3>1, <3>2
  <2> HIDE DEF text, start
  <2> QED BY <2>1, <2>2, <2>3, LeadsJoin
<1>6. CASE route \notin {"openai_chat", "openai_response", "anthropic", "cohere_v1", "cohere_v2"}
  <2>1. Opening(route, tools) = <<>> /\ Stage(route, tools) = At(0, 0)
    BY <1>6 DEF Opening, Stage
  <2> QED BY <2>1, LeadsNothing
<1> QED
  BY <1>1, <1>2, <1>3, <1>4, <1>5, <1>6

\* A text that is passed on stays within its block.
LEMMA DeltaLeads ==
  ASSUME NEW route, NEW n \in Nat, NEW text \in Seq(Symbols)
  PROVE  Leads(EndsOf(route), Stage(route, FALSE), <<Delta(route, n, text)>>, Stage(route, FALSE))
<1> DEFINE e == Delta(route, n, text)
           ends == EndsOf(route)
<1>1. CASE route \in {"openai_response", "anthropic", "cohere_v2"}
  <2>1. PICK type \in {"output_text.delta", "content_block_delta", "content-delta"} :
           e = Event(type, 0, text, <<>>)
    BY <1>1 DEF Delta, AnthropicDelta, ResponseDelta, CohereDelta
  <2>2. type \in Within /\ type \in EventTypes
    BY KnownInner, KnownTypes
  <2>3. e \in Events /\ e.type = type /\ e.index = 0
    BY <2>1, <2>2, TextEventType
  <2>4. Apart(ends)
    BY EndsApart
  <2>5. Stage(route, FALSE) = In(0, 1, 0)
    BY <1>1 DEF Stage
  <2> HIDE DEF e, ends
  <2>6. Leads(ends, In(0, 1, 0), <<e>>, In(0, 1, 0))
    BY <2>2, <2>3, <2>4, LeadsInside
  <2> QED BY <2>5, <2>6 DEF e, ends
<1>2. CASE route \notin {"openai_response", "anthropic", "cohere_v2"}
  <2>1. PICK index \in Nat : e = Event("delta", index, text, <<>>)
    BY <1>2 DEF Delta, ChunkDelta, GenerateStreamDelta
  <2>2. "delta" \in Beside(route)
    BY DEF Beside
  <2>3. "delta" \in EventTypes /\ "delta" \notin ends \cup Opens \cup Closes \cup Within
    BY <2>2, BesideTypes
  <2>4. e \in Events /\ e.type = "delta"
    BY <2>1, <2>3, TextEventType
  <2>5. Stage(route, FALSE) = At(0, 0)
    BY <1>2 DEF Stage
  <2> DEFINE q == At(0, 0)
  <2>6. q.open \in Nat /\ q.blocks \in Nat /\ q.calls \in Nat
    BY DEF At
  <2> HIDE DEF e, ends, q
  <2>7. Leads(ends, q, <<e>>, q)
    BY <2>3, <2>4, <2>6, LeadsBeside
  <2> QED BY <2>5, <2>7 DEF e, ends, q
<1> QED
  BY <1>1, <1>2

LEMMA FunctionIsSeq ==
  ASSUME NEW S, NEW n \in Nat, NEW f \in [1 .. n -> S]
  PROVE  f \in Seq(S) /\ Len(f) = n
OBVIOUS

\* Blocks of calls, numbered on from a place of the stream.
LEMMA BlocksLead ==
  ASSUME NEW ends, NEW calls \in Seq(Seq(Symbols)), NEW groups, NEW path,
         DOMAIN groups = DOMAIN calls,
         \A i \in 1 .. Len(calls) : Leads(ends, path[i - 1], groups[i], path[i]),
         groups = [i \in DOMAIN groups |-> groups[i]]
  PROVE  Leads(ends, path[0], FlattenSeq(groups), path[Len(calls)])
<1> DEFINE n == Len(calls)
<1>1. n \in Nat /\ DOMAIN groups = 1 .. n
  BY LenProperties
<1>2. \A i \in 1 .. n : groups[i] \in Seq(Events)
  BY DEF Leads
<1>3. groups \in [1 .. n -> Seq(Events)]
  BY <1>1, <1>2
<1>4. groups \in Seq(Seq(Events)) /\ Len(groups) = n
  BY <1>1, <1>3, FunctionIsSeq
<1> HIDE DEF n
<1>5. \A i \in 1 .. Len(groups) : Leads(ends, path[i - 1], groups[i], path[i])
  BY <1>4 DEF n
<1>6. Leads(ends, path[0], FlattenSeq(groups), path[Len(groups)])
  BY <1>4, <1>5, LeadsGroups
<1> QED
  BY <1>4, <1>6 DEF n

LEMMA CallSingleton ==
  ASSUME NEW calls \in Seq(Seq(Symbols)), NEW i \in 1 .. Len(calls)
  PROVE  calls[i] \in Seq(Symbols) /\ <<calls[i]>> \in Seq(Seq(Symbols))
<1>1. calls[i] \in Seq(Symbols)
  BY ElementOfSeq
<1> QED
  BY <1>1

LEMMA AnthropicCallsLead ==
  ASSUME NEW ends, Apart(ends), NEW first \in Nat, NEW calls \in Seq(Seq(Symbols))
  PROVE  Leads(ends, At(first, 0),
               FlattenSeq([i \in DOMAIN calls |-> AnthropicBlock(first + i - 1, <<>>, <<calls[i]>>)]),
               At(first + Len(calls), 0))
<1> DEFINE n == Len(calls)
           groups == [i \in DOMAIN calls |-> AnthropicBlock(first + i - 1, <<>>, <<calls[i]>>)]
           path == [i \in 0 .. n |-> At(first + i, 0)]
<1>1. n \in Nat /\ DOMAIN calls = 1 .. n
  BY LenProperties
<1>2. ASSUME NEW i \in 1 .. n
      PROVE  Leads(ends, path[i - 1], groups[i], path[i])
  <2>1. path[i - 1] = At(first + i - 1, 0) /\ path[i] = At(first + i - 1 + 1, 0)
    <3>1. i - 1 \in 0 .. n /\ i \in 0 .. n /\ first + (i - 1) = first + i - 1
          /\ first + i - 1 + 1 = first + i
      BY <1>1
    <3> QED BY <3>1
  <2>2. groups[i] = AnthropicBlock(first + i - 1, <<>>, <<calls[i]>>)
    BY <1>1
  <2> DEFINE index == first + i - 1
             call == <<calls[i]>>
             text == <<>>
  <2>3. index \in Nat /\ call \in Seq(Seq(Symbols)) /\ text \in Seq(Symbols)
    <3>1. index \in Nat
      BY <1>1
    <3>2. call \in Seq(Seq(Symbols))
      BY CallSingleton
    <3>3. text \in Seq(Symbols)
      BY EmptySeq
    <3> HIDE DEF index, call, text
    <3> QED BY <3>1, <3>2, <3>3
  <2> HIDE DEF index, call, text, groups, path
  <2>4. Leads(ends, At(index, 0), AnthropicBlock(index, text, call), At(index + 1, 0))
    BY <2>3, AnthropicBlockLeads
  <2> QED BY <2>1, <2>2, <2>4 DEF index, call, text
<1>3. path[0] = At(first, 0) /\ path[n] = At(first + n, 0)
  BY <1>1
<1>4. DOMAIN groups = DOMAIN calls /\ groups = [i \in DOMAIN groups |-> groups[i]]
  OBVIOUS
<1> HIDE DEF groups, path
<1>5. Leads(ends, path[0], FlattenSeq(groups), path[n])
  BY <1>2, <1>4, BlocksLead
<1> QED
  BY <1>3, <1>5 DEF groups

LEMMA ResponseCallsLead ==
  ASSUME NEW ends, Apart(ends), NEW first \in Nat, NEW calls \in Seq(Seq(Symbols))
  PROVE  Leads(ends, At(first, 0),
               FlattenSeq([i \in DOMAIN calls |-> ResponseCall(first + i - 1, calls[i])]),
               At(first + Len(calls), 0))
<1> DEFINE n == Len(calls)
           groups == [i \in DOMAIN calls |-> ResponseCall(first + i - 1, calls[i])]
           path == [i \in 0 .. n |-> At(first + i, 0)]
<1>1. n \in Nat /\ DOMAIN calls = 1 .. n
  BY LenProperties
<1>2. ASSUME NEW i \in 1 .. n
      PROVE  Leads(ends, path[i - 1], groups[i], path[i])
  <2>1. path[i - 1] = At(first + i - 1, 0) /\ path[i] = At(first + i - 1 + 1, 0)
    <3>1. i - 1 \in 0 .. n /\ i \in 0 .. n /\ first + (i - 1) = first + i - 1
          /\ first + i - 1 + 1 = first + i
      BY <1>1
    <3> QED BY <3>1
  <2>2. groups[i] = ResponseCall(first + i - 1, calls[i])
    BY <1>1
  <2> DEFINE index == first + i - 1
  <2>3. index \in Nat /\ calls[i] \in Seq(Symbols)
    BY <1>1, CallSingleton
  <2> HIDE DEF index, groups, path
  <2>4. Leads(ends, At(index, 0), ResponseCall(index, calls[i]), At(index + 1, 0))
    BY <2>3, ResponseCallLeads
  <2> QED BY <2>1, <2>2, <2>4 DEF index
<1>3. path[0] = At(first, 0) /\ path[n] = At(first + n, 0)
  BY <1>1
<1>4. DOMAIN groups = DOMAIN calls /\ groups = [i \in DOMAIN groups |-> groups[i]]
  OBVIOUS
<1> HIDE DEF groups, path
<1>5. Leads(ends, path[0], FlattenSeq(groups), path[n])
  BY <1>2, <1>4, BlocksLead
<1> QED
  BY <1>3, <1>5 DEF groups

LEMMA CohereCallsLead ==
  ASSUME NEW ends, Apart(ends), NEW blocks \in Nat, NEW calls \in Seq(Seq(Symbols))
  PROVE  Leads(ends, At(blocks, 0),
               FlattenSeq([i \in DOMAIN calls |-> CohereCall(i - 1, calls[i])]),
               At(blocks, Len(calls)))
<1> DEFINE n == Len(calls)
           groups == [i \in DOMAIN calls |-> CohereCall(i - 1, calls[i])]
           path == [i \in 0 .. n |-> At(blocks, i)]
<1>1. n \in Nat /\ DOMAIN calls = 1 .. n
  BY LenProperties
<1>2. ASSUME NEW i \in 1 .. n
      PROVE  Leads(ends, path[i - 1], groups[i], path[i])
  <2>1. path[i - 1] = At(blocks, i - 1) /\ path[i] = At(blocks, i - 1 + 1)
    <3>1. i - 1 \in 0 .. n /\ i \in 0 .. n /\ i - 1 + 1 = i
      BY <1>1
    <3> QED BY <3>1
  <2>2. groups[i] = CohereCall(i - 1, calls[i])
    BY <1>1
  <2> DEFINE index == i - 1
  <2>3. index \in Nat /\ calls[i] \in Seq(Symbols)
    BY <1>1, CallSingleton
  <2> HIDE DEF index, groups, path
  <2>4. Leads(ends, At(blocks, index), CohereCall(index, calls[i]), At(blocks, index + 1))
    BY <2>3, CohereCallLeads
  <2> QED BY <2>1, <2>2, <2>4 DEF index
<1>3. path[0] = At(blocks, 0) /\ path[n] = At(blocks, n)
  BY <1>1
<1>4. DOMAIN groups = DOMAIN calls /\ groups = [i \in DOMAIN groups |-> groups[i]]
  OBVIOUS
<1> HIDE DEF groups, path
<1>5. Leads(ends, path[0], FlattenSeq(groups), path[n])
  BY <1>2, <1>4, BlocksLead
<1> QED
  BY <1>3, <1>5 DEF groups

-----------------------------------------------------------------------------
(* How the streams end. *)

LEMMA ParsedText ==
  ASSUME NEW text \in Seq(Symbols)
  PROVE  /\ parse_mistral_tool_calls(text).prose \in Seq(Symbols)
         /\ parse_mistral_tool_calls(text).calls \in Seq(Seq(Symbols))
BY ParsedType

LEMMA EventLeads ==
  ASSUME NEW route, NEW e \in Events, e.type \in Beside(route), NEW q, Stands(q)
  PROVE  Leads(EndsOf(route), q, <<e>>, q)
<1> DEFINE ends == EndsOf(route)
<1>1. e.type \notin ends \cup Opens \cup Closes \cup Within
  BY BesideTypes
<1>2. q.open \in Nat /\ q.blocks \in Nat /\ q.calls \in Nat
  BY DEF Stands
<1> HIDE DEF ends
<1>3. Leads(ends, q, <<e>>, q)
  BY <1>1, <1>2, LeadsBeside
<1> QED
  BY <1>3 DEF ends

LEMMA FinishType ==
  ASSUME NEW type \in EventTypes, NEW reason \in Reasons
  PROVE  Finish(type, reason) \in Events /\ Finish(type, reason).type = type
BY SignalType

LEMMA ChunkClosingCompletes ==
  ASSUME NEW route \in {"openai_chat", "openai_completion"}, NEW tools \in BOOLEAN,
         NEW result, result.text \in Seq(Symbols), NEW usage \in BOOLEAN
  PROVE  Completes(EndsOf(route), Stage(route, tools), ChunkClosing(tools, result, usage))
<1> DEFINE ends == EndsOf(route)
           parsed == parse_mistral_tool_calls(result.text)
           prose  == parsed.prose
           calls  == parsed.calls
           called == tools /\ calls # <<>>
           q == At(0, 0)
           A == IF tools /\ prose # <<>> THEN <<Event("delta", 0, prose, <<>>)>> ELSE <<>>
           B == IF called THEN <<Event("delta", 0, <<>>, calls)>> ELSE <<>>
           C == <<Finish("finish", IF called THEN "tool_calls" ELSE "stop")>>
           U == IF usage THEN <<Signal("usage")>> ELSE <<>>
<1>1. ChunkClosing(tools, result, usage) = A \o B \o C \o U \o <<Signal("[DONE]")>>
  BY DEF ChunkClosing
<1>2. prose \in Seq(Symbols) /\ calls \in Seq(Seq(Symbols))
  BY ParsedText
<1>3. Stage(route, tools) = q /\ Stands(q) /\ q.open = 0 /\ Apart(ends)
  BY PlacesStand, EndsApart DEF Stage
<1>4. /\ "delta" \in Beside(route) /\ "usage" \in Beside(route) /\ "finish" \in Beside(route)
      /\ "[DONE]" \in ends
  BY DEF Beside, EndsOf
<1>5. "delta" \in EventTypes /\ "finish" \in EventTypes /\ "[DONE]" \in EventTypes
  BY <1>4, BesideTypes, EndTypes
<1> HIDE DEF prose, calls, q
<1>6. Leads(ends, q, A, q)
  <2>1. CASE tools /\ prose # <<>>
    <3>1. Event("delta", 0, prose, <<>>) \in Events /\ Event("delta", 0, prose, <<>>).type = "delta"
      BY <1>2, <1>5, TextEventType
    <3>2. A = <<Event("delta", 0, prose, <<>>)>>
      BY <2>1
    <3> HIDE DEF A
    <3> QED BY <1>3, <1>4, <3>1, <3>2, EventLeads
  <2>2. CASE ~(tools /\ prose # <<>>)
    <3>1. A = <<>>
      BY <2>2
    <3> QED BY <3>1, LeadsNothing
  <2> QED BY <2>1, <2>2
<1>7. Leads(ends, q, B, q)
  <2>1. CASE called
    <3>1. Event("delta", 0, <<>>, calls) \in Events /\ Event("delta", 0, <<>>, calls).type = "delta"
      BY <1>2, <1>5, CallEventType
    <3>2. B = <<Event("delta", 0, <<>>, calls)>>
      BY <2>1
    <3> HIDE DEF B
    <3> QED BY <1>3, <1>4, <3>1, <3>2, EventLeads
  <2>2. CASE ~called
    <3>1. B = <<>>
      BY <2>2
    <3> QED BY <3>1, LeadsNothing
  <2> QED BY <2>1, <2>2
<1>8. Leads(ends, q, C, q)
  <2> DEFINE reason == IF called THEN "tool_calls" ELSE "stop"
  <2>1. reason \in Reasons
    BY DEF Reasons
  <2>2. C = <<Finish("finish", reason)>>
    OBVIOUS
  <2> HIDE DEF reason, C
  <2>3. Finish("finish", reason) \in Events /\ Finish("finish", reason).type = "finish"
    BY <1>5, <2>1, FinishType
  <2> QED BY <1>3, <1>4, <2>2, <2>3, EventLeads
<1>9. Leads(ends, q, U, q)
  <2>1. CASE usage
    BY <1>3, <1>4, <2>1, SignalLeads
  <2>2. CASE ~usage
    BY <2>2, LeadsNothing
  <2> QED BY <2>1, <2>2
<1>10. Signal("[DONE]") \in Events /\ Signal("[DONE]").type = "[DONE]"
  BY <1>5, MarkType DEF Signal
<1> DEFINE e == Signal("[DONE]")
<1> HIDE DEF A, B, C, U, ends, e
<1>11. Leads(ends, q, A \o B \o C \o U, q)
  <2>1. Leads(ends, q, A \o B, q)
    BY <1>6, <1>7, LeadsJoin
  <2>2. Leads(ends, q, A \o B \o C, q)
    BY <1>8, <2>1, LeadsJoin
  <2> QED BY <1>9, <2>2, LeadsJoin
<1>12. Completes(ends, q, (A \o B \o C \o U) \o <<e>>)
  BY <1>3, <1>4, <1>10, <1>11, CompletesBy DEF e
<1> QED
  BY <1>1, <1>3, <1>12 DEF e, ends

LEMMA AnthropicContentLeads ==
  ASSUME NEW ends, Apart(ends), NEW text \in Seq(Symbols), NEW calls \in Seq(Seq(Symbols))
  PROVE  \E blocks \in Nat :
           Leads(ends, At(0, 0), write_anthropic_stream_content(text, calls), At(blocks, 0))
<1> DEFINE prose == IF text # <<>> \/ calls = <<>> THEN AnthropicBlock(0, text, <<>>) ELSE <<>>
           first == IF prose = <<>> THEN 0 ELSE 1
           after == FlattenSeq([i \in DOMAIN calls |->
                                  AnthropicBlock(first + i - 1, <<>>, <<calls[i]>>)])
<1>1. write_anthropic_stream_content(text, calls) = prose \o after
  BY DEF write_anthropic_stream_content
<1>2. Leads(ends, At(0, 0), prose, At(first, 0)) /\ first \in Nat
  <2>1. CASE text # <<>> \/ calls = <<>>
    <3> DEFINE none == <<>>
    <3>1. none \in Seq(Seq(Symbols))
      BY EmptySeq
    <3>2. prose = AnthropicBlock(0, text, none)
      BY <2>1
    <3>3. AnthropicBlock(0, text, none) # <<>>
      BY DEF AnthropicBlock
    <3>4. first = 1
      BY <3>2, <3>3
    <3> HIDE DEF none, prose, first
    <3>5. Leads(ends, At(0, 0), AnthropicBlock(0, text, none), At(0 + 1, 0))
      BY <3>1, AnthropicBlockLeads
    <3> QED BY <3>2, <3>4, <3>5
  <2>2. CASE ~(text # <<>> \/ calls = <<>>)
    <3>1. prose = <<>> /\ first = 0
      BY <2>2
    <3> QED BY <3>1, LeadsNothing
  <2> QED BY <2>1, <2>2
<1>3. Leads(ends, At(first, 0), after, At(first + Len(calls), 0))
  <2> HIDE DEF first
  <2> QED BY <1>2, AnthropicCallsLead
<1>4. first + Len(calls) \in Nat
  <2>1. Len(calls) \in Nat
    BY LenProperties
  <2> HIDE DEF first
  <2> QED BY <1>2, <2>1
<1> HIDE DEF prose, first, after
<1>5. Leads(ends, At(0, 0), prose \o after, At(first + Len(calls), 0))
  BY <1>2, <1>3, LeadsJoin
<1> QED
  BY <1>1, <1>4, <1>5

LEMMA AnthropicClosingCompletes ==
  ASSUME NEW tools \in BOOLEAN, NEW result, result.text \in Seq(Symbols), NEW max_tokens
  PROVE  Completes(EndsOf("anthropic"), Stage("anthropic", tools),
                   AnthropicClosing(tools, result, max_tokens))
<1> DEFINE ends == EndsOf("anthropic")
           parsed == parse_mistral_tool_calls(result.text)
           content == IF tools THEN write_anthropic_stream_content(parsed.prose, parsed.calls)
                      ELSE <<Mark("content_block_stop", 0)>>
           reason == anthropic_stop_reason(result.count, max_tokens, parsed.calls)
           a == Finish("message_delta", reason)
           e == Signal("message_stop")
           q == Stage("anthropic", tools)
<1>1. AnthropicClosing(tools, result, max_tokens) = content \o <<a, e>>
  BY DEF AnthropicClosing
<1>2. parsed.prose \in Seq(Symbols) /\ parsed.calls \in Seq(Seq(Symbols))
  BY ParsedText
<1>3. Apart(ends)
  BY EndsApart
<1>4. "message_delta" \in Beside("anthropic") /\ "message_stop" \in ends
  BY DEF Beside, EndsOf
<1>5. /\ "message_delta" \in EventTypes /\ "message_stop" \in EventTypes
      /\ "message_delta" \notin ends \cup Opens \cup Closes \cup Within
  BY <1>4, BesideTypes, EndTypes
<1>6. reason \in Reasons
  BY DEF anthropic_stop_reason, Reasons
<1>7. e \in Events /\ e.type = "message_stop"
  BY <1>5, MarkType DEF Signal
<1> HIDE DEF reason, parsed, e
<1>8. a \in Events /\ a.type = "message_delta"
  BY <1>5, <1>6, FinishType
<1>9. \E blocks \in Nat : Leads(ends, q, content, At(blocks, 0))
  <2>1. CASE tools
    <3>1. q = At(0, 0) /\ content = write_anthropic_stream_content(parsed.prose, parsed.calls)
      BY <2>1 DEF Stage
    <3> HIDE DEF q, content, ends
    <3> QED BY <1>2, <1>3, <3>1, AnthropicContentLeads
  <2>2. CASE ~tools
    <3> DEFINE c == Mark("content_block_stop", 0)
    <3>1. q = In(0, 1, 0) /\ content = <<c>>
      BY <2>2 DEF Stage
    <3>2. c \in Events /\ c.type \in Closes /\ c.index = 0
      BY KnownTypes, KnownClosers, MarkType
    <3> HIDE DEF q, content, ends, c
    <3>3. Leads(ends, In(0, 1, 0), <<c>>, At(1, 0))
      BY <1>3, <3>2, LeadsInside
    <3> QED BY <3>1, <3>3
  <2> QED BY <2>1, <2>2
<1> HIDE DEF content, a, q, ends
<1>10. PICK blocks \in Nat : Leads(ends, q, content, At(blocks, 0))
  BY <1>9
<1> DEFINE q2 == At(blocks, 0)
<1>11. q2.open = 0 /\ q2.blocks \in Nat /\ q2.calls \in Nat
  BY DEF At
<1> HIDE DEF q2
<1>12. Leads(ends, q, content, q2)
  BY <1>10 DEF q2
<1>13. Completes(ends, q, content \o <<a, e>>)
  BY <1>3, <1>4, <1>5, <1>7, <1>8, <1>11, <1>12, CompletesBesides
<1> QED
  BY <1>1, <1>13 DEF q, ends

LEMMA ResponseClosingCompletes ==
  ASSUME NEW tools \in BOOLEAN, NEW result, result.text \in Seq(Symbols)
  PROVE  Completes(EndsOf("openai_response"), Stage("openai_response", tools),
                   ResponseClosing(tools, result))
<1> DEFINE ends == EndsOf("openai_response")
           parsed == parse_mistral_tool_calls(result.text)
           text == parsed.prose
           calls == parsed.calls
           delta == Event("output_text.delta", 0, text, <<>>)
           prose == CASE tools /\ (text # <<>> \/ calls = <<>>) ->
                           write_responses_text_start(0) \o <<delta>>
                             \o write_responses_text_done(0, text)
                      [] ~tools -> write_responses_text_done(0, text)
                      [] OTHER  -> <<>>
           first == IF prose = <<>> THEN 0 ELSE 1
           after == FlattenSeq([i \in DOMAIN calls |-> ResponseCall(first + i - 1, calls[i])])
           a == Event("response.completed", 0, text, calls)
           e == Signal("[DONE]")
           q == Stage("openai_response", tools)
<1>1. ResponseClosing(tools, result) = prose \o after \o <<a, e>>
  BY DEF ResponseClosing
<1>2. text \in Seq(Symbols) /\ calls \in Seq(Seq(Symbols))
  BY ParsedText
<1>3. Apart(ends)
  BY EndsApart
<1>4. "response.completed" \in Beside("openai_response") /\ "[DONE]" \in ends
  BY DEF Beside, EndsOf
<1>5. /\ "response.completed" \in EventTypes /\ "[DONE]" \in EventTypes
      /\ "response.completed" \notin ends \cup Opens \cup Closes \cup Within
  BY <1>4, BesideTypes, EndTypes
<1>6. e \in Events /\ e.type = "[DONE]"
  BY <1>5, MarkType DEF Signal
<1> HIDE DEF text, calls, e
<1>7. a \in Events /\ a.type = "response.completed"
  BY <1>2, <1>5, EventType
<1>8. Leads(ends, q, prose, At(first, 0)) /\ first \in Nat
  <2> DEFINE start == write_responses_text_start(0)
             done == write_responses_text_done(0, text)
  <2>0. done # <<>> /\ start \o <<delta>> \o done # <<>>
    <3>1. /\ Leads(ends, At(0, 0), start, In(0, 1, 0)) /\ Leads(ends, In(0, 1, 0), done, At(1, 0))
      BY <1>2, <1>3, ResponseStartLeads, ResponseDoneLeads
    <3>2. start \in Seq(Events) /\ done \in Seq(Events)
      BY <3>1 DEF Leads
    <3>3. done # <<>>
      BY DEF write_responses_text_done
    <3>4. delta \in Events
      BY <1>2, KnownTypes, KnownInner, TextEventType
    <3> HIDE DEF start, done, delta
    <3>5. start \o <<delta>> \in Seq(Events)
      BY <3>2, <3>4, ConcatProperties
    <3>6. start \o <<delta>> \o done # <<>>
      BY <3>2, <3>3, <3>5, ConcatEqualIffEmpty
    <3> QED BY <3>3, <3>6
  <2>1. CASE tools /\ (text # <<>> \/ calls = <<>>)
    <3>1. prose = start \o <<delta>> \o done
      BY <2>1
    <3>2. first = 1
      BY <2>0, <3>1
    <3>3. q = At(0, 0)
      BY <2>1 DEF Stage
    <3>4. delta \in Events /\ delta.type \in Within /\ delta.index = 0
      BY <1>2, KnownTypes, KnownInner, TextEventType
    <3>5. Leads(ends, At(0, 0), start, In(0, 1, 0)) /\ Leads(ends, In(0, 1, 0), done, At(1, 0))
      BY <1>2, <1>3, ResponseStartLeads, ResponseDoneLeads
    <3> HIDE DEF q, prose, first, delta, start, done, ends
    <3>6. Leads(ends, In(0, 1, 0), <<delta>>, In(0, 1, 0))
      BY <1>3, <3>4, LeadsInside
    <3>7. Leads(ends, At(0, 0), start \o <<delta>>, In(0, 1, 0))
      BY <3>5, <3>6, LeadsJoin
    <3>8. Leads(ends, At(0, 0), start \o <<delta>> \o done, At(1, 0))
      BY <3>5, <3>7, LeadsJoin
    <3> QED BY <3>1, <3>2, <3>3, <3>8
  <2>2. CASE ~tools
    <3>1. prose = done
      BY <2>2
    <3>2. first = 1
      BY <2>0, <3>1
    <3>3. q = In(0, 1, 0)
      BY <2>2 DEF Stage
    <3>4. Leads(ends, In(0, 1, 0), done, At(1, 0))
      BY <1>2, <1>3, ResponseDoneLeads
    <3> HIDE DEF q, prose, first, done, ends
    <3> QED BY <3>1, <3>2, <3>3, <3>4
  <2>3. CASE tools /\ ~(text # <<>> \/ calls = <<>>)
    <3>1. prose = <<>>
      BY <2>3
    <3>2. first = 0
      BY <3>1
    <3>3. q = At(0, 0)
      BY <2>3 DEF Stage
    <3> HIDE DEF q, prose, first, ends
    <3> QED BY <3>1, <3>2, <3>3, LeadsNothing
  <2> QED BY <2>1, <2>2, <2>3
<1>9. Leads(ends, At(first, 0), after, At(first + Len(calls), 0))
  <2> HIDE DEF first, ends
  <2> QED BY <1>2, <1>3, <1>8, ResponseCallsLead
<1>10. first + Len(calls) \in Nat
  <2>1. Len(calls) \in Nat
    BY <1>2, LenProperties
  <2> HIDE DEF first
  <2> QED BY <1>8, <2>1
<1> DEFINE q2 == At(first + Len(calls), 0)
<1>11. q2.open = 0 /\ q2.blocks \in Nat /\ q2.calls \in Nat
  BY <1>10 DEF At
<1> HIDE DEF prose, first, after, a, q, q2, ends
<1>12. Leads(ends, q, prose \o after, q2)
  BY <1>8, <1>9, LeadsJoin DEF q2
<1>13. Completes(ends, q, (prose \o after) \o <<a, e>>)
  BY <1>3, <1>4, <1>5, <1>6, <1>7, <1>11, <1>12, CompletesBesides
<1> QED
  BY <1>1, <1>13 DEF q, ends

LEMMA CohereClosingCompletes ==
  ASSUME NEW tools \in BOOLEAN, NEW result, result.text \in Seq(Symbols), NEW max_tokens
  PROVE  Completes(EndsOf("cohere_v2"), Stage("cohere_v2", tools),
                   CohereClosing(tools, result, max_tokens))
<1> DEFINE ends == EndsOf("cohere_v2")
           parsed == parse_mistral_tool_calls(result.text)
           text == parsed.prose
           calls == parsed.calls
           c == Mark("content-end", 0)
           prose == CASE tools /\ text # <<>> -> CohereContent(text)
                      [] ~tools -> <<c>>
                      [] OTHER  -> <<>>
           after == FlattenSeq([i \in DOMAIN calls |-> CohereCall(i - 1, calls[i])])
           reason == CohereReason(result.count, max_tokens, calls)
           e == Finish("message-end", reason)
           q == Stage("cohere_v2", tools)
<1>1. CohereClosing(tools, result, max_tokens) = prose \o after \o <<e>>
  BY DEF CohereClosing
<1>2. text \in Seq(Symbols) /\ calls \in Seq(Seq(Symbols))
  BY ParsedText
<1>3. Apart(ends)
  BY EndsApart
<1>4. "message-end" \in ends
  BY DEF EndsOf
<1>5. "message-end" \in EventTypes
  BY <1>4, EndTypes
<1>6. reason \in Reasons
  BY DEF CohereReason, Reasons
<1> HIDE DEF text, calls, reason
<1>7. e \in Events /\ e.type = "message-end"
  BY <1>5, <1>6, FinishType
<1>8. \E blocks \in Nat : Leads(ends, q, prose, At(blocks, 0))
  <2>1. CASE tools /\ text # <<>>
    <3>1. prose = CohereContent(text) /\ q = At(0, 0)
      BY <2>1 DEF Stage
    <3> HIDE DEF q, prose, ends
    <3>2. Leads(ends, At(0, 0), CohereContent(text), At(1, 0))
      BY <1>2, <1>3, CohereContentLeads
    <3> QED BY <3>1, <3>2
  <2>2. CASE ~tools
    <3>1. prose = <<c>> /\ q = In(0, 1, 0)
      BY <2>2 DEF Stage
    <3>2. c \in Events /\ c.type \in Closes /\ c.index = 0
      BY KnownTypes, KnownClosers, MarkType
    <3> HIDE DEF q, prose, ends, c
    <3>3. Leads(ends, In(0, 1, 0), <<c>>, At(1, 0))
      BY <1>3, <3>2, LeadsInside
    <3> QED BY <3>1, <3>3
  <2>3. CASE tools /\ text = <<>>
    <3>1. prose = <<>> /\ q = At(0, 0)
      BY <2>3 DEF Stage
    <3> HIDE DEF q, prose, ends
    <3>2. Leads(ends, At(0, 0), <<>>, At(0, 0))
      BY LeadsNothing
    <3> QED BY <3>1, <3>2
  <2> QED BY <2>1, <2>2, <2>3
<1>9. PICK blocks \in Nat : Leads(ends, q, prose, At(blocks, 0))
  BY <1>8
<1> DEFINE q2 == At(blocks, Len(calls))
<1>10. q2.open = 0
  BY DEF At
<1> HIDE DEF prose, after, e, q, q2, ends
<1>11. Leads(ends, At(blocks, 0), after, q2)
  BY <1>2, <1>3, CohereCallsLead DEF q2, after
<1>12. Leads(ends, q, prose \o after, q2)
  BY <1>9, <1>11, LeadsJoin
<1>13. Completes(ends, q, (prose \o after) \o <<e>>)
  BY <1>3, <1>4, <1>7, <1>10, <1>12, CompletesBy
<1> QED
  BY <1>1, <1>13 DEF q, ends

\* Streams that end by one event, between blocks.
LEMMA OneEventCompletes ==
  ASSUME NEW route, route \notin {"openai_response", "anthropic", "cohere_v2"}, NEW tools,
         NEW e \in Events, e.type \in EndsOf(route)
  PROVE  Completes(EndsOf(route), Stage(route, tools), <<e>>)
<1> DEFINE q == Stage(route, tools)
           ends == EndsOf(route)
<1>1. q.open = 0
  BY DEF Stage, At
<1>2. Apart(ends)
  BY EndsApart
<1> HIDE DEF q, ends
<1>3. e.type \in ends
  BY DEF ends
<1>4. Completes(ends, q, <<e>>)
  BY <1>1, <1>2, <1>3, CompletesAtOnce
<1> QED
  BY <1>4 DEF q, ends

LEMMA GeminiClosingCompletes ==
  ASSUME NEW tools \in BOOLEAN, NEW result, result.text \in Seq(Symbols), NEW max_tokens
  PROVE  Completes(EndsOf("gemini"), Stage("gemini", tools),
                   GeminiClosing(tools, result, max_tokens))
<1> DEFINE parsed == parse_mistral_tool_calls(result.text)
           final == Finish("finish", GeminiReason(result.count, max_tokens))
           e == IF tools THEN [final EXCEPT !.text = parsed.prose, !.calls = parsed.calls]
                ELSE final
<1>1. GeminiClosing(tools, result, max_tokens) = <<e>>
  BY DEF GeminiClosing
<1>2. parsed.prose \in Seq(Symbols) /\ parsed.calls \in Seq(Seq(Symbols))
  BY ParsedText
<1>3. GeminiReason(result.count, max_tokens) \in Reasons
  BY DEF GeminiReason, Reasons
<1>4. "finish" \in EndsOf("gemini")
  BY DEF EndsOf
<1>5. final \in Events /\ final.type = "finish"
  BY <1>3, <1>4, EndTypes, FinishType
<1> HIDE DEF parsed, final
<1>6. e \in Events /\ e.type = "finish"
  BY <1>2, <1>5 DEF Events
<1> HIDE DEF e
<1> QED BY <1>1, <1>4, <1>6, OneEventCompletes

LEMMA OllamaChatClosingCompletes ==
  ASSUME NEW tools \in BOOLEAN, NEW result, result.text \in Seq(Symbols)
  PROVE  Completes(EndsOf("ollama_chat"), Stage("ollama_chat", tools),
                   OllamaChatClosing(tools, result))
<1> DEFINE parsed == parse_mistral_tool_calls(result.text)
           a == Event("delta", 0, parsed.prose, parsed.calls)
           e == Finish("done", "stop")
           ends == EndsOf("ollama_chat")
           q == Stage("ollama_chat", tools)
           whole == IF tools THEN <<a>> ELSE <<>>
<1>1. OllamaChatClosing(tools, result) = whole \o <<e>>
  BY DEF OllamaChatClosing
<1>2. parsed.prose \in Seq(Symbols) /\ parsed.calls \in Seq(Seq(Symbols))
  BY ParsedText
<1>3. /\ "delta" \in Beside("ollama_chat") /\ "done" \in ends /\ "stop" \in Reasons
  BY DEF Beside, EndsOf, Reasons
<1>4. "delta" \in EventTypes /\ "done" \in EventTypes
  BY <1>3, BesideTypes, EndTypes
<1>5. e \in Events /\ e.type = "done"
  BY <1>3, <1>4, FinishType
<1> HIDE DEF parsed
<1>6. a \in Events /\ a.type = "delta"
  BY <1>2, <1>4, EventType
<1>7. q = At(0, 0) /\ Stands(At(0, 0)) /\ q.open = 0 /\ Apart(ends)
  BY PlacesStand, EndsApart DEF Stage
<1> HIDE DEF a, e, q
<1>8. Leads(ends, q, whole, q)
  <2>1. CASE tools
    BY <1>3, <1>6, <1>7, <2>1, EventLeads
  <2>2. CASE ~tools
    BY <2>2, LeadsNothing
  <2> QED BY <2>1, <2>2
<1> HIDE DEF whole, ends
<1>9. Completes(ends, q, whole \o <<e>>)
  BY <1>3, <1>5, <1>7, <1>8, CompletesBy
<1> QED
  BY <1>1, <1>9 DEF q, ends

\* Every route ends its stream properly.
LEMMA ClosingCompletes ==
  ASSUME NEW route \in GenerationRoutes \ {"generate"}, NEW tools \in BOOLEAN,
         NEW result, result.text \in Seq(Symbols), NEW max_tokens, NEW usage \in BOOLEAN
  PROVE  Completes(EndsOf(route), Stage(route, tools),
                   Closing(route, tools, result, max_tokens, usage))
<1> DEFINE closing == Closing(route, tools, result, max_tokens, usage)
<1>1. CASE route \in {"openai_chat", "openai_completion"}
  <2>1. closing = ChunkClosing(tools, result, usage)
    BY <1>1 DEF Closing
  <2> QED BY <1>1, <2>1, ChunkClosingCompletes
<1>2. CASE route = "openai_response"
  <2>1. closing = ResponseClosing(tools, result)
    BY <1>2 DEF Closing
  <2> QED BY <1>2, <2>1, ResponseClosingCompletes
<1>3. CASE route = "anthropic"
  <2>1. closing = AnthropicClosing(tools, result, max_tokens)
    BY <1>3 DEF Closing
  <2> QED BY <1>3, <2>1, AnthropicClosingCompletes
<1>4. CASE route = "cohere_v2"
  <2>1. closing = CohereClosing(tools, result, max_tokens)
    BY <1>4 DEF Closing
  <2> QED BY <1>4, <2>1, CohereClosingCompletes
<1>5. CASE route = "gemini"
  <2>1. closing = GeminiClosing(tools, result, max_tokens)
    BY <1>5 DEF Closing
  <2> QED BY <1>5, <2>1, GeminiClosingCompletes
<1>6. CASE route = "ollama_chat"
  <2>1. closing = OllamaChatClosing(tools, result)
    BY <1>6 DEF Closing
  <2> QED BY <1>6, <2>1, OllamaChatClosingCompletes
<1>7. CASE route = "ollama_generate"
  <2> DEFINE e == Finish("done", "stop")
  <2>1. closing = <<e>>
    BY <1>7 DEF Closing, OllamaGenerateClosing
  <2>2. "done" \in EndsOf(route) /\ "stop" \in Reasons
    BY DEF EndsOf, Reasons
  <2>3. e \in Events /\ e.type = "done"
    BY <2>2, EndTypes, FinishType
  <2> HIDE DEF e, closing
  <2> QED BY <1>7, <2>1, <2>2, <2>3, OneEventCompletes DEF closing
<1>8. CASE route \in {"cohere_v1", "generate_stream"}
  <2>1. PICK type \in {"stream-end", "generated_text"} :
           closing = <<Event(type, 0, result.text, <<>>)>>
    BY <1>8 DEF Closing, CohereV1Closing, GenerateStreamClosing
  <2>2. type \in EndsOf(route)
    BY DEF EndsOf
  <2> DEFINE e == Event(type, 0, result.text, <<>>)
  <2>3. e \in Events /\ e.type = type
    BY <2>2, EndTypes, TextEventType
  <2>4. closing = <<e>>
    BY <2>1
  <2> HIDE DEF e, closing
  <2> QED BY <1>8, <2>2, <2>3, <2>4, OneEventCompletes DEF closing
<1> QED
  BY <1>1, <1>2, <1>3, <1>4, <1>5, <1>6, <1>7, <1>8 DEF GenerationRoutes

\* So does a generation that fails.
LEMMA FailingCompletes ==
  ASSUME NEW route \in GenerationRoutes, NEW tools \in BOOLEAN
  PROVE  Completes(EndsOf(route), Stage(route, tools), Failing(route))
<1> DEFINE ends == EndsOf(route)
           q == Stage(route, tools)
           done == Signal("[DONE]")
           t == <<>>
<1>0. Apart(ends) /\ Stands(q)
  BY EndsApart, StageStands
<1>1. "error" \in Reasons /\ "error" \in ends /\ "[DONE]" \in ends
  BY DEF Reasons, EndsOf
<1>2. "error" \in EventTypes /\ "[DONE]" \in EventTypes
  BY <1>1, EndTypes
<1>3. done \in Events /\ done.type = "[DONE]"
  BY <1>2, MarkType DEF Signal
<1>4. CASE route \in {"openai_chat", "openai_completion"}
  <2> DEFINE a == Finish("finish", "error")
  <2>1. Failing(route) = <<a, done>>
    BY <1>4 DEF Failing
  <2>2. q = At(0, 0)
    BY <1>4 DEF Stage
  <2>3. q.open = 0 /\ q.blocks \in Nat /\ q.calls \in Nat
    BY <2>2 DEF At
  <2>4. "finish" \in Beside(route)
    BY <1>4 DEF Beside
  <2>5. "finish" \in EventTypes /\ "finish" \notin ends \cup Opens \cup Closes \cup Within
    BY <2>4, BesideTypes
  <2>6. a \in Events /\ a.type = "finish"
    BY <1>1, <2>5, FinishType
  <2> HIDE DEF a, done, q, ends
  <2>7. Leads(ends, q, t, q)
    BY LeadsNothing
  <2> HIDE DEF t
  <2>8. Completes(ends, q, t \o <<a, done>>)
    BY <1>0, <1>1, <1>3, <2>3, <2>5, <2>6, <2>7, CompletesBesides
  <2>9. t \o <<a, done>> = <<a, done>>
    <3>1. <<a, done>> \in Seq(Events)
      BY <1>3, <2>6
    <3> QED BY <3>1, ConcatEmptySeq DEF t
  <2> QED BY <2>1, <2>8, <2>9 DEF q, ends
<1>5. CASE route = "openai_response"
  <2> DEFINE a == Signal("response.failed")
  <2>1. Failing(route) = <<a, done>>
    BY <1>5 DEF Failing
  <2>2. "response.failed" \in Beside(route)
    BY DEF Beside
  <2>3. Leads(ends, q, <<a>>, q)
    BY <1>0, <2>2, SignalLeads
  <2>4. a \in Events /\ a.type = "response.failed"
    BY <2>2, BesideTypes, MarkType DEF Signal
  <2> HIDE DEF a, done, q, ends
  <2>5. 1 \in 1 .. Len(<<a>>) /\ <<a>>[1].type = "response.failed"
    BY <2>4
  <2>6. Completes(ends, q, <<a>> \o <<done>>)
    BY <1>0, <1>1, <1>3, <2>3, <2>5, CompletesBy
  <2>7. <<a, done>> = <<a>> \o <<done>>
    BY <1>3, <2>4, Two
  <2> QED BY <2>1, <2>6, <2>7 DEF q, ends
<1>6. CASE route \in {"anthropic", "cohere_v2", "gemini", "generate", "generate_stream"}
  <2> DEFINE e == Signal("error")
  <2>1. Failing(route) = <<e>>
    BY <1>6 DEF Failing
  <2>2. e \in Events /\ e.type = "error"
    BY <1>2, MarkType DEF Signal
  <2> HIDE DEF e, q, ends
  <2>3. Completes(ends, q, <<e>>)
    BY <1>0, <1>1, <2>2, CompletesAtOnce
  <2> QED BY <2>1, <2>3 DEF q, ends
<1>7. CASE route \in {"cohere_v1", "ollama_chat", "ollama_generate"}
  <2>1. PICK type \in {"stream-end", "done"} : Failing(route) = <<Finish(type, "error")>>
    BY <1>7 DEF Failing
  <2> DEFINE e == Finish(type, "error")
  <2>2. type \in ends
    BY DEF EndsOf
  <2>3. e \in Events /\ e.type = type
    BY <1>1, <2>2, EndTypes, FinishType
  <2>4. Failing(route) = <<e>>
    BY <2>1
  <2> HIDE DEF e
  <2> QED BY <1>7, <2>2, <2>3, <2>4, OneEventCompletes
<1> QED
  BY <1>4, <1>5, <1>6, <1>7 DEF GenerationRoutes

-----------------------------------------------------------------------------
(* What is on the wire. *)

StreamEnds == EndsOf(ask.route)
StageNow == Stage(ask.route, has_tools)

(***************************************************************************)
(* The stream's inductive invariant: before the route's header is written, *)
(* and when the answer is not a stream, nothing is on the wire; while the  *)
(* text comes into being the stream stands where that text belongs; what a *)
(* client that left has received is the beginning of a stream; and when the*)
(* connection is closed a client that stayed has a whole one, or an answer.*)
(***************************************************************************)
WireInv ==
  /\ Before \/ ~is_streaming_request => wire = <<>>
  /\ client = "gone" => \E q : Stream(StreamEnds, wire, q)
  /\ client = "there" /\ pc \in {"generate", "flush", "record"} /\ is_streaming_request =>
       Stream(StreamEnds, wire, StageNow)
  /\ client = "there" /\ pc = "closed" =>
       \/ answer.status # 0 /\ wire = <<>>
       \/ answer.status = 0 /\ Ended(StreamEnds, wire)

LEMMA AskedOnce ==
  ASSUME ask' = ask
  PROVE  /\ StreamEnds' = StreamEnds /\ StageNow' = StageNow
         /\ is_streaming_request' = is_streaming_request /\ has_tools' = has_tools
<1>1. is_streaming_request' = is_streaming_request
  BY DEF is_streaming_request
<1>2. has_tools' = has_tools
  BY DEF has_tools
<1> QED
  BY <1>1, <1>2 DEF StreamEnds, StageNow

LEMMA AskedTypes ==
  ASSUME ask \in Asks
  PROVE  /\ has_tools \in BOOLEAN /\ is_streaming_request \in BOOLEAN /\ ask.usage \in BOOLEAN
         /\ is_streaming_request => ask.route \in GenerationRoutes \ {"generate"}
BY DEF Asks, has_tools, is_streaming_request

\* Nothing, and anything that is where a stream may stand, begins a stream.
LEMMA NothingStands ==
  ASSUME NEW ends
  PROVE  Stream(ends, <<>>, At(0, 0))
<1> DEFINE s == <<>>
<1>1. s \in Seq(Events) /\ Len(s) = 0
  BY EmptySeq
<1> HIDE DEF s
<1>2. ASSUME NEW types PROVE CountIn(s, types, 0) = 0
  <2>1. {i \in 1 .. 0 : s[i].type \in types} = {}
    OBVIOUS
  <2> QED BY <2>1, FS_EmptySet DEF CountIn
<1>3. Stream(ends, s, At(0, 0))
  BY <1>1, <1>2 DEF Stream, At
<1> QED
  BY <1>3 DEF s

\* A client that leaves has the beginning of a stream.
LEMMA WireAtLeave ==
  ASSUME WireInv, ControlInv, pc # "closed"
  PROVE  \E q : Stream(StreamEnds, wire, q)
<1>1. CASE Before \/ ~is_streaming_request
  BY <1>1, NothingStands DEF WireInv
<1>2. CASE client = "gone"
  BY <1>2 DEF WireInv
<1>3. CASE ~Before /\ is_streaming_request /\ client = "there"
  BY <1>3 DEF WireInv, ControlInv, Before
<1> QED
  BY <1>1, <1>2, <1>3 DEF ControlInv

\* Steps that write nothing and do not close.
LEMMA WireStays ==
  ASSUME WireInv, ask' = ask, wire' = wire, client' = client, pc # "closed", pc' # "closed",
         Before' => Before,
         Before => Before' \/ ~is_streaming_request,
         pc' \in {"generate", "flush", "record"} =>
           pc \in {"generate", "flush", "record"} \/ ~is_streaming_request
  PROVE  WireInv'
BY AskedOnce DEF WireInv

\* A text that is passed on, or not.
LEMMA WirePassesOn ==
  ASSUME WireInv, ask' = ask, ask \in Asks, client' = client, TextType,
         pc \in {"generate", "flush"}, pc' \in {"generate", "flush", "record"},
         NEW text \in Seq(Symbols),
         \/ wire' = wire
         \/ /\ is_streaming_request /\ ~has_tools
            /\ Write(<<Delta(ask.route, Len(streamed), text)>>)
  PROVE  WireInv'
<1>1. ~Before' /\ pc' # "closed" /\ ~Before /\ pc # "closed"
  BY DEF Before
<1>2. CASE wire' = wire
  BY <1>1, <1>2, AskedOnce DEF WireInv
<1>3. CASE /\ is_streaming_request /\ ~has_tools
           /\ Write(<<Delta(ask.route, Len(streamed), text)>>)
  <2> DEFINE e == Delta(ask.route, Len(streamed), text)
  <2>1. wire' = IF client = "there" THEN wire \o <<e>> ELSE wire
    BY <1>3 DEF Write
  <2>2. Len(streamed) \in Nat
    BY LenProperties DEF TextType
  <2>3. has_tools = FALSE
    BY <1>3, AskedTypes
  <2>4. Leads(StreamEnds, StageNow, <<e>>, StageNow)
    BY <2>2, <2>3, DeltaLeads DEF StreamEnds, StageNow
  <2> HIDE DEF e
  <2>5. client = "there" => Stream(StreamEnds, wire', StageNow)
    <3> HAVE client = "there"
    <3>1. Stream(StreamEnds, wire, StageNow)
      BY <1>3 DEF WireInv
    <3>2. Stream(StreamEnds, wire \o <<e>>, StageNow)
      BY <2>4, <3>1, LeadsOn
    <3> QED BY <2>1, <3>2
  <2>6. client = "gone" => \E q : Stream(StreamEnds, wire', q)
    BY <2>1 DEF WireInv
  <2> QED BY <1>1, <1>3, <2>5, <2>6, AskedOnce DEF WireInv
<1> QED
  BY <1>2, <1>3

\* An answer without a stream closes the connection.
LEMMA WireAnswers ==
  ASSUME WireInv, ControlInv, ask' = ask, client' = client, wire' = wire, wire = <<>>,
         pc # "closed", pc' = "closed",
         client = "there" => answer'.status # 0
  PROVE  WireInv'
<1>1. ~Before'
  BY DEF Before
<1>2. \E q : Stream(StreamEnds, wire, q)
  BY NothingStands
<1> QED
  BY <1>1, <1>2, AskedOnce DEF WireInv

\* The end of a stream closes the connection.
LEMMA WireEnds ==
  ASSUME WireInv, ControlInv, ask' = ask, client' = client, is_streaming_request,
         pc \in {"generate", "record"}, pc' = "closed",
         NEW events, Completes(StreamEnds, StageNow, events), Write(events), answer' = answer
  PROVE  WireInv'
<1>1. ~Before' /\ answer.status = 0
  <2>1. ~Before' /\ answer = NoAnswer
    BY DEF Before, ControlInv
  <2> QED BY <2>1 DEF NoAnswer
<1>2. CASE client = "there"
  <2>1. wire' = wire \o events
    BY <1>2 DEF Write
  <2>2. Stream(StreamEnds, wire, StageNow)
    BY <1>2 DEF WireInv
  <2>3. wire \in Seq(Events)
    BY <2>2 DEF Stream
  <2>4. Ended(StreamEnds, wire')
    BY <2>1, <2>2, <2>3 DEF Completes
  <2> QED BY <1>1, <1>2, <2>4, AskedOnce DEF WireInv
<1>3. CASE client # "there"
  <2>1. wire' = wire
    BY <1>3 DEF Write
  <2>2. client = "gone"
    BY <1>3 DEF ControlInv
  <2>3. \E q : Stream(StreamEnds, wire, q)
    BY <2>2 DEF WireInv
  <2> QED BY <1>1, <1>3, <2>1, <2>3, AskedOnce DEF WireInv
<1> QED
  BY <1>2, <1>3

LEMMA WireResponds ==
  ASSUME WireInv, ControlInv, Before, ask' = ask,
         NEW code \in Nat \ {0}, Respond(Refusal(code))
  PROVE  WireInv'
<1>1. client' = client /\ wire' = wire /\ pc # "closed" /\ pc' = "closed" /\ wire = <<>>
  BY DEF Respond, WireInv, Before
<1>2. client = "there" => answer'.status # 0
  BY DEF Respond, Refusal, NoAnswer
<1> QED
  BY <1>1, <1>2, WireAnswers

\* The header of a stream.
LEMMA WireOpens ==
  ASSUME WireInv, ControlInv, pc = "route", ask' = ask, client' = client, is_streaming_request,
         Write(Opening(ask.route, has_tools)), answer' = answer,
         pc' \in {"generate"} \cup (IF MayFail THEN {"closed"} ELSE {})
  PROVE  WireInv'
<1>1. wire = <<>> /\ answer.status = 0 /\ ~Before' /\ ask \in Asks
  <2>1. wire = <<>> /\ answer = NoAnswer /\ ask \in Asks
    BY DEF WireInv, Before, ControlInv
  <2>2. ~Before'
    BY DEF Before
  <2> QED BY <2>1, <2>2 DEF NoAnswer
<1>2. CASE client = "there"
  <2> DEFINE opening == Opening(ask.route, has_tools)
  <2>1. wire' = <<>> \o opening /\ pc' = "generate"
    BY <1>1, <1>2 DEF Write, MayFail
  <2>2. Leads(StreamEnds, At(0, 0), opening, StageNow)
    BY <1>1, AskedTypes, OpeningLeads DEF StreamEnds, StageNow
  <2>3. Stream(StreamEnds, <<>>, At(0, 0))
    BY NothingStands
  <2> HIDE DEF opening
  <2>4. Stream(StreamEnds, <<>> \o opening, StageNow)
    BY <2>2, <2>3, LeadsOn
  <2>5. Stream(StreamEnds, wire', StageNow)
    BY <2>1, <2>4
  <2> QED BY <1>1, <1>2, <2>1, <2>5, AskedOnce DEF WireInv
<1>3. CASE client # "there"
  <2>1. wire' = wire
    BY <1>3 DEF Write
  <2>2. \E q : Stream(StreamEnds, wire, q)
    BY <1>1, NothingStands
  <2> QED BY <1>1, <1>3, <2>1, <2>2, AskedOnce DEF WireInv
<1> QED
  BY <1>2, <1>3

\* A client that leaves.
LEMMA WireLeft ==
  ASSUME WireInv, ControlInv, ClientLeaves
  PROVE  WireInv'
<1>1. ask' = ask /\ wire' = wire /\ client' = "gone" /\ pc' = pc /\ pc # "closed"
  BY DEF ClientLeaves, wireVars
<1>2. \E q : Stream(StreamEnds, wire, q)
  BY <1>1, WireAtLeave
<1>3. Before' = Before
  BY <1>1 DEF Before
<1> QED
  BY <1>1, <1>2, <1>3, AskedOnce DEF WireInv

\* A failing generation.
LEMMA WireFails ==
  ASSUME WireInv, ControlInv, GenerationFails
  PROVE  WireInv'
<1>1. ask' = ask /\ client' = client /\ pc = "generate" /\ pc' = "closed" /\ ask \in Asks
  BY DEF GenerationFails, ControlInv
<1>2. CASE is_streaming_request
  <2>1. Write(Failing(ask.route)) /\ answer' = answer
    BY <1>2 DEF GenerationFails
  <2>2. Completes(StreamEnds, StageNow, Failing(ask.route))
    BY <1>1, <1>2, AskedTypes, FailingCompletes DEF StreamEnds, StageNow
  <2> QED BY <1>1, <1>2, <2>1, <2>2, WireEnds
<1>3. CASE ~is_streaming_request
  <2>1. wire' = wire /\ wire = <<>>
    BY <1>3 DEF GenerationFails, WireInv
  <2>2. client = "there" => answer'.status # 0
    <3>1. client = "there" => answer' = Refusal(400)
      BY <1>3 DEF GenerationFails
    <3>2. Refusal(400).status = 400
      BY DEF Refusal, NoAnswer
    <3> QED BY <3>1, <3>2
  <2> QED BY <1>1, <2>1, <2>2, WireAnswers
<1> QED
  BY <1>2, <1>3

\* The end of a generation that succeeded.
LEMMA WireCompletes ==
  ASSUME WireInv, ControlInv, TextType, Complete
  PROVE  WireInv'
<1>1. ask' = ask /\ client' = client /\ pc = "record" /\ pc' = "closed" /\ ask \in Asks
  BY DEF Complete, ControlInv
<1>2. CASE is_streaming_request
  <2> DEFINE events == Closing(ask.route, has_tools, Result, ask.max_tokens, ask.usage)
  <2>1. Write(events) /\ answer' = answer
    BY <1>2 DEF Complete
  <2>2. Result.text \in Seq(Symbols)
    BY DEF Result, TextType
  <2>3. Completes(StreamEnds, StageNow, events)
    BY <1>1, <1>2, <2>2, AskedTypes, ClosingCompletes DEF StreamEnds, StageNow
  <2> HIDE DEF events
  <2> QED BY <1>1, <1>2, <2>1, <2>3, WireEnds
<1>3. CASE ~is_streaming_request
  <2>1. wire' = wire /\ wire = <<>>
    BY <1>3 DEF Complete, WireInv
  <2>2. client = "there" => answer'.status # 0
    <3> HAVE client = "there"
    <3>1. answer'.status = 200
      BY <1>3 DEF Complete
    <3> QED BY <3>1
  <2> QED BY <1>1, <2>1, <2>2, WireAnswers
<1> QED
  BY <1>2, <1>3

\* One round of the decode loop passes on one text at most.
LEMMA WireDecodes ==
  ASSUME WireInv, ControlInv, TextType, DecodeToken
  PROVE  WireInv'
<1>1. /\ ask' = ask /\ client' = client /\ pc = "generate" /\ ask \in Asks
  BY DEF DecodeToken, ControlInv
<1>2. PICK token \in Vocabulary :
         LET pushed == push(pending, token)
             at     == StopCut(output \o pushed.text, pushed.text, ask.stops)
         IN  \/ at # {} /\ pc' = "flush" /\ wire' = wire
             \/ /\ at = {} /\ pc' \in {"generate", "flush"}
                /\ wire' = wire \/ OnToken(pushed.text)
  BY DEF DecodeToken
<1> DEFINE text == push(pending, token).text
<1>3. pc' \in {"generate", "flush"} /\ (wire' = wire \/ OnToken(text))
  BY <1>2
<1>4. text \in Seq(Symbols)
  <2>1. token \in Seq(Symbols) /\ pending \in Seq(Symbols)
    BY TokensType DEF TextType
  <2>2. push(pending, token) \in Scanned(Symbols)
    BY <2>1, SymbolsAreAlphabet, PushType
  <2> QED BY <2>2 DEF Scanned
<1> HIDE DEF text
<1>5. \/ wire' = wire
      \/ /\ is_streaming_request /\ ~has_tools
         /\ Write(<<Delta(ask.route, Len(streamed), text)>>)
  BY <1>3 DEF OnToken
<1> QED
  BY <1>1, <1>3, <1>4, <1>5, WirePassesOn

LEMMA WireFlushes ==
  ASSUME WireInv, ControlInv, TextType, Flush
  PROVE  WireInv'
<1> DEFINE text == flush(pending)
<1>1. /\ ask' = ask /\ client' = client /\ pc = "flush" /\ pc' = "record" /\ ask \in Asks
      /\ wire' = wire \/ OnToken(text)
  BY DEF Flush, ControlInv
<1>2. text \in Seq(Symbols)
  BY TailType DEF TextType
<1> HIDE DEF text
<1>3. \/ wire' = wire
      \/ /\ is_streaming_request /\ ~has_tools
         /\ Write(<<Delta(ask.route, Len(streamed), text)>>)
  BY <1>1 DEF OnToken
<1> QED
  BY <1>1, <1>2, <1>3, WirePassesOn

LEMMA WireRoutes ==
  ASSUME WireInv, ControlInv, ask' = ask, Refuse \/ RouteOther \/ RouteAnswer \/ RouteStream
  PROVE  WireInv'
<1>1. CASE Refuse
  <2>1. Respond(Refusal(status)) /\ Before /\ status \in Nat \ {0}
    BY <1>1 DEF Refuse, Before, ControlInv
  <2> QED BY <2>1, WireResponds
<1>2. CASE RouteOther
  <2>1. Before /\ \E code \in Nat \ {0} : Respond(Refusal(code))
    BY <1>2 DEF RouteOther, Before
  <2> QED BY <2>1, WireResponds
<1>3. CASE RouteAnswer
  <2>1. /\ pc = "route" /\ pc' = "generate" /\ ~is_streaming_request
        /\ wire' = wire /\ client' = client
    BY <1>3 DEF RouteAnswer, wireVars
  <2> QED BY <2>1, WireStays DEF Before
<1>4. CASE RouteStream
  <2>1. CASE ~(ask.json /\ ask.valid)
    <3>1. Before /\ Respond(Refusal(400))
      BY <1>4, <2>1 DEF RouteStream, Before
    <3> QED BY <3>1, WireResponds
  <2>2. CASE ask.json /\ ask.valid
    <3>1. /\ pc = "route" /\ is_streaming_request /\ client' = client /\ answer' = answer
          /\ Write(Opening(ask.route, has_tools))
          /\ pc' \in {"generate"} \cup (IF MayFail THEN {"closed"} ELSE {})
      BY <1>4, <2>2 DEF RouteStream
    <3> QED BY <3>1, WireOpens
  <2> QED BY <2>1, <2>2
<1> QED
  BY <1>1, <1>2, <1>3, <1>4

LEMMA WireKeeps ==
  ASSUME ConnectionInv, WireInv, [Next]_vars
  PROVE  WireInv'
<1>1. ControlInv /\ TextType /\ ask' = ask
  BY ReaderKeeps DEF ConnectionInv, TextInv
<1>2. CASE Read
  <2>1. pc = "read" /\ pc' \in {"read", "route", "refuse"} /\ wire' = wire /\ client' = client
    BY <1>2 DEF Read, wireVars
  <2> QED BY <1>1, <2>1, WireStays DEF Before
<1>3. CASE Refuse \/ RouteOther \/ RouteAnswer \/ RouteStream
  BY <1>1, <1>3, WireRoutes
<1>4. CASE GenerationFails
  BY <1>1, <1>4, WireFails
<1>5. CASE DecodeToken
  BY <1>1, <1>5, WireDecodes
<1>6. CASE DecodeStops
  <2>1. pc = "generate" /\ pc' = "flush" /\ wire' = wire /\ client' = client
    BY <1>6 DEF DecodeStops, wireVars
  <2> QED BY <1>1, <2>1, WireStays DEF Before
<1>7. CASE Flush
  BY <1>1, <1>7, WireFlushes
<1>8. CASE Complete
  BY <1>1, <1>8, WireCompletes
<1>9. CASE ClientLeaves
  BY <1>1, <1>9, WireLeft
<1>10. CASE UNCHANGED vars
  <2>1. wire' = wire /\ client' = client /\ pc' = pc /\ answer' = answer
    BY <1>10 DEF vars, wireVars
  <2>2. Before' = Before
    BY <2>1 DEF Before
  <2> QED BY <1>1, <2>1, <2>2, AskedOnce DEF WireInv
<1> QED
  BY <1>2, <1>3, <1>4, <1>5, <1>6, <1>7, <1>8, <1>9, <1>10 DEF Next, ServerStep, Closed

\* The index of the open block.
LEMMA OpenBlockIs ==
  ASSUME wire \in Seq(Events), NEW n \in 0 .. Len(wire), NEW index, OpenedAs(wire, n, index)
  PROVE  OpenBlock(n) = index
<1> DEFINE T == {i \in 1 .. n : wire[i].type \in Opens}
<1>1. n \in Nat
  BY LenProperties
<1>2. PICK o \in 1 .. n : /\ wire[o].type \in Opens /\ wire[o].index = index
                          /\ \A j \in o + 1 .. n : wire[j].type \notin Opens
  BY Zenon DEF OpenedAs
<1>3. o \in T
  BY <1>2
<1>4. T \in SUBSET (0 .. n) /\ T # {}
  BY <1>1, <1>3
<1>5. \A i \in T : i \in 1 .. n /\ wire[i].type \in Opens
  OBVIOUS
<1>6. OpenBlock(n) = wire[Max(T)].index
  BY DEF OpenBlock
<1> HIDE DEF T
<1>7. Max(T) \in T /\ \A x \in T : x <= Max(T)
  BY <1>1, <1>4, LeastOfBounded
<1>8. Max(T) \in 1 .. n /\ wire[Max(T)].type \in Opens /\ o <= Max(T)
  BY <1>3, <1>5, <1>7
<1>9. Max(T) = o
  BY <1>1, <1>2, <1>8
<1> QED
  BY <1>2, <1>6, <1>9

LEMMA FitsProtocol ==
  ASSUME wire \in Seq(Events), NEW i \in 1 .. Len(wire), Fits(wire, i)
  PROVE  /\ wire[i].type \in Opens =>
              ~BlockOpen(i - 1) /\ wire[i].index = Count(SameKind(wire[i].type), i - 1)
         /\ wire[i].type \in Closes \cup Within =>
              BlockOpen(i - 1) /\ wire[i].index = OpenBlock(i - 1)
<1>1. i - 1 \in 0 .. Len(wire) /\ i - 1 \in Nat
  BY LenProperties
<1>2. \A types : CountIn(wire, types, i - 1) \in Nat /\ Count(types, i - 1) = CountIn(wire, types, i - 1)
  BY <1>1, CountType DEF Count, CountIn
<1>3. ASSUME wire[i].type \in Opens
      PROVE  ~BlockOpen(i - 1) /\ wire[i].index = Count(SameKind(wire[i].type), i - 1)
  <2>1. /\ CountIn(wire, Opens, i - 1) <= CountIn(wire, Closes, i - 1)
        /\ wire[i].index = CountIn(wire, SameKind(wire[i].type), i - 1)
    BY <1>3 DEF Fits
  <2>2. ~BlockOpen(i - 1)
    BY <1>2, <2>1 DEF BlockOpen
  <2> QED BY <1>2, <2>1, <2>2
<1>4. ASSUME wire[i].type \in Closes \cup Within
      PROVE  BlockOpen(i - 1) /\ wire[i].index = OpenBlock(i - 1)
  <2>1. /\ CountIn(wire, Opens, i - 1) > CountIn(wire, Closes, i - 1)
        /\ OpenedAs(wire, i - 1, wire[i].index)
    BY <1>4 DEF Fits
  <2>2. OpenBlock(i - 1) = wire[i].index
    BY <1>1, <2>1, OpenBlockIs
  <2> QED BY <1>2, <2>1, <2>2 DEF BlockOpen
<1> QED
  BY <1>3, <1>4

\* What the invariant says of a connection that is closed.
LEMMA WireIsWellFormed ==
  ASSUME WireInv, ControlInv
  PROVE  StreamWellFormed
<1> SUFFICES ASSUME pc = "closed" PROVE StreamWellFormed
  BY DEF StreamWellFormed
<1>1. StreamEnds = Terminal
  BY DEF StreamEnds, EndsOf, Terminal
<1>2. \/ \E q : Stream(StreamEnds, wire, q)
      \/ Ended(StreamEnds, wire)
  BY NothingStands DEF WireInv, ControlInv
<1>3. wire \in Seq(Events) /\ DOMAIN wire = 1 .. Len(wire)
  <2>1. wire \in Seq(Events)
    BY <1>2 DEF Stream, Ended
  <2> QED BY <2>1, LenProperties
<1>4. \A i \in 1 .. Len(wire) : Fits(wire, i)
  BY <1>2 DEF Stream, Ended
<1>5. \A i \in 1 .. Len(wire) :
        wire[i].type \in Terminal => i = Len(wire) /\ (ReportsError \/ ~BlockOpen(i))
  <2>1. CASE \E q : Stream(StreamEnds, wire, q)
    BY <1>1, <2>1 DEF Stream
  <2>2. CASE Ended(StreamEnds, wire)
    BY <1>1, <2>2 DEF Ended, ReportsErrorIn, ReportsError, BlockOpen, Count, CountIn
  <2> QED BY <1>2, <2>1, <2>2
<1>6. client = "there" =>
        \/ answer.status # 0 /\ wire = <<>>
        \/ answer.status = 0 /\ wire # <<>> /\ wire[Len(wire)].type \in Terminal
  BY <1>1 DEF WireInv, Ended
<1>7. \A i \in 1 .. Len(wire) :
        /\ wire[i].type \in Opens =>
             ~BlockOpen(i - 1) /\ wire[i].index = Count(SameKind(wire[i].type), i - 1)
        /\ wire[i].type \in Closes \cup Within =>
             BlockOpen(i - 1) /\ wire[i].index = OpenBlock(i - 1)
  BY <1>3, <1>4, FitsProtocol
<1> QED
  BY <1>3, <1>5, <1>6, <1>7 DEF StreamWellFormed

(***************************************************************************)
(* Every client receives a stream its protocol allows, or one answer.      *)
(***************************************************************************)
THEOREM StreamsAreWellFormed == Spec => []StreamWellFormed
<1>1. Init => WireInv
  <2> SUFFICES ASSUME Init PROVE WireInv
    OBVIOUS
  <2>1. pc = "read" /\ client = "there" /\ wire = <<>>
    BY DEF Init
  <2> QED BY <2>1 DEF WireInv
<1>2. ConnectionInv /\ WireInv /\ [Next]_vars => WireInv'
  BY WireKeeps
<1>3. ConnectionInv /\ WireInv => StreamWellFormed
  BY WireIsWellFormed DEF ConnectionInv
<1> QED
  BY <1>1, <1>2, <1>3, ConnectionInvariant, PTL DEF Spec

-----------------------------------------------------------------------------
(* What a stream tells. *)

ShownBy(e) == IF e.type \in Increments \cup {"finish"} THEN e.text ELSE <<>>
CallsBy(e) == IF e.type = "response.completed" THEN <<>> ELSE e.calls

ShownIn(s) == FlattenSeq([i \in DOMAIN s |-> ShownBy(s[i])])
CallsIn(s) == FlattenSeq([i \in DOMAIN s |-> CallsBy(s[i])])

\* The event repeats the whole text.
Repeats(e) == \/ e.type \in {"output_text.done", "response.completed", "generated_text"}
              \/ e.type = "stream-end" /\ e.reason = ""

Sound(e, reasons, whole) ==
  /\ e.reason \in reasons \cup {""}
  /\ Repeats(e) => e.text = whole

\* Behind any stream these events show this text and these calls; they give
\* one of these reasons if any, and the whole text where they repeat it.
Tells(t, text, calls, reasons, whole) ==
  /\ t \in Seq(Events)
  /\ text \in Seq(Symbols) /\ calls \in Seq(Seq(Symbols))
  /\ \A i \in 1 .. Len(t) : Sound(t[i], reasons, whole)
  /\ \A s \in Seq(Events) : /\ ShownIn(s \o t) = ShownIn(s) \o text
                            /\ CallsIn(s \o t) = CallsIn(s) \o calls

\* f of every element.
Maps(f, S, T) == f \in [S -> T]
Mapped(f, s) == [i \in DOMAIN s |-> f[s[i]]]

LEMMA MapAppend ==
  ASSUME NEW S, NEW T, NEW s \in Seq(S), NEW e \in S, NEW f, Maps(f, S, T)
  PROVE  Mapped(f, s) \in Seq(T) /\ Mapped(f, Append(s, e)) = Append(Mapped(f, s), f[e])
<1> DEFINE n == Len(s)
           more == Append(s, e)
           a == [i \in DOMAIN s |-> f[s[i]]]
           b == [i \in DOMAIN more |-> f[more[i]]]
<1>1. n \in Nat /\ DOMAIN s = 1 .. n /\ \A i \in 1 .. n : s[i] \in S
  BY LenProperties, ElementOfSeq
<1>2. /\ more \in Seq(S) /\ DOMAIN more = 1 .. n + 1 /\ more[n + 1] = e
      /\ \A i \in 1 .. n : more[i] = s[i]
  <2>1. more \in Seq(S) /\ Len(more) = n + 1 /\ more[n + 1] = e /\ \A i \in 1 .. n : more[i] = s[i]
    BY AppendProperties
  <2> HIDE DEF more
  <2> QED BY <2>1, LenProperties
<1>3. a \in [1 .. n -> T] /\ \A i \in 1 .. n : a[i] = f[s[i]]
  BY <1>1 DEF Maps
<1>4. a \in Seq(T) /\ Len(a) = n
  BY <1>1, <1>3, FunctionIsSeq
<1> HIDE DEF n, more, a
<1>5. f[e] \in T
  BY DEF Maps
<1>6. /\ Append(a, f[e]) \in Seq(T) /\ Len(Append(a, f[e])) = n + 1
      /\ Append(a, f[e])[n + 1] = f[e] /\ \A i \in 1 .. n : Append(a, f[e])[i] = a[i]
  BY <1>4, <1>5, AppendProperties
<1>7. \A i \in 1 .. n + 1 : i \in 1 .. n \/ i = n + 1
  BY <1>1
<1>8. \A i \in 1 .. n + 1 : b[i] = Append(a, f[e])[i]
  <2> SUFFICES ASSUME NEW i \in 1 .. n + 1 PROVE b[i] = Append(a, f[e])[i]
    OBVIOUS
  <2>1. b[i] = f[more[i]]
    BY <1>2
  <2> HIDE DEF b
  <2>2. CASE i \in 1 .. n
    BY <1>2, <1>3, <1>6, <2>1, <2>2
  <2>3. CASE i = n + 1
    BY <1>2, <1>6, <2>1, <2>3
  <2> QED BY <1>7, <2>2, <2>3
<1>9. b \in Seq(T) /\ Len(b) = n + 1
  <2>1. b \in [1 .. n + 1 -> T]
    <3>1. \A i \in 1 .. n + 1 : more[i] \in S
      BY <1>1, <1>2, <1>7
    <3> QED BY <1>2, <3>1 DEF Maps
  <2>2. n + 1 \in Nat
    BY <1>1
  <2> HIDE DEF b
  <2> QED BY <2>1, <2>2, FunctionIsSeq
<1> HIDE DEF b
<1>10. b = Append(a, f[e])
  BY <1>6, <1>8, <1>9, SeqEqual
<1> QED
  BY <1>4, <1>10 DEF a, b, more, Mapped

LEMMA EventTells ==
  ASSUME NEW e \in Events
  PROVE  ShownBy(e) \in Seq(Symbols) /\ CallsBy(e) \in Seq(Seq(Symbols))
<1>1. e.text \in Seq(Symbols) /\ e.calls \in Seq(Seq(Symbols))
  BY DEF Events
<1>2. <<>> \in Seq(Symbols) /\ <<>> \in Seq(Seq(Symbols))
  BY EmptySeq
<1> QED
  BY <1>1, <1>2 DEF ShownBy, CallsBy

LEMMA MapFlattens ==
  ASSUME NEW S, NEW T, NEW s \in Seq(S), NEW e \in S, NEW f, Maps(f, S, Seq(T))
  PROVE  /\ FlattenSeq(Mapped(f, Append(s, e))) = FlattenSeq(Mapped(f, s)) \o f[e]
         /\ FlattenSeq(Mapped(f, s)) \in Seq(T)
<1> DEFINE U == Seq(T)
           a == Mapped(f, s)
<1>1. Maps(f, S, U) /\ f[e] \in U
  BY DEF Maps
<1> HIDE DEF U
<1>2. a \in Seq(U) /\ Mapped(f, Append(s, e)) = Append(a, f[e])
  BY <1>1, MapAppend
<1> HIDE DEF a
<1>3. a \in Seq(Seq(T)) /\ f[e] \in Seq(T)
  BY <1>1, <1>2 DEF U
<1>4. FlattenSeq(Append(a, f[e])) = FlattenSeq(a) \o f[e] /\ FlattenSeq(a) \in Seq(T)
  BY <1>3, FlattenAppend
<1> QED
  BY <1>2, <1>4 DEF a

\* What is told by one more event.
LEMMA TellsOnMore ==
  ASSUME NEW s \in Seq(Events), NEW e \in Events
  PROVE  /\ ShownIn(Append(s, e)) = ShownIn(s) \o ShownBy(e)
         /\ CallsIn(Append(s, e)) = CallsIn(s) \o CallsBy(e)
         /\ ShownIn(s) \in Seq(Symbols) /\ CallsIn(s) \in Seq(Seq(Symbols))
<1> DEFINE shown == [x \in Events |-> ShownBy(x)]
           called == [x \in Events |-> CallsBy(x)]
           more == Append(s, e)
<1>1. Maps(shown, Events, Seq(Symbols)) /\ Maps(called, Events, Seq(Seq(Symbols)))
  BY EventTells DEF Maps
<1>2. /\ \A i \in DOMAIN s : s[i] \in Events
      /\ \A i \in DOMAIN more : more[i] \in Events
  <2>1. more \in Seq(Events)
    BY AppendProperties
  <2> HIDE DEF more
  <2> QED BY <2>1, LenProperties, ElementOfSeq
<1>3. /\ ShownIn(s) = FlattenSeq(Mapped(shown, s)) /\ CallsIn(s) = FlattenSeq(Mapped(called, s))
      /\ ShownIn(more) = FlattenSeq(Mapped(shown, more))
      /\ CallsIn(more) = FlattenSeq(Mapped(called, more))
  <2>1. /\ [i \in DOMAIN s |-> ShownBy(s[i])] = Mapped(shown, s)
        /\ [i \in DOMAIN s |-> CallsBy(s[i])] = Mapped(called, s)
    BY <1>2 DEF Mapped
  <2> HIDE DEF more
  <2>2. /\ [i \in DOMAIN more |-> ShownBy(more[i])] = Mapped(shown, more)
        /\ [i \in DOMAIN more |-> CallsBy(more[i])] = Mapped(called, more)
    BY <1>2 DEF Mapped
  <2> QED BY <2>1, <2>2 DEF ShownIn, CallsIn
<1>4. shown[e] = ShownBy(e) /\ called[e] = CallsBy(e)
  OBVIOUS
<1> HIDE DEF shown, called
<1>5. /\ FlattenSeq(Mapped(shown, more)) = FlattenSeq(Mapped(shown, s)) \o shown[e]
      /\ FlattenSeq(Mapped(shown, s)) \in Seq(Symbols)
  BY <1>1, MapFlattens
<1> DEFINE U == Seq(Symbols)
<1>6. Maps(called, Events, Seq(U))
  BY <1>1
<1> HIDE DEF U
<1>7. /\ FlattenSeq(Mapped(called, more)) = FlattenSeq(Mapped(called, s)) \o called[e]
      /\ FlattenSeq(Mapped(called, s)) \in Seq(U)
  BY <1>6, MapFlattens
<1> HIDE DEF more
<1>8. /\ ShownIn(more) = ShownIn(s) \o ShownBy(e) /\ CallsIn(more) = CallsIn(s) \o CallsBy(e)
      /\ ShownIn(s) \in Seq(Symbols) /\ CallsIn(s) \in Seq(U)
  BY <1>3, <1>4, <1>5, <1>7
<1> QED
  BY <1>8 DEF more, U

\* One event tells what it shows.
LEMMA TellsOne ==
  ASSUME NEW e \in Events, NEW reasons, NEW whole, Sound(e, reasons, whole)
  PROVE  Tells(<<e>>, ShownBy(e), CallsBy(e), reasons, whole)
<1>1. <<e>> \in Seq(Events) /\ Len(<<e>>) = 1 /\ <<e>>[1] = e
  OBVIOUS
<1>2. ShownBy(e) \in Seq(Symbols) /\ CallsBy(e) \in Seq(Seq(Symbols))
  BY EventTells
<1>3. \A i \in 1 .. Len(<<e>>) : Sound(<<e>>[i], reasons, whole)
  BY <1>1
<1>4. ASSUME NEW s \in Seq(Events)
      PROVE  /\ ShownIn(s \o <<e>>) = ShownIn(s) \o ShownBy(e)
             /\ CallsIn(s \o <<e>>) = CallsIn(s) \o CallsBy(e)
  <2>1. Append(s, e) = s \o <<e>>
    BY AppendIsConcat
  <2> QED BY <2>1, TellsOnMore
<1> QED
  BY <1>1, <1>2, <1>3, <1>4 DEF Tells

LEMMA ShownType ==
  ASSUME NEW s \in Seq(Events), NEW e \in Events
  PROVE  ShownIn(s) \in Seq(Symbols) /\ CallsIn(s) \in Seq(Seq(Symbols))
BY TellsOnMore

LEMMA SomeEvent == Mark("done", 0) \in Events
<1>1. "done" \in EventTypes
  BY DEF EventTypes
<1> QED
  BY <1>1, MarkType

LEMMA TellsNothing ==
  ASSUME NEW reasons, NEW whole
  PROVE  Tells(<<>>, <<>>, <<>>, reasons, whole)
<1>1. <<>> \in Seq(Events) /\ <<>> \in Seq(Symbols) /\ <<>> \in Seq(Seq(Symbols)) /\ Len(<<>>) = 0
  BY EmptySeq
<1>2. \A i \in 1 .. Len(<<>>) : Sound(<<>>[i], reasons, whole)
  BY <1>1
<1>3. ASSUME NEW s \in Seq(Events)
      PROVE  ShownIn(s \o <<>>) = ShownIn(s) \o <<>> /\ CallsIn(s \o <<>>) = CallsIn(s) \o <<>>
  <2>1. ShownIn(s) \in Seq(Symbols) /\ CallsIn(s) \in Seq(Seq(Symbols))
    BY SomeEvent, ShownType
  <2>2. s \o <<>> = s
    BY ConcatEmptySeq
  <2>3. ShownIn(s) \o <<>> = ShownIn(s)
    BY <2>1, ConcatEmptySeq
  <2>4. CallsIn(s) \o <<>> = CallsIn(s)
    BY <2>1, ConcatEmptySeq
  <2> QED BY <2>2, <2>3, <2>4
<1> QED
  BY <1>1, <1>2, <1>3 DEF Tells

LEMMA TellsJoin ==
  ASSUME NEW reasons, NEW whole,
         NEW t, NEW text, NEW calls, Tells(t, text, calls, reasons, whole),
         NEW u, NEW text2, NEW calls2, Tells(u, text2, calls2, reasons, whole)
  PROVE  Tells(t \o u, text \o text2, calls \o calls2, reasons, whole)
<1>1. /\ t \in Seq(Events) /\ u \in Seq(Events)
      /\ \A i \in 1 .. Len(t) : Sound(t[i], reasons, whole)
      /\ \A i \in 1 .. Len(u) : Sound(u[i], reasons, whole)
  BY DEF Tells
<1>2. text \in Seq(Symbols) /\ text2 \in Seq(Symbols)
  BY DEF Tells
<1>3. calls \in Seq(Seq(Symbols)) /\ calls2 \in Seq(Seq(Symbols))
  BY DEF Tells
<1>4. t \o u \in Seq(Events) /\ text \o text2 \in Seq(Symbols)
  BY <1>1, <1>2, ConcatProperties
<1>5. calls \o calls2 \in Seq(Seq(Symbols))
  BY <1>3, ConcatProperties
<1>6. ASSUME NEW i \in 1 .. Len(t \o u)
      PROVE  Sound((t \o u)[i], reasons, whole)
  <2>1. Len(t) \in Nat /\ Len(u) \in Nat /\ Len(t \o u) = Len(t) + Len(u)
    BY <1>1, ConcatProperties, LenProperties
  <2>2. CASE i <= Len(t)
    <3>1. i \in 1 .. Len(t)
      BY <2>1, <2>2
    <3>2. (t \o u)[i] = t[i]
      BY <1>1, <3>1, ConcatProperties
    <3> QED BY <1>1, <3>1, <3>2
  <2>3. CASE ~(i <= Len(t))
    <3>1. i - Len(t) \in 1 .. Len(u)
      BY <2>1, <2>3
    <3>2. (t \o u)[i] = u[i - Len(t)]
      BY <1>1, <2>1, <2>3, ConcatProperties
    <3> QED BY <1>1, <3>1, <3>2
  <2> QED BY <2>2, <2>3
<1>7. ASSUME NEW s \in Seq(Events)
      PROVE  /\ ShownIn(s \o (t \o u)) = ShownIn(s) \o (text \o text2)
             /\ CallsIn(s \o (t \o u)) = CallsIn(s) \o (calls \o calls2)
  <2>1. s \o t \in Seq(Events)
    BY <1>1, ConcatProperties
  <2>2. (s \o t) \o u = s \o (t \o u)
    BY <1>1, Associative
  <2>3. /\ ShownIn(s \o t) = ShownIn(s) \o text
        /\ CallsIn(s \o t) = CallsIn(s) \o calls
    BY DEF Tells
  <2>4. /\ ShownIn((s \o t) \o u) = ShownIn(s \o t) \o text2
        /\ CallsIn((s \o t) \o u) = CallsIn(s \o t) \o calls2
    BY <2>1 DEF Tells
  <2>5. ShownIn(s) \in Seq(Symbols) /\ CallsIn(s) \in Seq(Seq(Symbols))
    BY SomeEvent, ShownType
  <2>6. (ShownIn(s) \o text) \o text2 = ShownIn(s) \o (text \o text2)
    BY <1>2, <2>5, Associative
  <2>7. (CallsIn(s) \o calls) \o calls2 = CallsIn(s) \o (calls \o calls2)
    <3> DEFINE T == Seq(Symbols)
    <3>1. CallsIn(s) \in Seq(T) /\ calls \in Seq(T) /\ calls2 \in Seq(T)
      BY <1>3, <2>5
    <3> HIDE DEF T
    <3> QED BY <3>1, Associative
  <2> QED BY <2>2, <2>3, <2>4, <2>6, <2>7
<1> QED
  BY <1>4, <1>5, <1>6, <1>7 DEF Tells

\* What may be told beside.
LEMMA TellsMore ==
  ASSUME NEW reasons, NEW more, reasons \subseteq more, NEW whole,
         NEW t, NEW text, NEW calls, Tells(t, text, calls, reasons, whole)
  PROVE  Tells(t, text, calls, more, whole)
<1>1. \A i \in 1 .. Len(t) : Sound(t[i], more, whole)
  BY DEF Tells, Sound
<1> QED
  BY <1>1 DEF Tells

\* What a whole stream tells is what the client sees.
LEMMA TellsMeans ==
  ASSUME NEW reasons, NEW whole, NEW t, NEW text, NEW calls,
         Tells(t, text, calls, reasons, whole)
  PROVE  ShownIn(t) = text /\ CallsIn(t) = calls
<1>1. t \in Seq(Events) /\ text \in Seq(Symbols)
  BY DEF Tells
<1>2. calls \in Seq(Seq(Symbols)) /\ <<>> \in Seq(Events)
  BY EmptySeq DEF Tells
<1>3. ShownIn(<<>> \o t) = ShownIn(<<>>) \o text /\ CallsIn(<<>> \o t) = CallsIn(<<>>) \o calls
  BY <1>2 DEF Tells
<1>4. ShownIn(<<>>) = <<>> /\ CallsIn(<<>>) = <<>>
  <2>1. DOMAIN <<>> = {}
    OBVIOUS
  <2>2. /\ [i \in DOMAIN <<>> |-> ShownBy(<<>>[i])] = <<>>
        /\ [i \in DOMAIN <<>> |-> CallsBy(<<>>[i])] = <<>>
    BY <2>1
  <2> QED BY <2>2, FlattenEmpty DEF ShownIn, CallsIn
<1>5. <<>> \o t = t /\ <<>> \o text = text
  BY <1>1, ConcatEmptySeq
<1>6. <<>> \o calls = calls
  BY <1>2, ConcatEmptySeq
<1> QED
  BY <1>3, <1>4, <1>5, <1>6

\* The beginnings of a sequence grow by one element at a time.
LEMMA PrefixGrows ==
  ASSUME NEW S, NEW s \in Seq(S), NEW k \in 1 .. Len(s)
  PROVE  /\ SubSeq(s, 1, k - 1) \in Seq(S) /\ s[k] \in S
         /\ SubSeq(s, 1, k) = Append(SubSeq(s, 1, k - 1), s[k])
<1> DEFINE n == Len(s)
           longer == SubSeq(s, 1, k)
           before == SubSeq(s, 1, k - 1)
           more == Append(before, s[k])
<1>1. n \in Nat /\ \A i \in 1 .. n : s[i] \in S
  BY LenProperties, ElementOfSeq
<1>2. \A i \in 1 .. k : s[i] \in S
  BY <1>1
<1>3. longer \in Seq(S) /\ Len(longer) = k /\ \A i \in 1 .. k : longer[i] = s[i]
  <2>1. /\ longer \in Seq(S) /\ Len(longer) = IF 1 <= k THEN k - 1 + 1 ELSE 0
        /\ \A i \in 1 .. k - 1 + 1 : longer[i] = s[1 + i - 1]
    BY <1>1, <1>2, SubSeqProperties
  <2> HIDE DEF longer
  <2> QED BY <1>1, <2>1
<1>4. before \in Seq(S) /\ Len(before) = k - 1 /\ \A i \in 1 .. k - 1 : before[i] = s[i]
  <2>1. /\ before \in Seq(S) /\ Len(before) = IF 1 <= k - 1 THEN k - 1 - 1 + 1 ELSE 0
        /\ \A i \in 1 .. k - 1 - 1 + 1 : before[i] = s[1 + i - 1]
    BY <1>1, <1>2, SubSeqProperties
  <2> HIDE DEF before
  <2> QED BY <1>1, <2>1
<1> HIDE DEF before, longer
<1>5. /\ more \in Seq(S) /\ Len(more) = k /\ more[k] = s[k]
      /\ \A i \in 1 .. k - 1 : more[i] = s[i]
  <2>1. /\ more \in Seq(S) /\ Len(more) = Len(before) + 1 /\ more[Len(before) + 1] = s[k]
        /\ \A i \in 1 .. Len(before) : more[i] = before[i]
    BY <1>1, <1>4, AppendProperties
  <2> HIDE DEF more
  <2> QED BY <1>1, <1>4, <2>1
<1> HIDE DEF more
<1>6. \A i \in 1 .. k : i \in 1 .. k - 1 \/ i = k
  BY <1>1
<1>7. \A i \in 1 .. k : more[i] = longer[i]
  BY <1>3, <1>5, <1>6
<1>8. longer = more
  BY <1>3, <1>5, <1>7, SeqEqual
<1> QED
  BY <1>1, <1>4, <1>8 DEF longer, more, before

LEMMA PrefixWhole ==
  ASSUME NEW S, NEW s \in Seq(S)
  PROVE  SubSeq(s, 1, Len(s)) = s /\ SubSeq(s, 1, 0) = <<>>
<1> DEFINE n == Len(s)
           all == SubSeq(s, 1, n)
<1>1. n \in Nat /\ \A i \in 1 .. n : s[i] \in S
  BY LenProperties, ElementOfSeq
<1>2. all \in Seq(S) /\ Len(all) = n /\ \A i \in 1 .. n : all[i] = s[i]
  <2>1. /\ all \in Seq(S) /\ Len(all) = IF 1 <= n THEN n - 1 + 1 ELSE 0
        /\ \A i \in 1 .. n - 1 + 1 : all[i] = s[1 + i - 1]
    BY <1>1, SubSeqProperties
  <2> HIDE DEF all
  <2> QED BY <1>1, <2>1
<1> HIDE DEF all
<1>3. all = s
  BY <1>2, SeqEqual
<1>4. SubSeq(s, 1, 0) = <<>>
  BY SubSeqEmpty
<1> QED
  BY <1>3, <1>4 DEF all

\* Groups of events that tell one call each.
LEMMA TellsGroups ==
  ASSUME NEW reasons, NEW whole, NEW calls \in Seq(Seq(Symbols)),
         NEW groups \in Seq(Seq(Events)), Len(groups) = Len(calls),
         \A i \in 1 .. Len(calls) : Tells(groups[i], <<>>, <<calls[i]>>, reasons, whole)
  PROVE  Tells(FlattenSeq(groups), <<>>, calls, reasons, whole)
<1> DEFINE n == Len(calls)
           Events0(k) == SubSeq(groups, 1, k)
           Calls0(k) == SubSeq(calls, 1, k)
           Reached(k) == Tells(FlattenSeq(Events0(k)), <<>>, Calls0(k), reasons, whole)
           Good == {k \in 1 .. n : Reached(k)}
<1>1. n \in Nat
  BY LenProperties
<1>2. Reached(0)
  <2>1. Events0(0) = <<>> /\ Calls0(0) = <<>>
    BY PrefixWhole
  <2> QED BY <2>1, FlattenEmpty, TellsNothing
<1>3. ASSUME NEW k \in 1 .. n, \A j \in 1 .. k - 1 : j \in Good
      PROVE  k \in Good
  <2>1. Reached(k - 1)
    BY <1>1, <1>2, <1>3
  <2>2. /\ Events0(k - 1) \in Seq(Seq(Events)) /\ groups[k] \in Seq(Events)
        /\ Events0(k) = Append(Events0(k - 1), groups[k])
    BY PrefixGrows
  <2>3. /\ Calls0(k - 1) \in Seq(Seq(Symbols)) /\ calls[k] \in Seq(Symbols)
        /\ Calls0(k) = Append(Calls0(k - 1), calls[k])
    BY PrefixGrows
  <2>4. Tells(groups[k], <<>>, <<calls[k]>>, reasons, whole)
    BY <1>1
  <2> HIDE DEF Events0, Calls0, n
  <2>5. FlattenSeq(Events0(k)) = FlattenSeq(Events0(k - 1)) \o groups[k]
    BY <2>2, FlattenAppend
  <2>6. Calls0(k) = Calls0(k - 1) \o <<calls[k]>>
    BY <2>3, AppendIsConcat
  <2>7. Tells(FlattenSeq(Events0(k - 1)) \o groups[k], <<>> \o <<>>,
              Calls0(k - 1) \o <<calls[k]>>, reasons, whole)
    BY <2>1, <2>4, TellsJoin
  <2>8. <<>> \o <<>> = <<>>
    OBVIOUS
  <2>9. Reached(k)
    BY <2>5, <2>6, <2>7, <2>8
  <2> QED BY <2>9
<1>4. Reached(n)
  <2>1. CASE n = 0
    BY <1>2, <2>1
  <2>2. CASE n # 0
    <3>1. n \in 1 .. n
      BY <1>1, <2>2
    <3> HIDE DEF Good
    <3>2. n \in Good
      BY <1>1, <1>3, <3>1, Upwards
    <3> QED BY <3>2 DEF Good
  <2> QED BY <2>1, <2>2
<1>5. Events0(n) = groups /\ Calls0(n) = calls
  BY PrefixWhole
<1> QED
  BY <1>4, <1>5

\* A block per call tells the calls.
LEMMA BlocksTell ==
  ASSUME NEW reasons, NEW whole, NEW calls \in Seq(Seq(Symbols)), NEW groups,
         DOMAIN groups = DOMAIN calls,
         \A i \in 1 .. Len(calls) : Tells(groups[i], <<>>, <<calls[i]>>, reasons, whole),
         groups = [i \in DOMAIN groups |-> groups[i]]
  PROVE  Tells(FlattenSeq(groups), <<>>, calls, reasons, whole)
<1> DEFINE n == Len(calls)
<1>1. n \in Nat /\ DOMAIN groups = 1 .. n
  BY LenProperties
<1>2. \A i \in 1 .. n : groups[i] \in Seq(Events)
  BY DEF Tells
<1>3. groups \in [1 .. n -> Seq(Events)]
  BY <1>1, <1>2
<1>4. groups \in Seq(Seq(Events)) /\ Len(groups) = n
  BY <1>1, <1>3, FunctionIsSeq
<1> QED
  BY <1>4, TellsGroups

-----------------------------------------------------------------------------
(* What each kind of event tells. *)

Repeating == {"output_text.done", "response.completed", "generated_text", "stream-end"}

\* A piece of the text, and calls beside it.
LEMMA PieceTells ==
  ASSUME NEW reasons, NEW whole, NEW type \in EventTypes \ Repeating, NEW index \in Nat,
         NEW text \in Seq(Symbols), NEW calls \in Seq(Seq(Symbols)),
         type \in Increments \/ text = <<>>
  PROVE  Tells(<<Event(type, index, text, calls)>>, text, calls, reasons, whole)
<1> DEFINE e == Event(type, index, text, calls)
<1>1. e \in Events
  BY EventType
<1>2. e.type = type /\ e.text = text /\ e.calls = calls /\ e.reason = ""
  BY DEF Event
<1> HIDE DEF e
<1>3. ShownBy(e) = text
  BY <1>2 DEF ShownBy
<1>4. CallsBy(e) = calls
  BY <1>2 DEF CallsBy, Repeating
<1>5. Sound(e, reasons, whole)
  BY <1>2 DEF Sound, Repeats, Repeating
<1>6. Tells(<<e>>, text, calls, reasons, whole)
  BY <1>1, <1>3, <1>4, <1>5, TellsOne
<1> QED
  BY <1>6 DEF e

LEMMA TextTells ==
  ASSUME NEW reasons, NEW whole, NEW type \in Increments, NEW index \in Nat,
         NEW text \in Seq(Symbols)
  PROVE  Tells(<<Event(type, index, text, <<>>)>>, text, <<>>, reasons, whole)
<1> DEFINE none == <<>>
<1>1. none \in Seq(Seq(Symbols))
  BY EmptySeq
<1>2. type \in EventTypes \ Repeating
  BY DEF Increments, EventTypes, Within, Repeating
<1> HIDE DEF none
<1>3. Tells(<<Event(type, index, text, none)>>, text, none, reasons, whole)
  BY <1>1, <1>2, PieceTells
<1> QED
  BY <1>3 DEF none

LEMMA CallsTell ==
  ASSUME NEW reasons, NEW whole, NEW type \in EventTypes \ Repeating, NEW index \in Nat,
         NEW calls \in Seq(Seq(Symbols))
  PROVE  Tells(<<Event(type, index, <<>>, calls)>>, <<>>, calls, reasons, whole)
<1> DEFINE none == <<>>
<1>1. none \in Seq(Symbols) /\ none = <<>>
  BY EmptySeq
<1> HIDE DEF none
<1>2. Tells(<<Event(type, index, none, calls)>>, none, calls, reasons, whole)
  BY <1>1, PieceTells
<1> QED
  BY <1>2 DEF none

LEMMA MarkTells ==
  ASSUME NEW reasons, NEW whole, NEW type \in EventTypes \ Repeating, NEW index \in Nat
  PROVE  Tells(<<Mark(type, index)>>, <<>>, <<>>, reasons, whole)
<1> DEFINE none == <<>>
<1>1. none \in Seq(Seq(Symbols))
  BY EmptySeq
<1>2. Mark(type, index) = Event(type, index, <<>>, none)
  BY DEF Mark
<1> HIDE DEF none
<1>3. Tells(<<Event(type, index, <<>>, none)>>, <<>>, none, reasons, whole)
  BY <1>1, CallsTell
<1> QED
  BY <1>2, <1>3 DEF none

LEMMA SignalTells ==
  ASSUME NEW reasons, NEW whole, NEW type \in EventTypes \ Repeating
  PROVE  Tells(<<Signal(type)>>, <<>>, <<>>, reasons, whole)
BY MarkTells DEF Signal

\* The whole text once more, which is nothing new.
LEMMA WholeTells ==
  ASSUME NEW reasons, NEW whole \in Seq(Symbols), NEW type \in Repeating, NEW index \in Nat,
         NEW calls \in Seq(Seq(Symbols)), calls = <<>> \/ type = "response.completed"
  PROVE  Tells(<<Event(type, index, whole, calls)>>, <<>>, <<>>, reasons, whole)
<1> DEFINE e == Event(type, index, whole, calls)
<1>1. type \in EventTypes
  BY DEF Repeating, EventTypes, Within
<1>2. e \in Events
  BY <1>1, EventType
<1>3. e.type = type /\ e.text = whole /\ e.calls = calls /\ e.reason = ""
  BY DEF Event
<1> HIDE DEF e
<1>4. ShownBy(e) = <<>>
  BY <1>3 DEF ShownBy, Increments, Repeating
<1>5. CallsBy(e) = <<>>
  BY <1>3 DEF CallsBy
<1>6. Sound(e, reasons, whole)
  BY <1>3 DEF Sound
<1>7. Tells(<<e>>, <<>>, <<>>, reasons, whole)
  BY <1>2, <1>4, <1>5, <1>6, TellsOne
<1> QED
  BY <1>7 DEF e

LEMMA WholeTextTells ==
  ASSUME NEW reasons, NEW whole \in Seq(Symbols), NEW type \in Repeating, NEW index \in Nat
  PROVE  Tells(<<Event(type, index, whole, <<>>)>>, <<>>, <<>>, reasons, whole)
<1> DEFINE none == <<>>
<1>1. none \in Seq(Seq(Symbols)) /\ none = <<>>
  BY EmptySeq
<1> HIDE DEF none
<1>2. Tells(<<Event(type, index, whole, none)>>, <<>>, <<>>, reasons, whole)
  BY <1>1, WholeTells
<1> QED
  BY <1>2 DEF none

\* The reason why the text ended.
LEMMA FinishTells ==
  ASSUME NEW reasons, NEW whole, NEW type \in EventTypes \ Repeating,
         NEW reason \in Reasons, reason \in reasons
  PROVE  Tells(<<Finish(type, reason)>>, <<>>, <<>>, reasons, whole)
<1> DEFINE e == Finish(type, reason)
<1>1. e \in Events /\ e.type = type /\ e.reason = reason
  BY SignalType
<1>2. e.text = <<>> /\ e.calls = <<>>
  BY DEF Finish, Signal, Mark, Event
<1> HIDE DEF e
<1>3. ShownBy(e) = <<>> /\ CallsBy(e) = <<>>
  BY <1>2 DEF ShownBy, CallsBy
<1>4. Sound(e, reasons, whole)
  BY <1>1 DEF Sound, Repeats, Repeating
<1>5. Tells(<<e>>, <<>>, <<>>, reasons, whole)
  BY <1>1, <1>3, <1>4, TellsOne
<1> QED
  BY <1>5 DEF e

LEMMA NothingMore ==
  ASSUME NEW text \in Seq(Symbols), NEW calls \in Seq(Seq(Symbols))
  PROVE  /\ <<>> \o text = text /\ text \o <<>> = text
         /\ <<>> \o calls = calls /\ calls \o <<>> = calls
<1>1. <<>> \o text = text /\ text \o <<>> = text
  BY ConcatEmptySeq
<1>2. <<>> \o calls = calls /\ calls \o <<>> = calls
  BY ConcatEmptySeq
<1> QED
  BY <1>1, <1>2

\* Events that tell nothing, before and behind.
LEMMA TellsBehind ==
  ASSUME NEW reasons, NEW whole,
         NEW t, NEW text, NEW calls, Tells(t, text, calls, reasons, whole),
         NEW u, Tells(u, <<>>, <<>>, reasons, whole)
  PROVE  Tells(t \o u, text, calls, reasons, whole) /\ Tells(u \o t, text, calls, reasons, whole)
<1>1. text \in Seq(Symbols) /\ calls \in Seq(Seq(Symbols))
  BY DEF Tells
<1>2. /\ <<>> \o text = text /\ text \o <<>> = text
      /\ <<>> \o calls = calls /\ calls \o <<>> = calls
  BY <1>1, NothingMore
<1>3. Tells(t \o u, text \o <<>>, calls \o <<>>, reasons, whole)
  BY TellsJoin
<1>4. Tells(u \o t, <<>> \o text, <<>> \o calls, reasons, whole)
  BY TellsJoin
<1> QED
  BY <1>2, <1>3, <1>4

LEMMA TellsBetween ==
  ASSUME NEW reasons, NEW whole, NEW a \in Events, NEW e \in Events, NEW b \in Events,
         Tells(<<a>>, <<>>, <<>>, reasons, whole), Tells(<<b>>, <<>>, <<>>, reasons, whole),
         NEW text, NEW calls, Tells(<<e>>, text, calls, reasons, whole)
  PROVE  Tells(<<a, e, b>>, text, calls, reasons, whole)
<1>1. Tells(<<a>> \o <<e>>, text, calls, reasons, whole)
  BY TellsBehind
<1>2. Tells((<<a>> \o <<e>>) \o <<b>>, text, calls, reasons, whole)
  BY <1>1, TellsBehind
<1>3. <<a, e, b>> = (<<a>> \o <<e>>) \o <<b>>
  BY Three
<1> QED
  BY <1>2, <1>3

LEMMA TellsTwo ==
  ASSUME NEW reasons, NEW whole, NEW a \in Events, NEW b \in Events,
         NEW text, NEW calls, Tells(<<a>>, text, calls, reasons, whole),
         Tells(<<b>>, <<>>, <<>>, reasons, whole)
  PROVE  Tells(<<a, b>>, text, calls, reasons, whole)
<1>1. Tells(<<a>> \o <<b>>, text, calls, reasons, whole)
  BY TellsBehind
<1>2. <<a, b>> = <<a>> \o <<b>>
  BY Two
<1> QED
  BY <1>1, <1>2

-----------------------------------------------------------------------------
(* What each block tells. *)

Plain == EventTypes \ Repeating

LEMMA PlainTypes ==
  /\ {"content_block_start", "content_block_delta", "content_block_stop", "message_delta",
      "message_start", "message_stop", "ping"} \subseteq Plain
  /\ {"output_item.added", "content_part.added", "output_text.delta", "content_part.done",
      "output_item.done", "function_call_arguments.delta", "function_call_arguments.done",
      "response.created", "response.in_progress", "[DONE]"} \subseteq Plain
  /\ {"content-start", "content-delta", "content-end", "tool-call-start", "tool-call-delta",
      "tool-call-end", "message-start", "message-end"} \subseteq Plain
  /\ {"role", "delta", "finish", "usage", "done", "stream-start"} \subseteq Plain
<1>1. {"content_block_start", "content_block_delta", "content_block_stop", "message_delta",
       "message_start", "message_stop", "ping"} \subseteq Plain
  BY DEF Plain, Repeating, EventTypes, Opens, Closes, Within
<1>2. {"output_item.added", "content_part.added", "output_text.delta", "content_part.done",
       "output_item.done", "function_call_arguments.delta", "function_call_arguments.done",
       "response.created", "response.in_progress", "[DONE]"} \subseteq Plain
  BY DEF Plain, Repeating, EventTypes, Opens, Closes, Within
<1>3. {"content-start", "content-delta", "content-end", "tool-call-start", "tool-call-delta",
       "tool-call-end", "message-start", "message-end"} \subseteq Plain
  BY DEF Plain, Repeating, EventTypes, Opens, Closes, Within
<1>4. {"role", "delta", "finish", "usage", "done", "stream-start"} \subseteq Plain
  BY DEF Plain, Repeating, EventTypes
<1> QED
  BY <1>1, <1>2, <1>3, <1>4

LEMMA PlainMark ==
  ASSUME NEW reasons, NEW whole, NEW type \in Plain, NEW index \in Nat
  PROVE  /\ Mark(type, index) \in Events
         /\ Tells(<<Mark(type, index)>>, <<>>, <<>>, reasons, whole)
BY MarkTells, MarkType DEF Plain

LEMMA AnthropicBlockTells ==
  ASSUME NEW reasons, NEW whole, NEW index \in Nat, NEW text \in Seq(Symbols),
         NEW calls \in Seq(Seq(Symbols))
  PROVE  Tells(AnthropicBlock(index, text, calls), text, calls, reasons, whole)
<1> DEFINE a == Mark("content_block_start", index)
           e == Event("content_block_delta", index, text, calls)
           b == Mark("content_block_stop", index)
<1>1. /\ a \in Events /\ Tells(<<a>>, <<>>, <<>>, reasons, whole)
      /\ b \in Events /\ Tells(<<b>>, <<>>, <<>>, reasons, whole)
  BY PlainTypes, PlainMark
<1>2. "content_block_delta" \in EventTypes \ Repeating /\ "content_block_delta" \in Increments
  BY PlainTypes DEF Plain, Increments
<1>3. e \in Events /\ Tells(<<e>>, text, calls, reasons, whole)
  BY <1>2, EventType, PieceTells
<1>4. AnthropicBlock(index, text, calls) = <<a, e, b>>
  BY DEF AnthropicBlock
<1> HIDE DEF a, e, b
<1> QED
  BY <1>1, <1>3, <1>4, TellsBetween

LEMMA CohereContentTells ==
  ASSUME NEW reasons, NEW whole, NEW text \in Seq(Symbols)
  PROVE  Tells(CohereContent(text), text, <<>>, reasons, whole)
<1> DEFINE a == Mark("content-start", 0)
           e == Event("content-delta", 0, text, <<>>)
           b == Mark("content-end", 0)
<1>1. /\ a \in Events /\ Tells(<<a>>, <<>>, <<>>, reasons, whole)
      /\ b \in Events /\ Tells(<<b>>, <<>>, <<>>, reasons, whole)
  BY PlainTypes, PlainMark
<1>2. "content-delta" \in EventTypes /\ "content-delta" \in Increments
  BY PlainTypes DEF Plain, Increments
<1>3. e \in Events /\ Tells(<<e>>, text, <<>>, reasons, whole)
  BY <1>2, TextEventType, TextTells
<1>4. CohereContent(text) = <<a, e, b>>
  BY DEF CohereContent
<1> HIDE DEF a, e, b
<1> QED
  BY <1>1, <1>3, <1>4, TellsBetween

LEMMA CohereCallTells ==
  ASSUME NEW reasons, NEW whole, NEW index \in Nat, NEW call \in Seq(Symbols)
  PROVE  Tells(CohereCall(index, call), <<>>, <<call>>, reasons, whole)
<1> DEFINE a == Mark("tool-call-start", index)
           calls == <<call>>
           e == Event("tool-call-delta", index, <<>>, calls)
           b == Mark("tool-call-end", index)
<1>1. /\ a \in Events /\ Tells(<<a>>, <<>>, <<>>, reasons, whole)
      /\ b \in Events /\ Tells(<<b>>, <<>>, <<>>, reasons, whole)
  BY PlainTypes, PlainMark
<1>2. "tool-call-delta" \in EventTypes \ Repeating /\ calls \in Seq(Seq(Symbols))
  BY PlainTypes DEF Plain
<1>3. CohereCall(index, call) = <<a, e, b>>
  BY DEF CohereCall
<1> HIDE DEF calls
<1>4. e \in Events /\ Tells(<<e>>, <<>>, calls, reasons, whole)
  BY <1>2, CallEventType, CallsTell
<1> HIDE DEF a, e, b
<1>5. Tells(<<a, e, b>>, <<>>, calls, reasons, whole)
  BY <1>1, <1>4, TellsBetween
<1> QED
  BY <1>3, <1>5 DEF calls

LEMMA ResponseCallTells ==
  ASSUME NEW reasons, NEW whole, NEW index \in Nat, NEW call \in Seq(Symbols)
  PROVE  Tells(ResponseCall(index, call), <<>>, <<call>>, reasons, whole)
<1> DEFINE a == Mark("output_item.added", index)
           calls == <<call>>
           e == Event("function_call_arguments.delta", index, <<>>, calls)
           b == Mark("function_call_arguments.done", index)
           c == Mark("output_item.done", index)
<1>1. /\ a \in Events /\ Tells(<<a>>, <<>>, <<>>, reasons, whole)
      /\ b \in Events /\ Tells(<<b>>, <<>>, <<>>, reasons, whole)
      /\ c \in Events /\ Tells(<<c>>, <<>>, <<>>, reasons, whole)
  BY PlainTypes, PlainMark
<1>2. "function_call_arguments.delta" \in EventTypes \ Repeating /\ calls \in Seq(Seq(Symbols))
  BY PlainTypes DEF Plain
<1>3. ResponseCall(index, call) = <<a, e, b, c>>
  BY DEF ResponseCall
<1> HIDE DEF calls
<1>4. e \in Events /\ Tells(<<e>>, <<>>, calls, reasons, whole)
  BY <1>2, CallEventType, CallsTell
<1> HIDE DEF a, e, b, c
<1>5. Tells(<<a, e, b>>, <<>>, calls, reasons, whole)
  BY <1>1, <1>4, TellsBetween
<1>6. Tells(<<a, e, b>> \o <<c>>, <<>>, calls, reasons, whole)
  BY <1>1, <1>5, TellsBehind
<1>7. <<a, e, b, c>> = <<a, e, b>> \o <<c>>
  OBVIOUS
<1> QED
  BY <1>3, <1>6, <1>7 DEF calls

LEMMA ResponseStartTells ==
  ASSUME NEW reasons, NEW whole
  PROVE  Tells(write_responses_text_start(0), <<>>, <<>>, reasons, whole)
<1> DEFINE a == Mark("output_item.added", 0)
           b == Mark("content_part.added", 0)
<1>1. /\ a \in Events /\ Tells(<<a>>, <<>>, <<>>, reasons, whole)
      /\ b \in Events /\ Tells(<<b>>, <<>>, <<>>, reasons, whole)
  BY PlainTypes, PlainMark
<1>2. write_responses_text_start(0) = <<a, b>>
  BY DEF write_responses_text_start
<1> HIDE DEF a, b
<1> QED
  BY <1>1, <1>2, TellsTwo

LEMMA ResponseDoneTells ==
  ASSUME NEW reasons, NEW whole \in Seq(Symbols)
  PROVE  Tells(write_responses_text_done(0, whole), <<>>, <<>>, reasons, whole)
<1> DEFINE e == Event("output_text.done", 0, whole, <<>>)
           a == Mark("content_part.done", 0)
           b == Mark("output_item.done", 0)
<1>1. /\ a \in Events /\ Tells(<<a>>, <<>>, <<>>, reasons, whole)
      /\ b \in Events /\ Tells(<<b>>, <<>>, <<>>, reasons, whole)
  BY PlainTypes, PlainMark
<1>2. "output_text.done" \in EventTypes /\ "output_text.done" \in Repeating
  BY DEF EventTypes, Within, Repeating
<1>3. e \in Events /\ Tells(<<e>>, <<>>, <<>>, reasons, whole)
  BY <1>2, TextEventType, WholeTextTells
<1>4. write_responses_text_done(0, whole) = <<e, a, b>>
  BY DEF write_responses_text_done
<1> HIDE DEF a, e, b
<1> QED
  BY <1>1, <1>3, <1>4, TellsBetween

LEMMA AnthropicCallsTell ==
  ASSUME NEW reasons, NEW whole, NEW first \in Nat, NEW calls \in Seq(Seq(Symbols))
  PROVE  Tells(FlattenSeq([i \in DOMAIN calls |-> AnthropicBlock(first + i - 1, <<>>, <<calls[i]>>)]),
               <<>>, calls, reasons, whole)
<1> DEFINE n == Len(calls)
           groups == [i \in DOMAIN calls |-> AnthropicBlock(first + i - 1, <<>>, <<calls[i]>>)]
<1>1. n \in Nat /\ DOMAIN calls = 1 .. n
  BY LenProperties
<1>2. ASSUME NEW i \in 1 .. n
      PROVE  Tells(groups[i], <<>>, <<calls[i]>>, reasons, whole)
  <2>1. groups[i] = AnthropicBlock(first + i - 1, <<>>, <<calls[i]>>)
    BY <1>1
  <2> DEFINE index == first + i - 1
             call == <<calls[i]>>
             text == <<>>
  <2>2. index \in Nat
    BY <1>1
  <2>3. call \in Seq(Seq(Symbols))
    BY CallSingleton
  <2>4. text \in Seq(Symbols)
    BY EmptySeq
  <2> HIDE DEF index, call, text, groups
  <2>5. Tells(AnthropicBlock(index, text, call), text, call, reasons, whole)
    BY <2>2, <2>3, <2>4, AnthropicBlockTells
  <2> QED BY <2>1, <2>5 DEF index, call, text
<1>3. DOMAIN groups = DOMAIN calls /\ groups = [i \in DOMAIN groups |-> groups[i]]
  OBVIOUS
<1> HIDE DEF groups
<1>4. Tells(FlattenSeq(groups), <<>>, calls, reasons, whole)
  BY <1>2, <1>3, BlocksTell
<1> QED
  BY <1>4 DEF groups

LEMMA ResponseCallsTell ==
  ASSUME NEW reasons, NEW whole, NEW first \in Nat, NEW calls \in Seq(Seq(Symbols))
  PROVE  Tells(FlattenSeq([i \in DOMAIN calls |-> ResponseCall(first + i - 1, calls[i])]),
               <<>>, calls, reasons, whole)
<1> DEFINE n == Len(calls)
           groups == [i \in DOMAIN calls |-> ResponseCall(first + i - 1, calls[i])]
<1>1. n \in Nat /\ DOMAIN calls = 1 .. n
  BY LenProperties
<1>2. ASSUME NEW i \in 1 .. n
      PROVE  Tells(groups[i], <<>>, <<calls[i]>>, reasons, whole)
  <2>1. groups[i] = ResponseCall(first + i - 1, calls[i])
    BY <1>1
  <2>2. first + i - 1 \in Nat /\ calls[i] \in Seq(Symbols)
    BY <1>1, CallSingleton
  <2> HIDE DEF groups
  <2> QED BY <2>1, <2>2, ResponseCallTells
<1>3. DOMAIN groups = DOMAIN calls /\ groups = [i \in DOMAIN groups |-> groups[i]]
  OBVIOUS
<1> HIDE DEF groups
<1>4. Tells(FlattenSeq(groups), <<>>, calls, reasons, whole)
  BY <1>2, <1>3, BlocksTell
<1> QED
  BY <1>4 DEF groups

LEMMA CohereCallsTell ==
  ASSUME NEW reasons, NEW whole, NEW calls \in Seq(Seq(Symbols))
  PROVE  Tells(FlattenSeq([i \in DOMAIN calls |-> CohereCall(i - 1, calls[i])]),
               <<>>, calls, reasons, whole)
<1> DEFINE n == Len(calls)
           groups == [i \in DOMAIN calls |-> CohereCall(i - 1, calls[i])]
<1>1. n \in Nat /\ DOMAIN calls = 1 .. n
  BY LenProperties
<1>2. ASSUME NEW i \in 1 .. n
      PROVE  Tells(groups[i], <<>>, <<calls[i]>>, reasons, whole)
  <2>1. groups[i] = CohereCall(i - 1, calls[i])
    BY <1>1
  <2>2. i - 1 \in Nat /\ calls[i] \in Seq(Symbols)
    BY <1>1, CallSingleton
  <2> HIDE DEF groups
  <2> QED BY <2>1, <2>2, CohereCallTells
<1>3. DOMAIN groups = DOMAIN calls /\ groups = [i \in DOMAIN groups |-> groups[i]]
  OBVIOUS
<1> HIDE DEF groups
<1>4. Tells(FlattenSeq(groups), <<>>, calls, reasons, whole)
  BY <1>2, <1>3, BlocksTell
<1> QED
  BY <1>4 DEF groups

-----------------------------------------------------------------------------
(* What a stream tells at its beginning, in its course and at its end. *)

LEMMA TwoSignalsTell ==
  ASSUME NEW reasons, NEW whole, NEW type \in Plain, NEW other \in Plain
  PROVE  Tells(<<Signal(type), Signal(other)>>, <<>>, <<>>, reasons, whole)
<1> DEFINE a == Mark(type, 0)
           b == Mark(other, 0)
<1>1. /\ a \in Events /\ Tells(<<a>>, <<>>, <<>>, reasons, whole)
      /\ b \in Events /\ Tells(<<b>>, <<>>, <<>>, reasons, whole)
  BY PlainMark
<1>2. Signal(type) = a /\ Signal(other) = b
  BY DEF Signal
<1> HIDE DEF a, b
<1> QED
  BY <1>1, <1>2, TellsTwo

LEMMA OneSignalTells ==
  ASSUME NEW reasons, NEW whole, NEW type \in Plain
  PROVE  Tells(<<Signal(type)>>, <<>>, <<>>, reasons, whole)
BY PlainMark DEF Signal

LEMMA OpeningTells ==
  ASSUME NEW reasons, NEW whole, NEW route, NEW tools \in BOOLEAN
  PROVE  Tells(Opening(route, tools), <<>>, <<>>, reasons, whole)
<1>1. CASE route = "openai_chat"
  <2>1. Opening(route, tools) = <<Signal("role")>>
    BY <1>1 DEF Opening
  <2> QED BY <2>1, PlainTypes, OneSignalTells
<1>2. CASE route = "openai_response"
  <2> DEFINE a == <<Signal("response.created"), Signal("response.in_progress")>>
             b == IF tools THEN <<>> ELSE write_responses_text_start(0)
  <2>1. Opening(route, tools) = a \o b
    BY <1>2 DEF Opening, ResponseOpening
  <2>2. Tells(a, <<>>, <<>>, reasons, whole)
    BY PlainTypes, TwoSignalsTell
  <2>3. Tells(b, <<>>, <<>>, reasons, whole)
    BY ResponseStartTells, TellsNothing
  <2> HIDE DEF a, b
  <2> QED BY <2>1, <2>2, <2>3, TellsBehind
<1>3. CASE route = "anthropic"
  <2> DEFINE a == <<Signal("message_start"), Signal("ping")>>
             b == IF tools THEN <<>> ELSE <<Mark("content_block_start", 0)>>
  <2>1. Opening(route, tools) = a \o b
    BY <1>3 DEF Opening, AnthropicOpening
  <2>2. Tells(a, <<>>, <<>>, reasons, whole)
    BY PlainTypes, TwoSignalsTell
  <2>3. Tells(b, <<>>, <<>>, reasons, whole)
    BY PlainTypes, PlainMark, TellsNothing
  <2> HIDE DEF a, b
  <2> QED BY <2>1, <2>2, <2>3, TellsBehind
<1>4. CASE route = "cohere_v1"
  <2>1. Opening(route, tools) = <<Signal("stream-start")>>
    BY <1>4 DEF Opening
  <2> QED BY <2>1, PlainTypes, OneSignalTells
<1>5. CASE route = "cohere_v2"
  <2> DEFINE a == <<Signal("message-start")>>
             b == IF tools THEN <<>> ELSE <<Mark("content-start", 0)>>
  <2>1. Opening(route, tools) = a \o b
    BY <1>5 DEF Opening
  <2>2. Tells(a, <<>>, <<>>, reasons, whole)
    BY PlainTypes, OneSignalTells
  <2>3. Tells(b, <<>>, <<>>, reasons, whole)
    BY PlainTypes, PlainMark, TellsNothing
  <2> HIDE DEF a, b
  <2> QED BY <2>1, <2>2, <2>3, TellsBehind
<1>6. CASE route \notin {"openai_chat", "openai_response", "anthropic", "cohere_v1", "cohere_v2"}
  <2>1. Opening(route, tools) = <<>>
    BY <1>6 DEF Opening
  <2> QED BY <2>1, TellsNothing
<1> QED
  BY <1>1, <1>2, <1>3, <1>4, <1>5, <1>6

\* A text that is passed on is told.
LEMMA DeltaTells ==
  ASSUME NEW reasons, NEW whole, NEW route, NEW n \in Nat, NEW text \in Seq(Symbols)
  PROVE  Tells(<<Delta(route, n, text)>>, text, <<>>, reasons, whole)
<1>1. PICK type \in Increments, index \in Nat : Delta(route, n, text) = Event(type, index, text, <<>>)
  <2>1. Increments = {"delta", "output_text.delta", "content_block_delta", "content-delta"}
    BY DEF Increments
  <2>2. CASE route = "anthropic"
    BY <2>1, <2>2 DEF Delta, AnthropicDelta
  <2>3. CASE route = "openai_response"
    BY <2>1, <2>3 DEF Delta, ResponseDelta
  <2>4. CASE route = "cohere_v2"
    BY <2>1, <2>4 DEF Delta, CohereDelta
  <2>5. CASE route = "generate_stream"
    BY <2>1, <2>5 DEF Delta, GenerateStreamDelta
  <2>6. CASE route \notin {"anthropic", "openai_response", "cohere_v2", "generate_stream"}
    BY <2>1, <2>6 DEF Delta, ChunkDelta
  <2> QED BY <2>2, <2>3, <2>4, <2>5, <2>6
<1>2. Tells(<<Event(type, index, text, <<>>)>>, text, <<>>, reasons, whole)
  BY TextTells
<1> QED
  BY <1>1, <1>2

\* The text of two parts, of which one tells the prose and one the calls.
LEMMA ProseAndCalls ==
  ASSUME NEW reasons, NEW whole, NEW t, NEW text, Tells(t, text, <<>>, reasons, whole),
         NEW u, NEW calls, Tells(u, <<>>, calls, reasons, whole)
  PROVE  Tells(t \o u, text, calls, reasons, whole)
<1>1. text \in Seq(Symbols) /\ calls \in Seq(Seq(Symbols))
  BY DEF Tells
<1>2. text \o <<>> = text /\ <<>> \o calls = calls
  BY <1>1, NothingMore
<1>3. Tells(t \o u, text \o <<>>, <<>> \o calls, reasons, whole)
  BY TellsJoin
<1> QED
  BY <1>2, <1>3

LEMMA ChunkClosingTells ==
  ASSUME NEW reasons, NEW whole, NEW tools \in BOOLEAN, NEW usage \in BOOLEAN,
         NEW result, result.text \in Seq(Symbols),
         LET parsed == parse_mistral_tool_calls(result.text)
         IN  (IF tools /\ parsed.calls # <<>> THEN "tool_calls" ELSE "stop") \in reasons
  PROVE  LET parsed == parse_mistral_tool_calls(result.text)
         IN  Tells(ChunkClosing(tools, result, usage), IF tools THEN parsed.prose ELSE <<>>,
                   IF tools THEN parsed.calls ELSE <<>>, reasons, whole)
<1> DEFINE parsed == parse_mistral_tool_calls(result.text)
           prose  == parsed.prose
           calls  == parsed.calls
           called == tools /\ calls # <<>>
           reason == IF called THEN "tool_calls" ELSE "stop"
           A == IF tools /\ prose # <<>> THEN <<Event("delta", 0, prose, <<>>)>> ELSE <<>>
           B == IF called THEN <<Event("delta", 0, <<>>, calls)>> ELSE <<>>
           C == <<Finish("finish", reason)>>
           U == IF usage THEN <<Signal("usage")>> ELSE <<>>
           D == <<Signal("[DONE]")>>
           text2 == IF tools THEN prose ELSE <<>>
           calls2 == IF tools THEN calls ELSE <<>>
<1>1. ChunkClosing(tools, result, usage) = A \o B \o C \o U \o D
  BY DEF ChunkClosing
<1>2. prose \in Seq(Symbols) /\ calls \in Seq(Seq(Symbols))
  BY ParsedText
<1>3. reason \in reasons /\ reason \in Reasons
  BY DEF Reasons
<1> HIDE DEF parsed, reason
<1>4. /\ "delta" \in EventTypes \ Repeating /\ "delta" \in Increments
      /\ "finish" \in EventTypes \ Repeating
  BY PlainTypes DEF Plain, Increments
<1>5. Tells(A, text2, <<>>, reasons, whole)
  <2>1. CASE tools /\ prose # <<>>
    <3>1. A = <<Event("delta", 0, prose, <<>>)>> /\ text2 = prose
      BY <2>1
    <3> HIDE DEF prose, A, text2
    <3> QED BY <1>2, <1>4, <3>1, TextTells
  <2>2. CASE ~(tools /\ prose # <<>>)
    <3>1. A = <<>> /\ text2 = <<>>
      BY <2>2
    <3> HIDE DEF A, text2
    <3> QED BY <3>1, TellsNothing
  <2> QED BY <2>1, <2>2
<1>6. Tells(B, <<>>, calls2, reasons, whole)
  <2>1. CASE called
    <3>1. B = <<Event("delta", 0, <<>>, calls)>> /\ calls2 = calls
      BY <2>1
    <3> HIDE DEF calls, B, calls2
    <3> QED BY <1>2, <1>4, <3>1, CallsTell
  <2>2. CASE ~called
    <3>1. B = <<>> /\ calls2 = <<>>
      BY <2>2
    <3> HIDE DEF B, calls2
    <3> QED BY <3>1, TellsNothing
  <2> QED BY <2>1, <2>2
<1>7. Tells(C, <<>>, <<>>, reasons, whole)
  BY <1>3, <1>4, FinishTells
<1>8. Tells(U, <<>>, <<>>, reasons, whole)
  <2>1. CASE usage
    BY <2>1, PlainTypes, OneSignalTells
  <2>2. CASE ~usage
    BY <2>2, TellsNothing
  <2> QED BY <2>1, <2>2
<1>9. Tells(D, <<>>, <<>>, reasons, whole)
  BY PlainTypes, OneSignalTells
<1> HIDE DEF A, B, C, U, D, text2, calls2
<1>10. Tells(A \o B, text2, calls2, reasons, whole)
  BY <1>5, <1>6, ProseAndCalls
<1>11. Tells(A \o B \o C, text2, calls2, reasons, whole)
  BY <1>7, <1>10, TellsBehind
<1>12. Tells(A \o B \o C \o U, text2, calls2, reasons, whole)
  BY <1>8, <1>11, TellsBehind
<1>13. Tells(A \o B \o C \o U \o D, text2, calls2, reasons, whole)
  BY <1>9, <1>12, TellsBehind
<1> QED
  BY <1>1, <1>13 DEF text2, calls2, parsed

LEMMA AnthropicContentTells ==
  ASSUME NEW reasons, NEW whole, NEW text \in Seq(Symbols), NEW calls \in Seq(Seq(Symbols))
  PROVE  Tells(write_anthropic_stream_content(text, calls), text, calls, reasons, whole)
<1> DEFINE prose == IF text # <<>> \/ calls = <<>> THEN AnthropicBlock(0, text, <<>>) ELSE <<>>
           first == IF prose = <<>> THEN 0 ELSE 1
           after == FlattenSeq([i \in DOMAIN calls |->
                                  AnthropicBlock(first + i - 1, <<>>, <<calls[i]>>)])
<1>1. write_anthropic_stream_content(text, calls) = prose \o after
  BY DEF write_anthropic_stream_content
<1>2. Tells(prose, text, <<>>, reasons, whole)
  <2>1. CASE text # <<>> \/ calls = <<>>
    <3> DEFINE none == <<>>
    <3>1. none \in Seq(Seq(Symbols))
      BY EmptySeq
    <3>2. prose = AnthropicBlock(0, text, none)
      BY <2>1
    <3> HIDE DEF none, prose
    <3>3. Tells(AnthropicBlock(0, text, none), text, none, reasons, whole)
      BY <3>1, AnthropicBlockTells
    <3> QED BY <3>2, <3>3 DEF none
  <2>2. CASE ~(text # <<>> \/ calls = <<>>)
    <3>1. prose = <<>> /\ text = <<>>
      BY <2>2
    <3> HIDE DEF prose
    <3> QED BY <3>1, TellsNothing
  <2> QED BY <2>1, <2>2
<1>3. first \in Nat
  OBVIOUS
<1> HIDE DEF first, prose
<1>4. Tells(after, <<>>, calls, reasons, whole)
  BY <1>3, AnthropicCallsTell
<1> HIDE DEF after
<1> QED
  BY <1>1, <1>2, <1>4, ProseAndCalls

\* The end of a stream tells what the answer says: all of it when tools were
\* declared, and nothing new but the reason when the text has been passed on.
TellsAnswer(t, tools, reply, reasons) ==
  \E calls : /\ tools => calls = reply.calls
             /\ Tells(t, IF tools THEN reply.text ELSE <<>>, calls, reasons, reply.text)

LEMMA AnthropicClosingTells ==
  ASSUME NEW reasons, NEW tools \in BOOLEAN, NEW max_tokens,
         NEW result, result.text \in Seq(Symbols), NEW reply,
         LET parsed == parse_mistral_tool_calls(result.text)
         IN  /\ anthropic_stop_reason(result.count, max_tokens, parsed.calls) \in reasons
             /\ reply.text = parsed.prose /\ reply.calls = parsed.calls
  PROVE  TellsAnswer(AnthropicClosing(tools, result, max_tokens), tools, reply, reasons)
<1> DEFINE parsed == parse_mistral_tool_calls(result.text)
           text == parsed.prose
           calls == parsed.calls
           reason == anthropic_stop_reason(result.count, max_tokens, calls)
           content == IF tools THEN write_anthropic_stream_content(text, calls)
                      ELSE <<Mark("content_block_stop", 0)>>
           a == Finish("message_delta", reason)
           e == Mark("message_stop", 0)
           text2 == IF tools THEN text ELSE <<>>
           calls2 == IF tools THEN calls ELSE <<>>
           whole == reply.text
<1>1. AnthropicClosing(tools, result, max_tokens) = content \o <<a, e>>
  BY DEF AnthropicClosing, Signal
<1>2. text \in Seq(Symbols) /\ calls \in Seq(Seq(Symbols))
  BY ParsedText
<1>3. reason \in Reasons
  BY DEF anthropic_stop_reason, Reasons
<1>4. reason \in reasons /\ reply.text = text /\ reply.calls = calls
  OBVIOUS
<1> HIDE DEF text, calls, reason, whole
<1>5. Tells(content, text2, calls2, reasons, whole)
  <2>1. CASE tools
    <3>1. content = write_anthropic_stream_content(text, calls) /\ text2 = text /\ calls2 = calls
      BY <2>1
    <3> HIDE DEF content, text2, calls2
    <3> QED BY <1>2, <3>1, AnthropicContentTells
  <2>2. CASE ~tools
    <3>1. content = <<Mark("content_block_stop", 0)>> /\ text2 = <<>> /\ calls2 = <<>>
      BY <2>2
    <3> HIDE DEF content, text2, calls2
    <3> QED BY <3>1, PlainTypes, PlainMark
  <2> QED BY <2>1, <2>2
<1>6. a \in Events /\ Tells(<<a>>, <<>>, <<>>, reasons, whole)
  <2>1. "message_delta" \in EventTypes \ Repeating
    BY PlainTypes DEF Plain
  <2> QED BY <1>3, <1>4, <2>1, FinishTells, FinishType
<1>7. e \in Events /\ Tells(<<e>>, <<>>, <<>>, reasons, whole)
  BY PlainTypes, PlainMark
<1> HIDE DEF content, a, e
<1>8. Tells(<<a, e>>, <<>>, <<>>, reasons, whole)
  BY <1>6, <1>7, TellsTwo
<1> HIDE DEF text2, calls2
<1>9. Tells(content \o <<a, e>>, text2, calls2, reasons, whole)
  BY <1>5, <1>8, TellsBehind
<1>10. tools => calls2 = reply.calls
  BY <1>4 DEF calls2
<1>11. text2 = IF tools THEN reply.text ELSE <<>>
  BY <1>4 DEF text2
<1> QED
  BY <1>1, <1>9, <1>10, <1>11 DEF TellsAnswer, whole

LEMMA ResponseClosingTells ==
  ASSUME NEW reasons, NEW tools \in BOOLEAN,
         NEW result, result.text \in Seq(Symbols), NEW reply,
         LET parsed == parse_mistral_tool_calls(result.text)
         IN  reply.text = parsed.prose /\ reply.calls = parsed.calls
  PROVE  TellsAnswer(ResponseClosing(tools, result), tools, reply, reasons)
<1> DEFINE parsed == parse_mistral_tool_calls(result.text)
           text == parsed.prose
           calls == parsed.calls
           delta == <<Event("output_text.delta", 0, text, <<>>)>>
           start == write_responses_text_start(0)
           done == write_responses_text_done(0, text)
           prose == CASE tools /\ (text # <<>> \/ calls = <<>>) -> start \o delta \o done
                      [] ~tools -> done
                      [] OTHER  -> <<>>
           first == IF prose = <<>> THEN 0 ELSE 1
           after == FlattenSeq([i \in DOMAIN calls |-> ResponseCall(first + i - 1, calls[i])])
           a == Event("response.completed", 0, text, calls)
           e == Mark("[DONE]", 0)
           text2 == IF tools THEN text ELSE <<>>
<1>1. ResponseClosing(tools, result) = prose \o after \o <<a, e>>
  BY DEF ResponseClosing, Signal
<1>2. text \in Seq(Symbols) /\ calls \in Seq(Seq(Symbols))
  BY ParsedText
<1>3. reply.text = text /\ reply.calls = calls
  OBVIOUS
<1> HIDE DEF text, calls
<1>4. Tells(prose, text2, <<>>, reasons, text)
  <2>1. Tells(start, <<>>, <<>>, reasons, text) /\ Tells(done, <<>>, <<>>, reasons, text)
    BY <1>2, ResponseStartTells, ResponseDoneTells
  <2>2. Tells(delta, text, <<>>, reasons, text)
    <3>1. "output_text.delta" \in Increments
      BY DEF Increments
    <3> QED BY <1>2, <3>1, TextTells
  <2>3. CASE tools /\ (text # <<>> \/ calls = <<>>)
    <3>1. prose = start \o delta \o done /\ text2 = text
      BY <2>3
    <3> HIDE DEF prose, start, delta, done, text2
    <3>2. Tells(start \o delta, text, <<>>, reasons, text)
      BY <2>1, <2>2, TellsBehind
    <3>3. Tells(start \o delta \o done, text, <<>>, reasons, text)
      BY <2>1, <3>2, TellsBehind
    <3> QED BY <3>1, <3>3
  <2>4. CASE ~tools
    <3>1. prose = done /\ text2 = <<>>
      BY <2>4
    <3> HIDE DEF prose, done, text2
    <3> QED BY <2>1, <3>1
  <2>5. CASE tools /\ ~(text # <<>> \/ calls = <<>>)
    <3>1. prose = <<>> /\ text2 = <<>>
      BY <2>5
    <3> HIDE DEF prose, text2
    <3> QED BY <3>1, TellsNothing
  <2> QED BY <2>3, <2>4, <2>5
<1>5. first \in Nat
  OBVIOUS
<1> HIDE DEF prose, first
<1>6. Tells(after, <<>>, calls, reasons, text)
  BY <1>2, <1>5, ResponseCallsTell
<1>7. a \in Events /\ Tells(<<a>>, <<>>, <<>>, reasons, text)
  <2>1. "response.completed" \in EventTypes /\ "response.completed" \in Repeating
    BY DEF EventTypes, Repeating
  <2> QED BY <1>2, <2>1, EventType, WholeTells
<1>8. e \in Events /\ Tells(<<e>>, <<>>, <<>>, reasons, text)
  BY PlainTypes, PlainMark
<1> HIDE DEF after, a, e, text2
<1>9. Tells(<<a, e>>, <<>>, <<>>, reasons, text)
  BY <1>7, <1>8, TellsTwo
<1>10. Tells(prose \o after, text2, calls, reasons, text)
  BY <1>4, <1>6, ProseAndCalls
<1>11. Tells(prose \o after \o <<a, e>>, text2, calls, reasons, text)
  BY <1>9, <1>10, TellsBehind
<1>12. text2 = IF tools THEN reply.text ELSE <<>>
  BY <1>3 DEF text2
<1> QED
  BY <1>1, <1>3, <1>11, <1>12 DEF TellsAnswer

LEMMA CohereClosingTells ==
  ASSUME NEW reasons, NEW tools \in BOOLEAN, NEW max_tokens,
         NEW result, result.text \in Seq(Symbols), NEW reply,
         LET parsed == parse_mistral_tool_calls(result.text)
         IN  /\ CohereReason(result.count, max_tokens, parsed.calls) \in reasons
             /\ reply.text = parsed.prose /\ reply.calls = parsed.calls
  PROVE  TellsAnswer(CohereClosing(tools, result, max_tokens), tools, reply, reasons)
<1> DEFINE parsed == parse_mistral_tool_calls(result.text)
           text == parsed.prose
           calls == parsed.calls
           c == <<Mark("content-end", 0)>>
           prose == CASE tools /\ text # <<>> -> CohereContent(text)
                      [] ~tools -> c
                      [] OTHER  -> <<>>
           after == FlattenSeq([i \in DOMAIN calls |-> CohereCall(i - 1, calls[i])])
           reason == CohereReason(result.count, max_tokens, calls)
           e == <<Finish("message-end", reason)>>
           text2 == IF tools THEN text ELSE <<>>
<1>1. CohereClosing(tools, result, max_tokens) = prose \o after \o e
  BY DEF CohereClosing
<1>2. text \in Seq(Symbols) /\ calls \in Seq(Seq(Symbols))
  BY ParsedText
<1>3. reason \in Reasons
  BY DEF CohereReason, Reasons
<1>4. reply.text = text /\ reply.calls = calls /\ reason \in reasons
  OBVIOUS
<1> HIDE DEF text, calls, reason
<1>5. Tells(prose, text2, <<>>, reasons, text)
  <2>1. CASE tools /\ text # <<>>
    <3>1. prose = CohereContent(text) /\ text2 = text
      BY <2>1
    <3> HIDE DEF prose, text2
    <3> QED BY <1>2, <3>1, CohereContentTells
  <2>2. CASE ~tools
    <3>1. prose = c /\ text2 = <<>>
      BY <2>2
    <3>2. Tells(c, <<>>, <<>>, reasons, text)
      BY PlainTypes, PlainMark
    <3> HIDE DEF prose, text2, c
    <3> QED BY <3>1, <3>2
  <2>3. CASE tools /\ text = <<>>
    <3>1. prose = <<>> /\ text2 = <<>>
      BY <2>3
    <3> HIDE DEF prose, text2
    <3> QED BY <3>1, TellsNothing
  <2> QED BY <2>1, <2>2, <2>3
<1>6. Tells(after, <<>>, calls, reasons, text)
  BY <1>2, CohereCallsTell
<1>7. Tells(e, <<>>, <<>>, reasons, text)
  <2>1. "message-end" \in EventTypes \ Repeating
    BY PlainTypes DEF Plain
  <2> QED BY <1>3, <1>4, <2>1, FinishTells
<1> HIDE DEF prose, after, e, text2
<1>8. Tells(prose \o after, text2, calls, reasons, text)
  BY <1>5, <1>6, ProseAndCalls
<1>9. Tells(prose \o after \o e, text2, calls, reasons, text)
  BY <1>7, <1>8, TellsBehind
<1>10. text2 = IF tools THEN reply.text ELSE <<>>
  BY <1>4 DEF text2
<1> QED
  BY <1>1, <1>4, <1>9, <1>10 DEF TellsAnswer

LEMMA GeminiClosingTells ==
  ASSUME NEW reasons, NEW tools \in BOOLEAN, NEW max_tokens,
         NEW result, result.text \in Seq(Symbols), NEW reply,
         GeminiReason(result.count, max_tokens) \in reasons,
         LET parsed == parse_mistral_tool_calls(result.text)
         IN  reply.text = parsed.prose /\ reply.calls = parsed.calls
  PROVE  TellsAnswer(GeminiClosing(tools, result, max_tokens), tools, reply, reasons)
<1> DEFINE parsed == parse_mistral_tool_calls(result.text)
           text == parsed.prose
           calls == parsed.calls
           reason == GeminiReason(result.count, max_tokens)
           final == Finish("finish", reason)
           e == [final EXCEPT !.text = text, !.calls = calls]
<1>1. GeminiClosing(tools, result, max_tokens) = IF tools THEN <<e>> ELSE <<final>>
  BY DEF GeminiClosing
<1>2. text \in Seq(Symbols) /\ calls \in Seq(Seq(Symbols))
  BY ParsedText
<1>3. reason \in Reasons /\ reason \in reasons
  BY DEF GeminiReason, Reasons
<1>4. reply.text = text /\ reply.calls = calls
  OBVIOUS
<1> HIDE DEF text, calls, reason
<1>5. "finish" \in EventTypes \ Repeating
  BY PlainTypes DEF Plain
<1>6. final \in Events /\ final.type = "finish" /\ final.reason = reason
  BY <1>3, <1>5, SignalType
<1>7. Tells(<<final>>, <<>>, <<>>, reasons, text)
  BY <1>3, <1>5, FinishTells
<1> HIDE DEF final
<1>8. /\ e \in Events /\ e.type = "finish" /\ e.reason = reason
      /\ e.text = text /\ e.calls = calls
  BY <1>2, <1>6 DEF Events
<1> HIDE DEF e
<1>9. ShownBy(e) = text /\ CallsBy(e) = calls
  BY <1>8 DEF ShownBy, CallsBy
<1>10. Sound(e, reasons, text)
  BY <1>3, <1>8 DEF Sound, Repeats
<1>11. Tells(<<e>>, text, calls, reasons, text)
  BY <1>8, <1>9, <1>10, TellsOne
<1> QED
  BY <1>1, <1>4, <1>7, <1>11 DEF TellsAnswer

LEMMA OllamaChatClosingTells ==
  ASSUME NEW reasons, NEW tools \in BOOLEAN, "stop" \in reasons,
         NEW result, result.text \in Seq(Symbols), NEW reply,
         LET parsed == parse_mistral_tool_calls(result.text)
         IN  reply.text = parsed.prose /\ reply.calls = parsed.calls
  PROVE  TellsAnswer(OllamaChatClosing(tools, result), tools, reply, reasons)
<1> DEFINE parsed == parse_mistral_tool_calls(result.text)
           text == parsed.prose
           calls == parsed.calls
           a == IF tools THEN <<Event("delta", 0, text, calls)>> ELSE <<>>
           e == <<Finish("done", "stop")>>
           text2 == IF tools THEN text ELSE <<>>
           calls2 == IF tools THEN calls ELSE <<>>
<1>1. OllamaChatClosing(tools, result) = a \o e
  BY DEF OllamaChatClosing
<1>2. text \in Seq(Symbols) /\ calls \in Seq(Seq(Symbols))
  BY ParsedText
<1>3. reply.text = text /\ reply.calls = calls
  OBVIOUS
<1> HIDE DEF text, calls
<1>4. "delta" \in EventTypes \ Repeating /\ "delta" \in Increments /\ "done" \in EventTypes \ Repeating
  BY PlainTypes DEF Plain, Increments
<1>5. Tells(a, text2, calls2, reasons, text)
  <2>1. CASE tools
    <3>1. a = <<Event("delta", 0, text, calls)>> /\ text2 = text /\ calls2 = calls
      BY <2>1
    <3> HIDE DEF a, text2, calls2
    <3> QED BY <1>2, <1>4, <3>1, PieceTells
  <2>2. CASE ~tools
    <3>1. a = <<>> /\ text2 = <<>> /\ calls2 = <<>>
      BY <2>2
    <3> HIDE DEF a, text2, calls2
    <3> QED BY <3>1, TellsNothing
  <2> QED BY <2>1, <2>2
<1>6. Tells(e, <<>>, <<>>, reasons, text)
  <2>1. "stop" \in Reasons
    BY DEF Reasons
  <2> QED BY <1>4, <2>1, FinishTells
<1> HIDE DEF a, e, text2, calls2
<1>7. Tells(a \o e, text2, calls2, reasons, text)
  BY <1>5, <1>6, TellsBehind
<1>8. (tools => calls2 = reply.calls) /\ text2 = IF tools THEN reply.text ELSE <<>>
  BY <1>3 DEF text2, calls2
<1> QED
  BY <1>1, <1>3, <1>7, <1>8 DEF TellsAnswer

\* The reasons a stream may give beside the answer's.
ReasonsFor(tools, text, reply) ==
  IF tools \/ Markers(text, 1) = {} THEN {reply.reason} ELSE Reasons

LEMMA ParsedAnswer ==
  ASSUME NEW route \in ToolRoutes, NEW result, NEW max_tokens
  PROVE  LET parsed == parse_mistral_tool_calls(result.text)
             reply  == Answer(route, result, max_tokens)
         IN  /\ reply.text = parsed.prose /\ reply.calls = parsed.calls
             /\ route = "openai_chat" =>
                  reply.reason = IF parsed.calls = <<>> THEN "stop" ELSE "tool_calls"
             /\ route = "ollama_chat" => reply.reason = "stop"
             /\ route = "anthropic" =>
                  reply.reason = anthropic_stop_reason(result.count, max_tokens, parsed.calls)
             /\ route = "cohere_v2" =>
                  reply.reason = CohereReason(result.count, max_tokens, parsed.calls)
             /\ route = "gemini" => reply.reason = GeminiReason(result.count, max_tokens)
<1> DEFINE parsed == parse_mistral_tool_calls(result.text)
           prose == parsed.prose
           calls == parsed.calls
           reply == Answer(route, result, max_tokens)
<1>1. CASE route = "openai_chat"
  <2>1. reply = OpenAiChatAnswer(prose, calls)
    BY <1>1 DEF Answer
  <2> HIDE DEF reply, prose, calls
  <2> QED BY <1>1, <2>1 DEF OpenAiChatAnswer, Reply, reply, prose, calls
<1>2. CASE route = "openai_response"
  <2>1. reply = make_openai_response(prose, calls)
    BY <1>2 DEF Answer
  <2> HIDE DEF reply, prose, calls
  <2> QED BY <1>2, <2>1 DEF make_openai_response, Reply, reply, prose, calls
<1>3. CASE route = "anthropic"
  <2>1. reply = AnthropicAnswer(prose, calls, result, max_tokens)
    BY <1>3 DEF Answer
  <2> HIDE DEF reply, prose, calls
  <2> QED BY <1>3, <2>1 DEF AnthropicAnswer, Reply, reply, prose, calls
<1>4. CASE route = "cohere_v2"
  <2>1. reply = CohereAnswer(prose, calls, result, max_tokens)
    BY <1>4 DEF Answer
  <2> HIDE DEF reply, prose, calls
  <2> QED BY <1>4, <2>1 DEF CohereAnswer, Reply, reply, prose, calls
<1>5. CASE route = "gemini"
  <2>1. reply = GeminiAnswer(prose, calls, result, max_tokens)
    BY <1>5 DEF Answer
  <2> HIDE DEF reply, prose, calls
  <2> QED BY <1>5, <2>1 DEF GeminiAnswer, Reply, reply, prose, calls
<1>6. CASE route = "ollama_chat"
  <2>1. reply = OllamaChatAnswer(prose, calls)
    BY <1>6 DEF Answer
  <2> HIDE DEF reply, prose, calls
  <2> QED BY <1>6, <2>1 DEF OllamaChatAnswer, Reply, reply, prose, calls
<1> QED
  BY <1>1, <1>2, <1>3, <1>4, <1>5, <1>6 DEF ToolRoutes

LEMMA PlainAnswer ==
  ASSUME NEW route \in GenerationRoutes \ ToolRoutes, NEW result, NEW max_tokens
  PROVE  Answer(route, result, max_tokens) = Reply(result.text, <<>>, "stop")
<1>1. route \in {"openai_completion", "ollama_generate", "cohere_v1", "generate", "generate_stream"}
  BY DEF GenerationRoutes, ToolRoutes
<1>2. CASE route = "openai_completion"
  BY <1>2 DEF Answer, CompletionAnswer
<1>3. CASE route = "ollama_generate"
  BY <1>3 DEF Answer, OllamaGenerateAnswer
<1>4. CASE route = "cohere_v1"
  BY <1>4 DEF Answer, cohere_v1_response
<1>5. CASE route \in {"generate", "generate_stream"}
  BY <1>5 DEF Answer, GenerateAnswer
<1> QED
  BY <1>1, <1>2, <1>3, <1>4, <1>5

\* The reason a stream gives is the answer's.
LEMMA ReasonAllowed ==
  ASSUME NEW tools, NEW text, NEW reply, NEW reason \in Reasons,
         tools \/ Markers(text, 1) = {} => reason = reply.reason
  PROVE  reason \in ReasonsFor(tools, text, reply)
BY DEF ReasonsFor

LEMMA ToolClosingTells ==
  ASSUME NEW route \in ToolRoutes, NEW tools \in BOOLEAN,
         NEW result, result.text \in Seq(Symbols), NEW max_tokens, NEW usage \in BOOLEAN
  PROVE  LET reply == Answer(route, result, max_tokens)
         IN  TellsAnswer(Closing(route, tools, result, max_tokens, usage), tools, reply,
                         ReasonsFor(tools, result.text, reply))
<1> DEFINE parsed == parse_mistral_tool_calls(result.text)
           reply == Answer(route, result, max_tokens)
           closing == Closing(route, tools, result, max_tokens, usage)
           reasons == ReasonsFor(tools, result.text, reply)
<1>1. reply.text = parsed.prose /\ reply.calls = parsed.calls
  BY ParsedAnswer
<1>2. Markers(result.text, 1) = {} => parsed.calls = <<>>
  BY ParsedType
<1>3. parsed.prose \in Seq(Symbols) /\ parsed.calls \in Seq(Seq(Symbols))
  BY ParsedText
<1>4. CASE route = "openai_chat"
  <2> DEFINE reason == IF tools /\ parsed.calls # <<>> THEN "tool_calls" ELSE "stop"
             text == IF tools THEN parsed.prose ELSE <<>>
             calls == IF tools THEN parsed.calls ELSE <<>>
  <2>1. closing = ChunkClosing(tools, result, usage)
    BY <1>4 DEF Closing
  <2>2. reply.reason = IF parsed.calls = <<>> THEN "stop" ELSE "tool_calls"
    BY <1>4, ParsedAnswer
  <2>3. reason \in Reasons
    BY DEF Reasons
  <2>4. tools \/ Markers(result.text, 1) = {} => reason = reply.reason
    <3> HIDE DEF parsed, reply
    <3> QED BY <1>2, <2>2
  <2>5. reason \in reasons
    <3> HIDE DEF reason, reply
    <3> QED BY <2>3, <2>4, ReasonAllowed
  <2> DEFINE whole == reply.text
  <2> HIDE DEF reasons, reply, closing, whole
  <2>6. Tells(ChunkClosing(tools, result, usage), text, calls, reasons, whole)
    BY <2>5, ChunkClosingTells
  <2> HIDE DEF parsed
  <2>7. (tools => calls = reply.calls) /\ text = IF tools THEN reply.text ELSE <<>>
    BY <1>1
  <2> HIDE DEF text, calls
  <2>8. TellsAnswer(closing, tools, reply, reasons)
    BY <2>1, <2>6, <2>7 DEF TellsAnswer, whole
  <2> QED BY <2>8 DEF reasons, reply, closing
<1>5. CASE route = "openai_response"
  <2>1. closing = ResponseClosing(tools, result)
    BY <1>5 DEF Closing
  <2> HIDE DEF reasons, reply, closing
  <2>2. TellsAnswer(ResponseClosing(tools, result), tools, reply, reasons)
    BY <1>1, ResponseClosingTells
  <2> QED BY <2>1, <2>2 DEF reasons, reply, closing
<1>6. CASE route = "anthropic"
  <2> DEFINE reason == anthropic_stop_reason(result.count, max_tokens, parsed.calls)
  <2>1. closing = AnthropicClosing(tools, result, max_tokens)
    BY <1>6 DEF Closing
  <2>2. reason \in Reasons
    BY DEF Reasons, anthropic_stop_reason
  <2>3. reply.reason = reason
    BY <1>6, ParsedAnswer
  <2>4. reason \in reasons
    <3> HIDE DEF reason, reply
    <3> QED BY <2>2, <2>3, ReasonAllowed
  <2> HIDE DEF reasons, reply, closing
  <2>5. TellsAnswer(AnthropicClosing(tools, result, max_tokens), tools, reply, reasons)
    BY <1>1, <2>4, AnthropicClosingTells
  <2> QED BY <2>1, <2>5 DEF reasons, reply, closing
<1>7. CASE route = "cohere_v2"
  <2> DEFINE reason == CohereReason(result.count, max_tokens, parsed.calls)
  <2>1. closing = CohereClosing(tools, result, max_tokens)
    BY <1>7 DEF Closing
  <2>2. reason \in Reasons
    BY DEF Reasons, CohereReason
  <2>3. reply.reason = reason
    BY <1>7, ParsedAnswer
  <2>4. reason \in reasons
    <3> HIDE DEF reason, reply
    <3> QED BY <2>2, <2>3, ReasonAllowed
  <2> HIDE DEF reasons, reply, closing
  <2>5. TellsAnswer(CohereClosing(tools, result, max_tokens), tools, reply, reasons)
    BY <1>1, <2>4, CohereClosingTells
  <2> QED BY <2>1, <2>5 DEF reasons, reply, closing
<1>8. CASE route = "gemini"
  <2> DEFINE reason == GeminiReason(result.count, max_tokens)
  <2>1. closing = GeminiClosing(tools, result, max_tokens)
    BY <1>8 DEF Closing
  <2>2. reason \in Reasons
    BY DEF Reasons, GeminiReason
  <2>3. reply.reason = reason
    BY <1>8, ParsedAnswer
  <2>4. reason \in reasons
    <3> HIDE DEF reason, reply
    <3> QED BY <2>2, <2>3, ReasonAllowed
  <2> HIDE DEF reasons, reply, closing
  <2>5. TellsAnswer(GeminiClosing(tools, result, max_tokens), tools, reply, reasons)
    BY <1>1, <2>4, GeminiClosingTells
  <2> QED BY <2>1, <2>5 DEF reasons, reply, closing
<1>9. CASE route = "ollama_chat"
  <2>1. closing = OllamaChatClosing(tools, result)
    BY <1>9 DEF Closing
  <2>2. "stop" \in Reasons
    BY DEF Reasons
  <2>3. reply.reason = "stop"
    BY <1>9, ParsedAnswer
  <2>4. "stop" \in reasons
    <3> HIDE DEF reply
    <3> QED BY <2>2, <2>3, ReasonAllowed
  <2> HIDE DEF reasons, reply, closing
  <2>5. TellsAnswer(OllamaChatClosing(tools, result), tools, reply, reasons)
    BY <1>1, <2>4, OllamaChatClosingTells
  <2> QED BY <2>1, <2>5 DEF reasons, reply, closing
<1> QED
  BY <1>4, <1>5, <1>6, <1>7, <1>8, <1>9 DEF ToolRoutes

LEMMA PlainClosingTells ==
  ASSUME NEW route \in GenerationRoutes \ (ToolRoutes \cup {"generate"}),
         NEW result, result.text \in Seq(Symbols), NEW max_tokens, NEW usage \in BOOLEAN
  PROVE  LET reply == Answer(route, result, max_tokens)
         IN  TellsAnswer(Closing(route, FALSE, result, max_tokens, usage), FALSE, reply,
                         ReasonsFor(FALSE, result.text, reply))
<1> DEFINE reply == Answer(route, result, max_tokens)
           closing == Closing(route, FALSE, result, max_tokens, usage)
           reasons == ReasonsFor(FALSE, result.text, reply)
           whole == result.text
<1>1. reply.text = whole /\ reply.reason = "stop"
  BY PlainAnswer DEF Reply
<1>2. "stop" \in reasons
  <2>1. "stop" \in Reasons
    BY DEF Reasons
  <2> HIDE DEF reply
  <2> QED BY <1>1, <2>1, ReasonAllowed
<1> HIDE DEF reply, reasons, closing
<1>3. Tells(closing, <<>>, <<>>, reasons, whole)
  <2>1. CASE route = "openai_completion"
    <3>1. closing = ChunkClosing(FALSE, result, usage)
      BY <2>1 DEF closing, Closing
    <3> DEFINE tools == FALSE
    <3>2. tools \in BOOLEAN /\ tools = FALSE
      OBVIOUS
    <3> HIDE DEF tools, whole
    <3>3. Tells(ChunkClosing(tools, result, usage), <<>>, <<>>, reasons, whole)
      BY <1>2, <3>2, ChunkClosingTells
    <3> QED BY <3>1, <3>2, <3>3
  <2>2. CASE route = "ollama_generate"
    <3>1. closing = <<Finish("done", "stop")>>
      BY <2>2 DEF closing, Closing, OllamaGenerateClosing
    <3>2. "done" \in EventTypes \ Repeating /\ "stop" \in Reasons
      BY PlainTypes DEF Plain, Reasons
    <3> HIDE DEF whole
    <3> QED BY <1>2, <3>1, <3>2, FinishTells
  <2>3. CASE route \in {"cohere_v1", "generate_stream"}
    <3>1. PICK type \in {"stream-end", "generated_text"} :
             closing = <<Event(type, 0, whole, <<>>)>>
      BY <2>3 DEF closing, Closing, CohereV1Closing, GenerateStreamClosing
    <3>2. type \in Repeating /\ whole \in Seq(Symbols)
      BY DEF Repeating
    <3> HIDE DEF whole
    <3> QED BY <3>1, <3>2, WholeTextTells
  <2> QED BY <2>1, <2>2, <2>3 DEF GenerationRoutes, ToolRoutes
<1>4. TellsAnswer(closing, FALSE, reply, reasons)
  BY <1>1, <1>3 DEF TellsAnswer
<1> QED
  BY <1>4 DEF reply, reasons, closing

\* Every route.
LEMMA ClosingTells ==
  ASSUME NEW route \in GenerationRoutes \ {"generate"}, NEW tools \in BOOLEAN,
         tools => route \in ToolRoutes,
         NEW result, result.text \in Seq(Symbols), NEW max_tokens, NEW usage \in BOOLEAN
  PROVE  LET reply == Answer(route, result, max_tokens)
         IN  TellsAnswer(Closing(route, tools, result, max_tokens, usage), tools, reply,
                         ReasonsFor(tools, result.text, reply))
<1>1. CASE route \in ToolRoutes
  BY <1>1, ToolClosingTells
<1>2. CASE route \notin ToolRoutes
  <2>1. tools = FALSE
    BY <1>2
  <2> QED BY <1>2, <2>1, PlainClosingTells
<1> QED
  BY <1>1, <1>2

LEMMA AnswerWithoutMarkup ==
  ASSUME NEW route \in ToolRoutes, NEW result, result.text \in Seq(Symbols), NEW max_tokens
  PROVE  Markers(Answer(route, result, max_tokens).text, 1) = {}
<1>1. Answer(route, result, max_tokens).text = parse_mistral_tool_calls(result.text).prose
  BY ParsedAnswer
<1>2. Markers(parse_mistral_tool_calls(result.text).prose, 1) = {}
  BY ParsedType
<1> QED
  BY <1>1, <1>2

-----------------------------------------------------------------------------
(* What a client has been told. *)

Busy == pc \in {"generate", "flush", "record"}

\* What the stream has told of the text that was passed on.
ToldSoFar == IF has_tools THEN <<>> ELSE PassedOn

(***************************************************************************)
(* While the text comes into being, the stream has told exactly what was   *)
(* passed on, or nothing when tools were declared, and no reason yet; and  *)
(* when it has ended, it agrees with the answer.                           *)
(***************************************************************************)
TellingInv ==
  /\ client = "there" /\ is_streaming_request /\ Busy =>
       \A whole : Tells(wire, ToldSoFar, <<>>, {}, whole)
  /\ StreamAgrees

LEMMA AgreesUnlessRecorded ==
  ASSUME pc # "closed" \/ recorded = 0
  PROVE  StreamAgrees
<1>1. ~(pc = "closed" /\ client = "there" /\ recorded = 1 /\ is_streaming_request)
  OBVIOUS
<1> QED
  BY <1>1, Zenon DEF StreamAgrees

LEMMA AgreesUnlessRecordedThen ==
  ASSUME pc' # "closed" \/ recorded' = 0
  PROVE  StreamAgrees'
<1>1. ~(pc' = "closed" /\ client' = "there" /\ recorded' = 1 /\ is_streaming_request')
  OBVIOUS
<1> QED
  BY <1>1, Zenon DEF StreamAgrees

\* One more text.
LEMMA TellsText ==
  ASSUME TextType, NEW text \in Seq(Symbols), ask' = ask, ask \in Asks, client' = client,
         pc \in {"generate", "flush"}, Busy', TellingInv,
         \/ /\ streamed' = streamed /\ wire' = wire
         \/ OnToken(text) /\ text # <<>>
  PROVE  TellingInv'
<1>0. StreamAgrees'
  BY AgreesUnlessRecordedThen DEF Busy
<1>1. SUFFICES ASSUME client = "there", is_streaming_request, NEW whole
               PROVE  Tells(wire', ToldSoFar', <<>>, {}, whole)
  BY <1>0, AskedOnce DEF TellingInv
<1>2. Tells(wire, ToldSoFar, <<>>, {}, whole)
  BY <1>1 DEF TellingInv, Busy
<1>3. has_tools' = has_tools /\ has_tools \in BOOLEAN
  BY AskedOnce, AskedTypes
<1>4. CASE streamed' = streamed /\ wire' = wire
  <2>1. PassedOn' = PassedOn
    BY <1>4 DEF PassedOn
  <2> QED BY <1>2, <1>3, <1>4, <2>1 DEF ToldSoFar
<1>5. CASE OnToken(text) /\ text # <<>>
  <2>1. streamed' = Append(streamed, text)
    BY <1>5 DEF OnToken
  <2>2. PassedOn' = PassedOn \o text
    BY <1>5, <2>1, PassedOnGrows
  <2>3. CASE has_tools
    <3>1. wire' = wire
      BY <1>5, <2>3 DEF OnToken
    <3>2. ToldSoFar' = <<>> /\ ToldSoFar = <<>>
      BY <1>3, <2>3 DEF ToldSoFar
    <3> QED BY <1>2, <3>1, <3>2
  <2>4. CASE ~has_tools
    <3> DEFINE e == <<Delta(ask.route, Len(streamed), text)>>
    <3>1. wire' = wire \o e
      BY <1>1, <1>5, <2>4 DEF OnToken, Write
    <3>2. Len(streamed) \in Nat
      BY LenProperties DEF TextType
    <3>3. Tells(e, text, <<>>, {}, whole)
      BY <3>2, DeltaTells
    <3>4. ToldSoFar' = PassedOn \o text /\ ToldSoFar = PassedOn
      BY <1>3, <2>2, <2>4 DEF ToldSoFar
    <3> HIDE DEF e
    <3>5. Tells(wire \o e, PassedOn \o text, <<>> \o <<>>, {}, whole)
      BY <1>2, <3>3, <3>4, TellsJoin
    <3>6. <<>> \o <<>> = <<>>
      OBVIOUS
    <3> QED BY <3>1, <3>4, <3>5, <3>6
  <2> QED BY <2>3, <2>4
<1> QED
  BY <1>4, <1>5

LEMMA TellsDecoded ==
  ASSUME ControlInv, TextType, TellingInv, DecodeToken
  PROVE  TellingInv'
<1>1. ask' = ask /\ client' = client /\ pc = "generate" /\ ask \in Asks
  BY DEF DecodeToken, ControlInv
<1>2. PICK token \in Vocabulary :
         LET pushed == push(pending, token)
             at     == StopCut(output \o pushed.text, pushed.text, ask.stops)
         IN  \/ at # {} /\ pc' = "flush" /\ streamed' = streamed /\ wire' = wire
             \/ /\ at = {} /\ pc' \in {"generate", "flush"}
                /\ IF pushed.text = <<>> THEN streamed' = streamed /\ wire' = wire
                   ELSE OnToken(pushed.text)
  BY DEF DecodeToken
<1> DEFINE text == push(pending, token).text
<1>3. /\ pc' \in {"generate", "flush"}
      /\ \/ streamed' = streamed /\ wire' = wire
         \/ OnToken(text) /\ text # <<>>
  BY <1>2
<1>4. text \in Seq(Symbols)
  <2>1. token \in Seq(Symbols) /\ pending \in Seq(Symbols)
    BY TokensType DEF TextType
  <2>2. push(pending, token) \in Scanned(Symbols)
    BY <2>1, SymbolsAreAlphabet, PushType
  <2> QED BY <2>2 DEF Scanned
<1>5. Busy'
  BY <1>3 DEF Busy
<1> HIDE DEF text
<1> QED
  BY <1>1, <1>3, <1>4, <1>5, TellsText

LEMMA TellsFlushed ==
  ASSUME ControlInv, TextType, TellingInv, Flush
  PROVE  TellingInv'
<1> DEFINE text == flush(pending)
<1>1. /\ ask' = ask /\ client' = client /\ pc = "flush" /\ Busy' /\ ask \in Asks
      /\ IF text = <<>> THEN streamed' = streamed /\ wire' = wire ELSE OnToken(text)
  BY DEF Flush, ControlInv, Busy
<1>2. text \in Seq(Symbols)
  BY TailType DEF TextType
<1> HIDE DEF text
<1>3. \/ streamed' = streamed /\ wire' = wire
      \/ OnToken(text) /\ text # <<>>
  BY <1>1
<1> QED
  BY <1>1, <1>2, <1>3, TellsText

\* What is written before the text tells nothing.
LEMMA TellsOpened ==
  ASSUME ControlInv, TextInv, WireInv, RouteStream
  PROVE  TellingInv'
<1>1. pc = "route" /\ ask' = ask /\ recorded' = recorded /\ streamed' = streamed
      /\ client' = client /\ recorded = 0 /\ is_streaming_request
  BY DEF RouteStream, Respond, textVars, ControlInv
<1>2. StreamAgrees'
  BY <1>1, AgreesUnlessRecordedThen
<1>3. SUFFICES ASSUME client = "there", Busy', NEW whole
               PROVE  Tells(wire', ToldSoFar', <<>>, {}, whole)
  BY <1>1, <1>2 DEF TellingInv
<1>4. wire' = wire \o Opening(ask.route, has_tools)
  BY <1>3 DEF RouteStream, Respond, Busy, Write
<1>5. has_tools' = has_tools /\ has_tools \in BOOLEAN
  BY <1>1, AskedOnce, AskedTypes DEF ControlInv
<1>6. Tells(Opening(ask.route, has_tools), <<>>, <<>>, {}, whole)
  BY <1>5, OpeningTells
<1>7. wire = <<>> /\ streamed = <<>>
  BY <1>1 DEF WireInv, TextInv, Before
<1>8. ToldSoFar' = <<>>
  <2>1. PassedOn' = <<>>
    BY <1>1, <1>7, FlattenEmpty DEF PassedOn
  <2> QED BY <2>1 DEF ToldSoFar
<1> DEFINE t == Opening(ask.route, has_tools)
<1>9. <<>> \o t = t
  <2>1. t \in Seq(Events)
    BY <1>6 DEF Tells
  <2> HIDE DEF t
  <2> QED BY <2>1, ConcatEmptySeq
<1> QED
  BY <1>4, <1>6, <1>7, <1>8, <1>9

\* What a whole stream has told, against the answer.
LEMMA ToldMeans ==
  ASSUME NEW told, NEW text, NEW calls, NEW reasons, NEW whole,
         Tells(told, text, calls, reasons, whole)
  PROVE  /\ ShownIn(told) = text /\ CallsIn(told) = calls
         /\ \A i \in DOMAIN told : told[i].reason \in reasons \cup {""}
         /\ \A i \in DOMAIN told :
              told[i].type \in {"output_text.done", "response.completed", "generated_text"}
                 \/ (told[i].type = "stream-end" /\ told[i].reason = "")
                => told[i].text = whole
<1>1. ShownIn(told) = text /\ CallsIn(told) = calls
  BY TellsMeans
<1>2. told \in Seq(Events) /\ \A i \in 1 .. Len(told) : Sound(told[i], reasons, whole)
  BY DEF Tells
<1>3. DOMAIN told = 1 .. Len(told)
  BY <1>2, LenProperties
<1>4. \A i \in DOMAIN told : Sound(told[i], reasons, whole)
  BY <1>2, <1>3
<1>5. \A i \in DOMAIN told : told[i].reason \in reasons \cup {""}
  BY <1>4 DEF Sound
<1>6. \A i \in DOMAIN told :
        told[i].type \in {"output_text.done", "response.completed", "generated_text"}
           \/ (told[i].type = "stream-end" /\ told[i].reason = "")
          => told[i].text = whole
  BY <1>4 DEF Sound, Repeats
<1> QED
  BY <1>1, <1>5, <1>6

\* The stream ends: with what was told before, it says what the answer says.
LEMMA TellsCompleted ==
  ASSUME ControlInv, TextType, TellingInv, Complete, client = "there", is_streaming_request
  PROVE  StreamAgrees'
<1> DEFINE reply == Answer(ask.route, Result, ask.max_tokens)
           events == Closing(ask.route, has_tools, Result, ask.max_tokens, ask.usage)
           reasons == ReasonsFor(has_tools, output, reply)
           told == IF has_tools THEN reply.text ELSE <<>>
           text == IF has_tools THEN reply.text ELSE PassedOn
<1>1. /\ pc = "record" /\ ask' = ask /\ output' = output /\ count' = count /\ streamed' = streamed
      /\ Write(events)
  BY DEF Complete, textVars
<1>2. wire' = wire \o events
  BY <1>1 DEF Write
<1>3. /\ has_tools \in BOOLEAN /\ ask.usage \in BOOLEAN
      /\ ask.route \in GenerationRoutes \ {"generate"}
      /\ has_tools => ask.route \in ToolRoutes
  <2>1. ask \in Asks
    BY DEF ControlInv
  <2>2. has_tools => ask.route \in ToolRoutes
    BY DEF has_tools
  <2> QED BY <2>1, <2>2, AskedTypes
<1>4. Result.text \in Seq(Symbols) /\ Result.text = output
  BY DEF Result, TextType
<1> DEFINE route == ask.route
           tools == has_tools
           result == Result
           max_tokens == ask.max_tokens
           usage == ask.usage
<1>5. TellsAnswer(events, has_tools, reply, reasons)
  <2>1. /\ route \in GenerationRoutes \ {"generate"} /\ tools \in BOOLEAN /\ usage \in BOOLEAN
        /\ tools => route \in ToolRoutes
    BY <1>3
  <2>0. result.text \in Seq(Symbols) /\ result.text = output
    BY <1>4
  <2> HIDE DEF route, tools, result, max_tokens, usage
  <2> DEFINE r == Answer(route, result, max_tokens)
  <2>2. TellsAnswer(Closing(route, tools, result, max_tokens, usage), tools, r,
                    ReasonsFor(tools, result.text, r))
    BY <2>0, <2>1, ClosingTells
  <2>3. TellsAnswer(Closing(route, tools, result, max_tokens, usage), tools, r,
                    ReasonsFor(tools, output, r))
    BY <2>0, <2>2
  <2> QED BY <2>3 DEF route, tools, result, max_tokens, usage
<1>6. ASSUME has_tools PROVE Markers(reply.text, 1) = {}
  <2>1. route \in ToolRoutes /\ result.text \in Seq(Symbols)
    BY <1>3, <1>4, <1>6
  <2> HIDE DEF route, result, max_tokens
  <2>2. Markers(Answer(route, result, max_tokens).text, 1) = {}
    BY <2>1, AnswerWithoutMarkup
  <2> QED BY <2>2 DEF route, result, max_tokens
<1> HIDE DEF events, reply, reasons, route, tools, result, max_tokens, usage
<1>7. PICK calls : (has_tools => calls = reply.calls) /\ Tells(events, told, calls, reasons, reply.text)
  BY <1>5 DEF TellsAnswer
<1>8. Tells(wire, ToldSoFar, <<>>, reasons, reply.text)
  <2>1. Tells(wire, ToldSoFar, <<>>, {}, reply.text)
    BY <1>1 DEF TellingInv, Busy
  <2>2. {} \subseteq reasons
    OBVIOUS
  <2> QED BY <2>1, <2>2, TellsMore
<1>9. Tells(wire', text, calls, reasons, reply.text)
  <2>1. calls \in Seq(Seq(Symbols)) /\ told \in Seq(Symbols)
    BY <1>7 DEF Tells
  <2>2. ToldSoFar \in Seq(Symbols)
    BY <1>8 DEF Tells
  <2>3. CASE has_tools
    <3>1. ToldSoFar = <<>> /\ told = text
      BY <2>3 DEF ToldSoFar
    <3> HIDE DEF told, text
    <3>2. <<>> \o told = told /\ <<>> \o calls = calls
      BY <2>1, NothingMore
    <3>3. Tells(wire \o events, <<>> \o told, <<>> \o calls, reasons, reply.text)
      BY <1>7, <1>8, <3>1, TellsJoin
    <3> QED BY <1>2, <3>1, <3>2, <3>3
  <2>4. CASE ~has_tools
    <3>1. ToldSoFar = text /\ told = <<>>
      BY <2>4 DEF ToldSoFar
    <3> HIDE DEF told, text
    <3>2. Tells(wire \o events, text \o <<>>, <<>> \o calls, reasons, reply.text)
      BY <1>7, <1>8, <3>1, TellsJoin
    <3>3. text \o <<>> = text /\ <<>> \o calls = calls
      BY <2>1, <2>2, <3>1, NothingMore
    <3> QED BY <1>2, <3>2, <3>3
  <2> QED BY <2>3, <2>4
<1>10. has_tools' = has_tools /\ PassedOn' = PassedOn /\ Result' = Result
  BY <1>1, AskedOnce DEF PassedOn, Result
<1>11. Answer(ask'.route, Result', ask'.max_tokens) = reply
  BY <1>1, <1>10 DEF reply
<1>12. /\ ShownIn(wire') = text /\ CallsIn(wire') = calls
       /\ \A i \in DOMAIN wire' : wire'[i].reason \in reasons \cup {""}
       /\ \A i \in DOMAIN wire' :
            wire'[i].type \in {"output_text.done", "response.completed", "generated_text"}
               \/ (wire'[i].type = "stream-end" /\ wire'[i].reason = "")
              => wire'[i].text = reply.text
  <2> HIDE DEF text
  <2> QED BY <1>9, ToldMeans
<1>13. Shown' = text /\ ShownCalls' = calls
  <2> HIDE DEF text
  <2> QED BY <1>12 DEF Shown, ShownCalls, ShownIn, CallsIn, ShownBy, CallsBy
<1>14. ASSUME has_tools
       PROVE  Shown' = reply.text /\ ShownCalls' = reply.calls /\ Markers(Shown', 1) = {}
  BY <1>6, <1>7, <1>13, <1>14
<1>15. ~has_tools => Shown' = PassedOn
  BY <1>13
<1>16. ASSUME has_tools \/ Markers(output, 1) = {}
       PROVE  ShownReasons' \subseteq {reply.reason}
  <2>1. reasons = {reply.reason}
    BY <1>16 DEF reasons, ReasonsFor
  <2>2. \A i \in DOMAIN wire' : wire'[i].reason \in {reply.reason} \cup {""}
    BY <1>12, <2>1
  <2> QED BY <2>2 DEF ShownReasons
<1>17. \A i \in DOMAIN wire' :
         wire'[i].type \in {"output_text.done", "response.completed", "generated_text"}
            \/ (wire'[i].type = "stream-end" /\ wire'[i].reason = "")
           => wire'[i].text = reply.text
  BY <1>12
<1> HIDE DEF text
<1> QED
  BY <1>1, <1>10, <1>11, <1>14, <1>15, <1>16, <1>17 DEF StreamAgrees

\* There is nobody to tell, nothing is being told, or nothing more was told.
LEMMA NobodyTold ==
  ASSUME client' # "there" \/ ~is_streaming_request'
  PROVE  TellingInv'
<1>1. ~(pc' = "closed" /\ client' = "there" /\ recorded' = 1 /\ is_streaming_request')
  OBVIOUS
<1>2. StreamAgrees'
  BY <1>1, Zenon DEF StreamAgrees
<1>3. ~(client' = "there" /\ is_streaming_request' /\ Busy')
  OBVIOUS
<1> QED
  BY <1>2, <1>3, Zenon DEF TellingInv

LEMMA NothingBeingTold ==
  ASSUME ~Busy', pc' # "closed" \/ recorded' = 0
  PROVE  TellingInv'
<1>1. StreamAgrees'
  BY AgreesUnlessRecordedThen
<1> QED
  BY <1>1, Zenon DEF TellingInv

LEMMA ToldStays ==
  ASSUME TellingInv, ask' = ask, client' = client, wire' = wire, streamed' = streamed,
         pc \in {"generate", "flush", "record"}, Busy'
  PROVE  TellingInv'
<1>1. StreamAgrees'
  BY AgreesUnlessRecordedThen DEF Busy
<1>2. ToldSoFar' = ToldSoFar /\ is_streaming_request' = is_streaming_request
  BY AskedOnce DEF ToldSoFar, PassedOn
<1> QED
  BY <1>1, <1>2 DEF TellingInv, Busy

LEMMA TellingKeeps ==
  ASSUME ConnectionInv, WireInv, TellingInv, [Next]_vars
  PROVE  TellingInv'
<1>1. ControlInv /\ TextInv /\ TextType /\ ask' = ask /\ ask \in Asks
  BY ReaderKeeps DEF ConnectionInv, TextInv, ControlInv
<1>2. is_streaming_request' = is_streaming_request
  BY <1>1, AskedOnce
<1>3. CASE Read
  <2>1. ~Busy' /\ pc' # "closed"
    BY <1>3 DEF Read, Busy
  <2> QED BY <2>1, NothingBeingTold
<1>4. CASE Refuse
  <2>1. ~Busy' /\ recorded' = 0
    BY <1>1, <1>4 DEF Refuse, Respond, Busy, ControlInv
  <2> QED BY <2>1, NothingBeingTold
<1>5. CASE RouteOther \/ RouteAnswer
  <2>1. ~is_streaming_request'
    BY <1>2, <1>5 DEF RouteOther, RouteAnswer
  <2> QED BY <2>1, NobodyTold
<1>6. CASE RouteStream
  BY <1>1, <1>6, TellsOpened
<1>7. CASE GenerationFails
  <2>1. ~Busy' /\ recorded' = 0
    BY <1>1, <1>7 DEF GenerationFails, Busy, ControlInv
  <2> QED BY <2>1, NothingBeingTold
<1>8. CASE DecodeToken
  BY <1>1, <1>8, TellsDecoded
<1>9. CASE DecodeStops
  <2>1. /\ client' = client /\ wire' = wire /\ streamed' = streamed
        /\ pc \in {"generate", "flush", "record"} /\ Busy'
    BY <1>9 DEF DecodeStops, textVars, wireVars, Busy
  <2> QED BY <1>1, <2>1, ToldStays
<1>10. CASE Flush
  BY <1>1, <1>10, TellsFlushed
<1>11. CASE Complete
  <2>1. pc' = "closed" /\ client' = client
    BY <1>11 DEF Complete
  <2>2. CASE client = "there" /\ is_streaming_request
    <3>1. StreamAgrees'
      BY <1>1, <1>11, <2>2, TellsCompleted
    <3>2. ~Busy'
      BY <2>1 DEF Busy
    <3> QED BY <3>1, <3>2, Zenon DEF TellingInv
  <2>3. CASE client # "there" \/ ~is_streaming_request
    BY <1>2, <2>1, <2>3, NobodyTold
  <2> QED BY <2>2, <2>3
<1>12. CASE ClientLeaves
  <2>1. client' # "there"
    BY <1>12 DEF ClientLeaves
  <2> QED BY <2>1, NobodyTold
<1>13. CASE UNCHANGED vars
  <2>1. /\ client' = client /\ wire' = wire /\ pc' = pc /\ recorded' = recorded
        /\ output' = output /\ count' = count /\ streamed' = streamed
    BY <1>13 DEF vars, textVars, wireVars
  <2>2. /\ has_tools' = has_tools /\ PassedOn' = PassedOn /\ Result' = Result
        /\ Shown' = Shown /\ ShownCalls' = ShownCalls /\ ShownReasons' = ShownReasons
        /\ Busy' = Busy
    BY <1>1, <2>1, AskedOnce DEF PassedOn, Result, Shown, ShownCalls, ShownReasons, Busy
  <2>3. ToldSoFar' = ToldSoFar
    BY <2>2 DEF ToldSoFar
  <2>4. StreamAgrees' = StreamAgrees
    BY <1>1, <1>2, <2>1, <2>2 DEF StreamAgrees
  <2> QED BY <1>2, <2>1, <2>2, <2>3, <2>4 DEF TellingInv
<1> QED
  BY <1>3, <1>4, <1>5, <1>6, <1>7, <1>8, <1>9, <1>10, <1>11, <1>12, <1>13 DEF Next, ServerStep, Closed

\* Nothing is written before the request is routed.
LEMMA StreamsBegin == Init => WireInv /\ TellingInv
<1> SUFFICES ASSUME Init PROVE WireInv /\ TellingInv
  OBVIOUS
<1>1. pc = "read" /\ client = "there" /\ wire = <<>>
  BY DEF Init
<1>2. StreamAgrees
  BY <1>1, AgreesUnlessRecorded
<1>3. ~Busy
  BY <1>1 DEF Busy
<1>4. TellingInv
  BY <1>2, <1>3, Zenon DEF TellingInv
<1> QED
  BY <1>1, <1>4 DEF WireInv

(***************************************************************************)
(* What a client reads from a stream that ended is the answer another      *)
(* client gets at once: the same text and tool calls, the same reason, and *)
(* no call markup when tools were declared.                                *)
(***************************************************************************)
THEOREM StreamsAgree == Spec => []StreamAgrees
<1>1. ConnectionInv /\ WireInv /\ TellingInv /\ [Next]_vars => WireInv' /\ TellingInv'
  BY WireKeeps, TellingKeeps
<1>2. TellingInv => StreamAgrees
  BY DEF TellingInv
<1> QED
  BY <1>1, <1>2, StreamsBegin, ConnectionInvariant, PTL DEF Spec

=============================================================================
