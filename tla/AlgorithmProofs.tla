--------------------------- MODULE AlgorithmProofs --------------------------
(***************************************************************************)
(* For every instance of Algorithms: the attention scans weigh each row of *)
(* a token's window once (AttentionVisitsWindows), fused and batched       *)
(* projections are what their matrices are alone                           *)
(* (ProjectionsAgreeWithMatrices), every way through a model ends in the   *)
(* same cache and logits (ForwardPathsAlwaysAgree), and the pool's units   *)
(* share its work (WorkIsSharedOut).                                       *)
(*                                                                         *)
(* Attention: a walk through the ring visits a run of rows in order; the   *)
(* online softmax over a run is the sum of its rows, each weighed against  *)
(* the largest score so far (the invariant of every scan), and runs that   *)
(* follow each other add up, so blocks of positions do; a head's state is  *)
(* independent of the group it is scanned in; and the units of a call      *)
(* share its heads out, each to one.                                       *)
(*                                                                         *)
(* Projections: an element depends on its row and its vector only, so      *)
(* whole tokens, groups of lanes, fused calls and single ones all give the *)
(* set Outputs; and the checks of a call see every fault.                  *)
(*                                                                         *)
(* Forward passes: every layer is a mixer, which alone reads and writes    *)
(* the cache, and what finishes its row.  A batch takes the rows through a *)
(* layer's mixer in token order, so it is a column of the single steps     *)
(* layer by layer; rows stored early are still there when they are read.   *)
(***************************************************************************)
EXTENDS Algorithms, FiniteSetTheorems, SequenceTheorems, TLAPS

(* Numbers: least elements, products and quotients. *)

\* A set of natural numbers that is not empty has a least element.
LEMMA LeastElement ==
  ASSUME NEW T \in SUBSET Nat, T # {}
  PROVE  \E x \in T : \A y \in T : x <= y
<1> DEFINE Below == {0 .. x : x \in T}
           R == StrictSubsetOrdering(Nat)
<1>1. IsWellFoundedOn(R, FiniteSubsetsOf(Nat))
  BY FS_StrictSubsetOrderingWellFounded
<1>2. Below \subseteq FiniteSubsetsOf(Nat) /\ Below # {}
  <2>1. ASSUME NEW x \in T
        PROVE  0 .. x \in SUBSET Nat /\ IsFiniteSet(0 .. x)
    BY FS_Interval
  <2> QED
    BY <2>1, Zenon DEF FiniteSubsetsOf
<1>3. PICK b \in Below : \A c \in Below : ~(<<c, b>> \in R)
  <2> HIDE DEF R, Below
  <2> QED BY <1>1, <1>2, WFMin
<1>4. PICK x \in T : b = 0 .. x
  OBVIOUS
<1>5. ASSUME NEW y \in T, y < x
      PROVE  FALSE
  <2>1. 0 .. y \subseteq 0 .. x /\ 0 .. y # 0 .. x
    <3>1. x \in 0 .. x /\ x \notin 0 .. y
      BY <1>5
    <3> QED BY <1>5, <3>1
  <2>2. <<0 .. y, 0 .. x>> \in R
    BY <2>1 DEF StrictSubsetOrdering
  <2> QED BY <1>3, <1>4, <2>2
<1> QED
  BY <1>5

\* What holds of every number up to n as soon as it holds of the smaller ones.
LEMMA FromBelow ==
  ASSUME NEW n \in Nat, NEW Good,
         \A i \in 0 .. n : (\A j \in 0 .. i - 1 : j \in Good) => i \in Good
  PROVE  \A i \in 0 .. n : i \in Good
<1> DEFINE Bad == {i \in 0 .. n : i \notin Good}
<1>1. SUFFICES ASSUME Bad # {} PROVE FALSE
  OBVIOUS
<1>2. PICK i \in Bad : \A j \in Bad : i <= j
  <2>1. Bad \in SUBSET Nat
    OBVIOUS
  <2> HIDE DEF Bad
  <2> QED BY <1>1, <2>1, LeastElement
<1>3. \A j \in 0 .. i - 1 : j \in Good
  BY <1>2
<1> QED
  BY <1>2, <1>3

\* Products grow with their factors.
LEMMA ProductGrows ==
  ASSUME NEW x \in Nat, NEW y \in Nat, NEW b \in Nat, x <= y
  PROVE  x * b <= y * b
<1>1. (y - x) * b >= 0
  OBVIOUS
<1>2. (y - x) * b = y * b - x * b
  OBVIOUS
<1> QED BY <1>1, <1>2

LEMMA NextProduct ==
  ASSUME NEW x \in Nat, NEW b \in Nat
  PROVE  (x + 1) * b = x * b + b /\ x * b \in Nat
OBVIOUS

\* Quotient and remainder put a number together again.
LEMMA Divided ==
  ASSUME NEW a \in Nat, NEW b \in Nat \ {0}
  PROVE  /\ a \div b \in Nat /\ a % b \in 0 .. b - 1
         /\ a = (a \div b) * b + (a % b)
<1> DEFINE q == a \div b
           m == a % b
<1>1. /\ q \in Int /\ m \in Int /\ a = b * q + m
      /\ 0 <= m /\ m < b
  OBVIOUS
<1> HIDE DEF q, m
<1>2. q * b = b * q
  BY <1>1
<1>3. q >= 0
  <2>1. SUFFICES ASSUME q <= -1 PROVE FALSE
    BY <1>1
  <2>2. q * b <= (-1) * b
    BY <1>1, <2>1
  <2> QED BY <1>1, <1>2, <2>2
<1>4. q \in Nat /\ m \in 0 .. b - 1 /\ a = q * b + m
  BY <1>1, <1>2, <1>3
<1> QED
  BY <1>4 DEF q, m

\* A number is put together from a quotient and a remainder in one way.
LEMMA OneWay ==
  ASSUME NEW b \in Nat, NEW x \in Nat, NEW y \in Nat, NEW r \in 0 .. b - 1, NEW s \in 0 .. b - 1,
         x * b + r = y * b + s
  PROVE  x = y /\ r = s
<1>1. ASSUME NEW u \in Nat, NEW v \in Nat, NEW g \in 0 .. b - 1, NEW h \in 0 .. b - 1,
             u * b + g = v * b + h, u < v
      PROVE  FALSE
  <2>1. (u + 1) * b <= v * b
    BY <1>1, ProductGrows
  <2>2. (u + 1) * b = u * b + b /\ u * b \in Nat /\ v * b \in Nat
    BY NextProduct
  <2> QED BY <1>1, <2>1, <2>2
<1>2. x = y
  BY <1>1
<1>3. x * b \in Nat
  BY NextProduct
<1> QED BY <1>2, <1>3

\* Quotient and remainder are the only ones that do.
LEMMA DividesInto ==
  ASSUME NEW b \in Nat \ {0}, NEW x \in Nat, NEW r \in 0 .. b - 1
  PROVE  /\ x * b + r \in Nat
         /\ (x * b + r) \div b = x /\ (x * b + r) % b = r
<1>1. x * b + r \in Nat
  BY NextProduct
<1> DEFINE a == x * b + r
<1>2. /\ a \div b \in Nat /\ a % b \in 0 .. b - 1
      /\ a = (a \div b) * b + (a % b)
  <2> HIDE DEF a
  <2>1. a \in Nat
    BY <1>1 DEF a
  <2> QED BY <2>1, Divided
<1>3. a \div b = x /\ a % b = r
  <2> DEFINE q == a \div b
             m == a % b
  <2>1. q \in Nat /\ m \in 0 .. b - 1 /\ q * b + m = x * b + r
    BY <1>2
  <2> HIDE DEF q, m
  <2>2. q = x /\ m = r
    BY <2>1, OneWay
  <2> QED BY <2>2 DEF q, m
<1> QED BY <1>1, <1>3

\* Row x of b columns ends where row x + 1 begins.
LEMMA RowEnds ==
  ASSUME NEW a \in Nat, NEW b \in Nat, NEW x \in 0 .. a - 1, NEW r \in 0 .. b - 1
  PROVE  x * b + r \in 0 .. a * b - 1
<1>1. (x + 1) * b <= a * b
  BY ProductGrows
<1>2. (x + 1) * b = x * b + b /\ x * b \in Nat /\ a * b \in Nat
  BY NextProduct
<1> QED BY <1>1, <1>2

\* ... and every place is in some row.
LEMMA RowOf ==
  ASSUME NEW a \in Nat, NEW b \in Nat \ {0}, NEW u \in 0 .. a * b - 1
  PROVE  u \div b \in 0 .. a - 1 /\ u % b \in 0 .. b - 1
<1>1. a * b \in Nat /\ u \in Nat
  BY NextProduct
<1> DEFINE q == u \div b
           m == u % b
<1>2. q \in Nat /\ m \in 0 .. b - 1 /\ u = q * b + m
  BY <1>1, Divided
<1> HIDE DEF q, m
<1>3. ASSUME a <= q PROVE FALSE
  <2>1. a * b <= q * b
    BY <1>2, <1>3, ProductGrows
  <2>2. q * b \in Nat
    BY <1>2, NextProduct
  <2> QED BY <1>1, <1>2, <2>1, <2>2
<1>4. q \in 0 .. a - 1
  BY <1>2, <1>3
<1> QED BY <1>2, <1>4 DEF q, m

-----------------------------------------------------------------------------
(* The state of the online softmax. *)

\* Scores: finite, where NegInf stands for minus infinity.
Scores == {x \in Int : NegInf < x /\ x < -NegInf}

LEMMA ScoresAre ==
  /\ NegInf \in Int /\ NegInf = 0 - 1000
  /\ \A x \in Scores : x \in Int /\ NegInf < x /\ x + NegInf < 0
BY DEF Scores, NegInf

Top(S) == CHOOSE x \in S : \A y \in S : y <= x

\* A set of scores has a greatest element, and only one.
LEMMA TopIsGreatest ==
  ASSUME NEW S \in SUBSET Scores, S # {}
  PROVE  Top(S) \in S /\ \A y \in S : y <= Top(S)
<1> DEFINE T == {1000 - x : x \in S}
<1>1. T \in SUBSET Nat /\ T # {}
  BY ScoresAre
<1>2. PICK t \in T : \A u \in T : t <= u
  <2> HIDE DEF T
  <2> QED BY <1>1, LeastElement
<1>3. PICK x \in S : t = 1000 - x
  OBVIOUS
<1>4. ASSUME NEW y \in S PROVE y <= x
  <2>1. 1000 - x <= 1000 - y
    BY <1>2, <1>3
  <2> QED BY <2>1, ScoresAre
<1> QED BY <1>4, Zenon DEF Top

LEMMA TopIs ==
  ASSUME NEW S \in SUBSET Scores, NEW m \in S, \A y \in S : y <= m
  PROVE  Top(S) = m
<1>1. Top(S) \in S /\ m <= Top(S)
  BY TopIsGreatest
<1> QED BY <1>1, ScoresAre

\* The scores of the rows lo .. k after those of `before`, and relative to m.
Raw(before, s, lo, k) ==
  [i \in 1 .. Len(before) + (k - lo + 1) |-> IF i <= Len(before) THEN before[i] ELSE s[lo + (i - 1 - Len(before))]]
Scaled(d, m) == [i \in DOMAIN d |-> d[i] - m]
Terms(s, lo, k, m) == [i \in 1 .. k - lo + 1 |-> [row |-> lo + (i - 1), exp |-> s[lo + (i - 1)] - m]]
Tops(before, s, lo, k) == {s[p] : p \in lo .. k} \cup {before[i] : i \in 1 .. Len(before)}

\* What the scan holds after the rows lo .. k, `before` being <<>> or the sink.
State(before, s, lo, k, out) ==
  IF k < lo /\ before = <<>> THEN Start(out)
  ELSE LET m == Top(Tops(before, s, lo, k))
       IN  [max |-> m, denom |-> Scaled(Raw(before, s, lo, k), m), out |-> Terms(s, lo, k, m)]

IsBefore(before) == before = <<>> \/ \E x \in Scores : before = <<x>>

LEMMA TopsAreScores ==
  ASSUME NEW before, IsBefore(before), NEW s, NEW lo \in Int, NEW k \in Int,
         \A p \in lo .. k : s[p] \in Scores
  PROVE  Tops(before, s, lo, k) \in SUBSET Scores
<1>1. CASE before = <<>>
  BY <1>1 DEF Tops
<1>2. CASE \E x \in Scores : before = <<x>>
  BY <1>2 DEF Tops
<1> QED BY <1>1, <1>2 DEF IsBefore

Longer(f, x) == Append(f, x)

LEMMA AppendIs ==
  ASSUME NEW S, NEW f \in Seq(S), NEW n \in Nat, Len(f) = n, NEW x
  PROVE  Append(f, x) = [i \in 1 .. n + 1 |-> IF i <= n THEN f[i] ELSE x]
<1> DEFINE T == S \cup {x}
           g == Append(f, x)
<1>1. f \in Seq(T) /\ x \in T
  OBVIOUS
<1>2. g \in Seq(T) /\ Len(g) = n + 1 /\ (\A i \in 1 .. n : g[i] = f[i]) /\ g[n + 1] = x
  <2> HIDE DEF T
  <2> QED BY <1>1, AppendProperties
<1> HIDE DEF g
<1>3. g = [i \in 1 .. n + 1 |-> g[i]]
  BY <1>2
<1>4. \A i \in 1 .. n + 1 : g[i] = IF i <= n THEN f[i] ELSE x
  BY <1>2
<1> QED BY <1>3, <1>4 DEF g

\* One more entry, relative to the maximum before it or to itself.
LEMMA EntryAdded ==
  ASSUME NEW before, IsBefore(before), NEW s, NEW lo \in Int, NEW k \in Int, k >= lo - 1,
         \A p \in lo .. k + 1 : s[p] \in Scores, NEW m \in Scores
  PROVE  /\ Longer(Scaled(Raw(before, s, lo, k), m), s[k + 1] - m) = Scaled(Raw(before, s, lo, k + 1), m)
         /\ AffineDenom(Scaled(Raw(before, s, lo, k), m), 0, s[k + 1] - m) = Scaled(Raw(before, s, lo, k + 1), m)
         /\ AffineDenom(Scaled(Raw(before, s, lo, k), m), m - s[k + 1], 0) = Scaled(Raw(before, s, lo, k + 1), s[k + 1])
<1> DEFINE x == s[k + 1]
           n == Len(before) + (k - lo + 1)
           old == Scaled(Raw(before, s, lo, k), m)
           new(y) == Scaled(Raw(before, s, lo, k + 1), y)
<1>0. n \in Nat /\ x \in Int /\ Len(before) \in {0, 1} /\ m \in Int /\ m - x # Vanishing
      /\ \A i \in 1 .. Len(before) : before[i] \in Int
  BY ScoresAre DEF IsBefore, Vanishing
<1>1. Len(before) + (k + 1 - lo + 1) = n + 1
  BY <1>0
<1>2. /\ DOMAIN old = 1 .. n
      /\ \A i \in 1 .. n : old[i] = Raw(before, s, lo, k)[i] - m
  BY <1>0 DEF Scaled, Raw
<1>3. \A i \in 1 .. n : /\ Raw(before, s, lo, k)[i] \in Int
                        /\ Raw(before, s, lo, k + 1)[i] = Raw(before, s, lo, k)[i]
  <2> SUFFICES ASSUME NEW i \in 1 .. n
               PROVE  Raw(before, s, lo, k)[i] \in Int /\ Raw(before, s, lo, k + 1)[i] = Raw(before, s, lo, k)[i]
    OBVIOUS
  <2>1. i \in 1 .. n + 1
    BY <1>0
  <2>2. i <= Len(before) \/ lo + (i - 1 - Len(before)) \in lo .. k
    BY <1>0
  <2>3. i <= Len(before) \/ s[lo + (i - 1 - Len(before))] \in Int
    BY <2>2, ScoresAre
  <2> QED BY <1>0, <1>1, <2>1, <2>3 DEF Raw
<1>4. Raw(before, s, lo, k + 1)[n + 1] = x
  <2>1. n + 1 \in 1 .. n + 1 /\ ~(n + 1 <= Len(before)) /\ lo + (n + 1 - 1 - Len(before)) = k + 1
    BY <1>0
  <2> QED BY <1>1, <2>1 DEF Raw
<1>5. \A y \in Int : /\ DOMAIN new(y) = 1 .. n + 1
                     /\ \A i \in 1 .. n + 1 : new(y)[i] = Raw(before, s, lo, k + 1)[i] - y
                     /\ new(y) = [i \in 1 .. n + 1 |-> new(y)[i]]
  BY <1>1 DEF Scaled, Raw
<1>6. old \in Seq(Int) /\ Len(old) = n
  <2>1. old = [i \in 1 .. n |-> Raw(before, s, lo, k)[i] - m]
    BY DEF Scaled, Raw
  <2>2. \A i \in 1 .. n : Raw(before, s, lo, k)[i] - m \in Int
    BY <1>0, <1>3
  <2> HIDE DEF old, n
  <2> QED BY <1>0, <2>1, <2>2
<1> HIDE DEF old, n, x, new
<1>7. Append(old, x - m) = new(m)
  <2>1. Append(old, x - m) = [i \in 1 .. n + 1 |-> IF i <= n THEN old[i] ELSE x - m]
    BY <1>0, <1>6
  <2>2. \A i \in 1 .. n + 1 : (IF i <= n THEN old[i] ELSE x - m) = new(m)[i]
    <3> SUFFICES ASSUME NEW i \in 1 .. n + 1
                 PROVE  (IF i <= n THEN old[i] ELSE x - m) = new(m)[i]
      OBVIOUS
    <3>1. CASE i <= n
      <4>1. i \in 1 .. n
        BY <1>0, <3>1
      <4> QED BY <1>0, <1>2, <1>3, <1>5, <3>1, <4>1
    <3>2. CASE i = n + 1
      BY <1>0, <1>4, <1>5, <3>2
    <3> QED BY <1>0, <3>1, <3>2
  <2> QED BY <1>0, <1>5, <2>1, <2>2
<1>8. AffineDenom(old, 0, x - m) = new(m)
  <2>1. [i \in DOMAIN old |-> old[i] + 0] = old
    BY <1>6
  <2>2. AffineDenom(old, 0, x - m) = Append(old, x - m)
    BY <2>1 DEF AffineDenom, Vanishing
  <2> QED BY <1>7, <2>2
<1>9. AffineDenom(old, m - x, 0) = new(x)
  <2> DEFINE moved == [i \in 1 .. n |-> old[i] + (m - x)]
  <2>1. moved \in Seq(Int) /\ Len(moved) = n
    BY <1>0, <1>6
  <2>2. AffineDenom(old, m - x, 0) = Append(moved, 0)
    BY <1>0, <1>2 DEF AffineDenom
  <2>3. \A i \in 1 .. n : moved[i] = new(x)[i]
    <3> SUFFICES ASSUME NEW i \in 1 .. n PROVE moved[i] = new(x)[i]
      OBVIOUS
    <3>1. moved[i] = (Raw(before, s, lo, k)[i] - m) + (m - x) /\ Raw(before, s, lo, k)[i] \in Int
      BY <1>2, <1>3
    <3>2. new(x)[i] = Raw(before, s, lo, k)[i] - x
      <4>1. i \in 1 .. n + 1
        BY <1>0
      <4> QED BY <1>0, <1>3, <1>5, <4>1
    <3> QED BY <1>0, <3>1, <3>2
  <2> HIDE DEF moved
  <2>4. Append(moved, 0) = [i \in 1 .. n + 1 |-> IF i <= n THEN moved[i] ELSE 0]
    BY <1>0, <2>1, AppendIs
  <2>5. new(x)[n + 1] = 0
    <3>1. n + 1 \in 1 .. n + 1
      BY <1>0
    <3> QED BY <1>0, <1>4, <1>5, <3>1
  <2>6. \A i \in 1 .. n + 1 : (IF i <= n THEN moved[i] ELSE 0) = new(x)[i]
    <3> SUFFICES ASSUME NEW i \in 1 .. n + 1
                 PROVE  (IF i <= n THEN moved[i] ELSE 0) = new(x)[i]
      OBVIOUS
    <3>1. i = n + 1 \/ i \in 1 .. n
      BY <1>0
    <3> QED BY <1>0, <2>3, <2>5, <3>1
  <2> QED BY <1>0, <1>5, <2>2, <2>4, <2>6
<1> QED BY <1>7, <1>8, <1>9 DEF old, x, new, Longer

\* The same for the weighted rows.
LEMMA TermAdded ==
  ASSUME NEW s, NEW lo \in Int, NEW k \in Int, k >= lo - 1,
         \A p \in lo .. k + 1 : s[p] \in Scores, NEW m \in Scores
  PROVE  LET x == s[k + 1]
         IN  /\ Affine(Terms(s, lo, k, m), 0, x - m, k + 1) = Terms(s, lo, k + 1, m)
             /\ Affine(Terms(s, lo, k, m), m - x, 0, k + 1) = Terms(s, lo, k + 1, x)
<1> DEFINE x == s[k + 1]
           n == k - lo + 1
           old == Terms(s, lo, k, m)
           Entry(p, e) == [row |-> p, exp |-> e]
<1>0. n \in Nat /\ x \in Int /\ m \in Int /\ m - x # Vanishing /\ 0 # Vanishing
  BY ScoresAre DEF Vanishing
<1>1. k + 1 - lo + 1 = n + 1 /\ lo + n = k + 1
  OBVIOUS
<1>2. \A i \in 1 .. n : s[lo + (i - 1)] \in Int
  BY ScoresAre
<1>3. /\ old = [i \in 1 .. n |-> Entry(lo + (i - 1), s[lo + (i - 1)] - m)]
      /\ \A y : Terms(s, lo, k + 1, y) = [i \in 1 .. n + 1 |-> Entry(lo + (i - 1), s[lo + (i - 1)] - y)]
  BY <1>1 DEF Terms
<1> HIDE DEF n, old
<1>4. ASSUME NEW d \in Int, NEW w \in Int, NEW y \in Int, d # Vanishing, d = m - y, w = x - y
      PROVE  Affine(old, d, w, k + 1) = Terms(s, lo, k + 1, y)
  <2> DEFINE moved == [i \in DOMAIN old |-> [old[i] EXCEPT !.exp = @ + d]]
             R == [row : Int, exp : Int]
  <2>1. moved = [i \in 1 .. n |-> Entry(lo + (i - 1), (s[lo + (i - 1)] - m) + d)]
    BY <1>3
  <2>2. \A i \in 1 .. n : (s[lo + (i - 1)] - m) + d = s[lo + (i - 1)] - y
    BY <1>0, <1>2, <1>4
  <2>3. moved = [i \in 1 .. n |-> Entry(lo + (i - 1), s[lo + (i - 1)] - y)]
    BY <2>1, <2>2
  <2>4. moved \in Seq(R) /\ Len(moved) = n
    <3>0. \A p, e \in Int : Entry(p, e) \in R
      OBVIOUS
    <3>1. \A i \in 1 .. n : Entry(lo + (i - 1), s[lo + (i - 1)] - y) \in R
      <4> HIDE DEF Entry, R
      <4>1. \A i \in 1 .. n : lo + (i - 1) \in Int /\ s[lo + (i - 1)] - y \in Int
        BY <1>0, <1>2
      <4> QED BY <3>0, <4>1
    <3> HIDE DEF R, moved, Entry
    <3> QED BY <1>0, <2>3, <3>1
  <2>5. Affine(old, d, w, k + 1) = Append(moved, Entry(k + 1, w))
    BY <1>4 DEF Affine
  <2> HIDE DEF moved, R
  <2>6. Append(moved, Entry(k + 1, w)) = [i \in 1 .. n + 1 |-> IF i <= n THEN moved[i] ELSE Entry(k + 1, w)]
    BY <1>0, <2>4, AppendIs
  <2>7. \A i \in 1 .. n + 1 : (IF i <= n THEN moved[i] ELSE Entry(k + 1, w)) = Entry(lo + (i - 1), s[lo + (i - 1)] - y)
    <3> SUFFICES ASSUME NEW i \in 1 .. n + 1
                 PROVE  (IF i <= n THEN moved[i] ELSE Entry(k + 1, w)) = Entry(lo + (i - 1), s[lo + (i - 1)] - y)
      OBVIOUS
    <3>1. CASE i \in 1 .. n
      BY <2>3, <3>1
    <3>2. CASE i = n + 1
      <4>1. lo + (i - 1) = k + 1 /\ ~(i <= n)
        BY <1>0, <1>1, <3>2
      <4> QED BY <1>4, <4>1
    <3> QED BY <1>0, <3>1, <3>2
  <2> HIDE DEF Entry
  <2>8. [i \in 1 .. n + 1 |-> IF i <= n THEN moved[i] ELSE Entry(k + 1, w)]
          = [i \in 1 .. n + 1 |-> Entry(lo + (i - 1), s[lo + (i - 1)] - y)]
    BY <2>7
  <2> QED BY <1>3, <2>5, <2>6, <2>8
<1>5. Affine(old, 0, x - m, k + 1) = Terms(s, lo, k + 1, m)
  <2> HIDE DEF x
  <2>1. 0 = m - m /\ x - m \in Int
    BY <1>0
  <2> QED BY <1>0, <1>4, <2>1
<1>6. Affine(old, m - x, 0, k + 1) = Terms(s, lo, k + 1, x)
  <2> HIDE DEF x
  <2>1. 0 = x - x /\ m - x \in Int
    BY <1>0
  <2> QED BY <1>0, <1>4, <2>1
<1> QED BY <1>5, <1>6 DEF old

\* The state before the first row holds the sink alone, or nothing.
LEMMA TopAdded ==
  ASSUME NEW before, IsBefore(before), NEW s, NEW lo \in Int, NEW k \in Int, k >= lo - 1,
         \A p \in lo .. k + 1 : s[p] \in Scores, ~(k < lo /\ before = <<>>)
  PROVE  LET m == Top(Tops(before, s, lo, k))
         IN  /\ m \in Scores
             /\ Top(Tops(before, s, lo, k + 1)) = IF s[k + 1] > m THEN s[k + 1] ELSE m
<1> DEFINE S == Tops(before, s, lo, k)
           N == Tops(before, s, lo, k + 1)
           m == Top(S)
           x == s[k + 1]
<1>1. S \in SUBSET Scores /\ N \in SUBSET Scores
  BY TopsAreScores
<1>2. x \in N /\ N = S \cup {x}
  <2>1. lo .. k + 1 = (lo .. k) \cup {k + 1}
    OBVIOUS
  <2> QED BY <2>1 DEF Tops
<1>3. S # {}
  <2>1. CASE k >= lo
    <3>1. lo \in lo .. k
      BY <2>1
    <3> QED BY <3>1 DEF Tops
  <2>2. CASE before # <<>>
    <3>1. PICK y \in Scores : before = <<y>>
      BY <2>2 DEF IsBefore
    <3>2. 1 \in 1 .. Len(before)
      BY <3>1
    <3> QED BY <3>2 DEF Tops
  <2> QED BY <2>1, <2>2
<1> HIDE DEF S, N, x
<1>4. m \in S /\ \A y \in S : y <= m
  BY <1>1, <1>3, TopIsGreatest
<1> HIDE DEF m
<1>5. m \in Scores /\ x \in Scores
  BY <1>1, <1>2, <1>4
<1>6. CASE x > m
  <2>1. \A y \in N : y <= x
    BY <1>1, <1>2, <1>4, <1>5, <1>6, ScoresAre
  <2>2. Top(N) = x
    BY <1>1, <1>2, <2>1, TopIs
  <2> QED BY <1>5, <1>6, <2>2 DEF m, N, x, S
<1>7. CASE ~(x > m)
  <2>1. \A y \in N : y <= m
    BY <1>1, <1>2, <1>4, <1>5, <1>7, ScoresAre
  <2>2. m \in N
    BY <1>2, <1>4
  <2>3. Top(N) = m
    BY <1>1, <2>1, <2>2, TopIs
  <2> QED BY <1>5, <1>7, <2>3 DEF m, N, x, S
<1> QED BY <1>6, <1>7

\* One more row moves the state on, for a head by itself or in a group of four.
LEMMA VisitsRow ==
  ASSUME NEW before, IsBefore(before), NEW s, NEW lo \in Int, NEW k \in Int, k >= lo - 1,
         \A p \in lo .. k + 1 : s[p] \in Scores, NEW out
  PROVE  /\ Visit(State(before, s, lo, k, out), s[k + 1], k + 1) = State(before, s, lo, k + 1, out)
         /\ VisitTogether(State(before, s, lo, k, out), s[k + 1], k + 1) = State(before, s, lo, k + 1, out)
<1> DEFINE x == s[k + 1]
           acc == State(before, s, lo, k, out)
           M == Top(Tops(before, s, lo, k + 1))
           new == State(before, s, lo, k + 1, out)
<1>0. x \in Scores
  OBVIOUS
<1>1. new = [max |-> M, denom |-> Scaled(Raw(before, s, lo, k + 1), M), out |-> Terms(s, lo, k + 1, M)]
  <2>1. ~(k + 1 < lo)
    OBVIOUS
  <2> QED BY <2>1 DEF State
<1>2. CASE k < lo /\ before = <<>>
  <2>1. k + 1 = lo
    BY <1>2
  <2>2. M = x
    <3>1. Tops(before, s, lo, k + 1) = {x}
      <4>1. lo .. k + 1 = {k + 1}
        BY <2>1
      <4>2. 1 .. Len(before) = {}
        BY <1>2
      <4> QED BY <4>1, <4>2 DEF Tops
    <3>2. Tops(before, s, lo, k + 1) \in SUBSET Scores
      BY <1>0, <3>1
    <3>3. \A y \in Tops(before, s, lo, k + 1) : y <= x
      BY <1>0, <3>1, ScoresAre
    <3> QED BY <3>1, <3>2, <3>3, TopIs
  <2>3. acc = [max |-> NegInf, denom |-> <<>>, out |-> out]
    BY <1>2 DEF State, Start
  <2>4. x > NegInf /\ x \in Int
    BY <1>0, ScoresAre
  <2>5. OldScale(NegInf, x) = Vanishing
    BY DEF OldScale
  <2>6. AffineDenom(<<>>, Vanishing, 0) = <<0>> /\ Affine(out, Vanishing, 0, k + 1) = <<[row |-> k + 1, exp |-> 0]>>
    BY DEF AffineDenom, Affine
  <2>7. Scaled(Raw(before, s, lo, k + 1), x) = <<0>>
    <3>1. Len(before) = 0 /\ k + 1 - lo + 1 = 1
      BY <1>2, <2>1
    <3>2. Raw(before, s, lo, k + 1) = [i \in 1 .. 1 |-> x]
      <4>1. \A i \in 1 .. 1 : lo + (i - 1 - 0) = k + 1
        BY <2>1
      <4> QED BY <3>1, <4>1 DEF Raw
    <3>3. x - x = 0
      BY <2>4
    <3> HIDE DEF x
    <3> QED BY <3>2, <3>3 DEF Scaled
  <2>8. Terms(s, lo, k + 1, x) = <<[row |-> k + 1, exp |-> 0]>>
    <3>1. k + 1 - lo + 1 = 1 /\ \A i \in 1 .. 1 : lo + (i - 1) = k + 1
      BY <2>1
    <3>2. Terms(s, lo, k + 1, x) = [i \in 1 .. 1 |-> [row |-> k + 1, exp |-> x - x]]
      BY <3>1 DEF Terms
    <3>3. x - x = 0
      BY <2>4
    <3> HIDE DEF x
    <3> QED BY <3>2, <3>3
  <2> DEFINE r == [max |-> x, denom |-> <<0>>, out |-> <<[row |-> k + 1, exp |-> 0]>>]
  <2>9. new = r
    BY <1>1, <2>2, <2>7, <2>8
  <2> HIDE DEF x, acc, new
  <2>10. Visit(acc, x, k + 1) = r
    BY <2>3, <2>4, <2>5, <2>6 DEF Visit
  <2>11. VisitTogether(acc, x, k + 1) = r
    BY <2>3, <2>4, <2>5, <2>6 DEF VisitTogether
  <2> QED BY <2>9, <2>10, <2>11 DEF x, acc, new
<1>3. CASE ~(k < lo /\ before = <<>>)
  <2> DEFINE m == Top(Tops(before, s, lo, k))
             D == Scaled(Raw(before, s, lo, k), m)
             O == Terms(s, lo, k, m)
  <2>1. m \in Scores /\ M = IF x > m THEN x ELSE m
    BY <1>3, TopAdded
  <2>2. acc = [max |-> m, denom |-> D, out |-> O]
    BY <1>3, Zenon DEF State
  <2>3. /\ Append(D, x - m) = Scaled(Raw(before, s, lo, k + 1), m)
        /\ AffineDenom(D, 0, x - m) = Scaled(Raw(before, s, lo, k + 1), m)
        /\ AffineDenom(D, m - x, 0) = Scaled(Raw(before, s, lo, k + 1), x)
    <3>1. m \in Scores
      BY <2>1
    <3> HIDE DEF m, acc, new, M, O
    <3>2. Append(D, x - m) = Scaled(Raw(before, s, lo, k + 1), m)
      <4>1. Longer(D, x - m) = Scaled(Raw(before, s, lo, k + 1), m)
        BY <3>1, EntryAdded
      <4> QED BY <4>1 DEF Longer
    <3>3. AffineDenom(D, 0, x - m) = Scaled(Raw(before, s, lo, k + 1), m)
      BY <3>1, EntryAdded
    <3>4. AffineDenom(D, m - x, 0) = Scaled(Raw(before, s, lo, k + 1), x)
      BY <3>1, EntryAdded
    <3> QED BY <3>2, <3>3, <3>4
  <2>4. /\ Affine(O, 0, x - m, k + 1) = Terms(s, lo, k + 1, m)
        /\ Affine(O, m - x, 0, k + 1) = Terms(s, lo, k + 1, x)
    <3> HIDE DEF m
    <3> QED BY <2>1, TermAdded
  <2>5. OldScale(m, x) = m - x /\ x \in Int /\ m \in Int
    <3>1. m # NegInf
      <4> HIDE DEF m
      <4> QED BY <2>1, ScoresAre
    <3>2. x \in Int /\ m \in Int
      <4> HIDE DEF m, x
      <4> QED BY <1>0, <2>1, ScoresAre
    <3> QED BY <3>1, <3>2 DEF OldScale
  <2> HIDE DEF x, acc, new, M, m, D, O
  <2>6. CASE x > m
    <3>1. M = x
      BY <2>1, <2>6
    <3>2. Visit(acc, x, k + 1) = new
      BY <1>1, <2>2, <2>3, <2>4, <2>5, <2>6, <3>1 DEF Visit
    <3>3. VisitTogether(acc, x, k + 1) = new
      BY <1>1, <2>2, <2>3, <2>4, <2>5, <2>6, <3>1 DEF VisitTogether
    <3> QED BY <3>2, <3>3 DEF x, acc, new
  <2>7. CASE ~(x > m)
    <3>1. M = m
      BY <2>1, <2>7
    <3>2. Visit(acc, x, k + 1) = new
      <4>1. Visit(acc, x, k + 1) = [max |-> m, denom |-> Append(D, x - m), out |-> Affine(O, 0, x - m, k + 1)]
        BY <2>2, <2>7 DEF Visit
      <4> QED BY <1>1, <2>3, <2>4, <3>1, <4>1
    <3>3. VisitTogether(acc, x, k + 1) = new
      BY <1>1, <2>2, <2>3, <2>4, <2>7, <3>1 DEF VisitTogether
    <3> QED BY <3>2, <3>3 DEF x, acc, new
  <2> QED BY <2>6, <2>7
<1> QED BY <1>2, <1>3

-----------------------------------------------------------------------------
(* The slots and the scans. *)

\* Functions on 0 .. n that begin alike and go on alike are the same.
From0(f, n)     == f = [i \in 0 .. n |-> f[i]]
Follows(f, g, n) == \A i \in 1 .. n : f[i - 1] = g[i - 1] => f[i] = g[i]

LEMMA SameFromStart ==
  ASSUME NEW n \in Nat, NEW f, NEW g, From0(f, n), From0(g, n), f[0] = g[0], Follows(f, g, n)
  PROVE  f = g
<1> DEFINE Good == {i \in 0 .. n : f[i] = g[i]}
<1>1. ASSUME NEW i \in 0 .. n, \A j \in 0 .. i - 1 : j \in Good
      PROVE  i \in Good
  <2>1. CASE i = 0
    BY <2>1
  <2>2. CASE i \in 1 .. n
    <3>1. i - 1 \in 0 .. i - 1
      BY <2>2
    <3>2. i - 1 \in Good
      <4> HIDE DEF Good
      <4> QED BY <1>1, <3>1
    <3> QED BY <2>2, <3>2 DEF Follows
  <2> QED BY <2>1, <2>2
<1>2. \A i \in 0 .. n : i \in Good
  <2> HIDE DEF Good
  <2> QED BY <1>1, FromBelow
<1>3. \A i \in 0 .. n : f[i] = g[i]
  BY <1>2
<1> QED BY <1>3 DEF From0

\* The slot after that of a position, around the ring.
LEMMA NextSlot ==
  ASSUME NEW p \in Nat, NEW n \in Nat \ {0}
  PROVE  /\ p % n \in 0 .. n - 1
         /\ (p + 1) % n = IF (p % n) + 1 = n THEN 0 ELSE (p % n) + 1
<1> DEFINE q == p \div n
           r == p % n
<1>1. q \in Nat /\ r \in 0 .. n - 1 /\ p = q * n + r
  BY Divided
<1> HIDE DEF q, r
<1>2. CASE r + 1 = n
  <2>1. q * n \in Nat /\ (q + 1) * n = q * n + n
    BY <1>1, NextProduct
  <2>2. p + 1 = (q + 1) * n + 0
    BY <1>1, <1>2, <2>1
  <2>3. q + 1 \in Nat /\ 0 \in 0 .. n - 1
    BY <1>1
  <2>4. (p + 1) % n = 0
    <3> DEFINE a == q + 1
    <3>1. (a * n + 0) % n = 0
      <4> HIDE DEF a
      <4>1. a \in Nat
        BY <2>3 DEF a
      <4> QED BY <2>3, <4>1, DividesInto
    <3> QED BY <2>2, <3>1
  <2> QED BY <1>1, <1>2, <2>4 DEF r
<1>3. CASE r + 1 # n
  <2>1. p + 1 = q * n + (r + 1) /\ r + 1 \in 0 .. n - 1
    <3>1. q * n \in Nat
      BY <1>1, NextProduct
    <3> QED BY <1>1, <1>3, <3>1
  <2>2. (p + 1) % n = r + 1
    BY <1>1, <2>1, DividesInto
  <2> QED BY <1>1, <1>3, <2>2 DEF r
<1> QED BY <1>2, <1>3

\* The slots of the rows lo .. hi, in order, whether the scan wraps or not.
RingStep(lo, hi, n, f) ==
  [i \in 1 .. hi - lo + 1 |->
    IF i = 1 THEN IF attention_uses_linear_slots(lo, hi, n) THEN lo ELSE lo % n
    ELSE IF f[i - 1] + 1 = n THEN 0 ELSE f[i - 1] + 1]
Ring(lo, hi, n) == CHOOSE f : f = RingStep(lo, hi, n, f)
Slot(lo, hi, n) == [i \in 1 .. hi - lo + 1 |-> (lo + (i - 1)) % n]

LEMMA RingIs ==
  ASSUME NEW lo \in Nat, NEW hi \in Nat, NEW n \in Nat \ {0}, lo <= hi
  PROVE  Ring(lo, hi, n) = Slot(lo, hi, n)
<1> DEFINE Turn(f) == RingStep(lo, hi, n, f)
           w == Slot(lo, hi, n)
           r == Ring(lo, hi, n)
           m == hi - lo
<1>0. m \in Nat /\ hi - lo + 1 = m + 1
  OBVIOUS
<1>1. w = Turn(w)
  <2>1. \A i \in 2 .. m + 1 : (lo + (i - 1)) % n = IF ((lo + (i - 2)) % n) + 1 = n THEN 0 ELSE ((lo + (i - 2)) % n) + 1
    <3> TAKE i \in 2 .. m + 1
    <3> DEFINE p == lo + (i - 2)
    <3>1. p \in Nat /\ lo + (i - 1) = p + 1
      BY <1>0
    <3> HIDE DEF p
    <3>2. (p + 1) % n = IF (p % n) + 1 = n THEN 0 ELSE (p % n) + 1
      BY <3>1, NextSlot
    <3> QED BY <3>1, <3>2 DEF p
  <2>2. \A i \in 2 .. m + 1 : w[i - 1] = (lo + (i - 2)) % n
    <3> TAKE i \in 2 .. m + 1
    <3>1. i - 1 \in 1 .. m + 1 /\ lo + ((i - 1) - 1) = lo + (i - 2)
      BY <1>0
    <3> QED BY <1>0, <3>1 DEF Slot
  <2>3. attention_uses_linear_slots(lo, hi, n) => lo % n = lo
    <3>1. SUFFICES ASSUME hi < n PROVE lo % n = lo
      BY DEF attention_uses_linear_slots
    <3>2. 0 * n + lo = lo /\ lo \in 0 .. n - 1
      BY <3>1
    <3>3. (0 * n + lo) % n = lo
      BY <3>2, DividesInto
    <3> QED BY <3>2, <3>3
  <2>4. \A i \in 1 .. m + 1 : (lo + (i - 1)) % n =
          IF i = 1 THEN IF attention_uses_linear_slots(lo, hi, n) THEN lo ELSE lo % n
          ELSE IF w[i - 1] + 1 = n THEN 0 ELSE w[i - 1] + 1
    <3> TAKE i \in 1 .. m + 1
    <3>1. CASE i = 1
      <4>1. lo + (1 - 1) = lo
        OBVIOUS
      <4> QED BY <2>3, <3>1, <4>1
    <3>2. CASE i \in 2 .. m + 1
      <4>1. i # 1
        BY <3>2
      <4> HIDE DEF w, m
      <4> QED BY <2>1, <2>2, <3>2, <4>1
    <3> QED BY <1>0, <3>1, <3>2
  <2>5. w = [i \in 1 .. m + 1 |-> (lo + (i - 1)) % n]
    BY <1>0 DEF Slot
  <2>6. Turn(w) = [i \in 1 .. m + 1 |->
          IF i = 1 THEN IF attention_uses_linear_slots(lo, hi, n) THEN lo ELSE lo % n
          ELSE IF w[i - 1] + 1 = n THEN 0 ELSE w[i - 1] + 1]
    BY <1>0 DEF RingStep
  <2> DEFINE A(i) == (lo + (i - 1)) % n
             B(i) == IF i = 1 THEN IF attention_uses_linear_slots(lo, hi, n) THEN lo ELSE lo % n
                     ELSE IF w[i - 1] + 1 = n THEN 0 ELSE w[i - 1] + 1
  <2>7. (\A i \in 1 .. m + 1 : A(i) = B(i)) /\ w = [i \in 1 .. m + 1 |-> A(i)]
          /\ Turn(w) = [i \in 1 .. m + 1 |-> B(i)]
    BY <2>4, <2>5, <2>6, Zenon
  <2> HIDE DEF w, m, Turn, A, B
  <2> QED BY <2>7
<1>2. r = Turn(r)
  BY <1>1, Zenon DEF Ring
<1> DEFINE F == [i \in 0 .. m |-> r[i + 1]]
           G == [i \in 0 .. m |-> w[i + 1]]
<1>3. \A f : /\ Turn(f)[1] = (IF attention_uses_linear_slots(lo, hi, n) THEN lo ELSE lo % n)
             /\ \A i \in 1 .. m : Turn(f)[i + 1] = IF f[i] + 1 = n THEN 0 ELSE f[i] + 1
  <2> TAKE f
  <2>1. 1 \in 1 .. m + 1
    BY <1>0
  <2>2. \A i \in 1 .. m : i + 1 \in 1 .. m + 1 /\ i + 1 # 1 /\ (i + 1) - 1 = i
    BY <1>0
  <2>3. Turn(f) = [i \in 1 .. m + 1 |->
          IF i = 1 THEN IF attention_uses_linear_slots(lo, hi, n) THEN lo ELSE lo % n
          ELSE IF f[i - 1] + 1 = n THEN 0 ELSE f[i - 1] + 1]
    BY <1>0 DEF RingStep
  <2> HIDE DEF m, Turn
  <2> QED BY <2>1, <2>2, <2>3
<1>4. F = G
  <2>1. F[0] = G[0]
    <3>1. r[1] = w[1]
      <4> HIDE DEF r, w, Turn
      <4> QED BY <1>1, <1>2, <1>3
    <3> QED BY <1>0, <3>1
  <2>2. \A i \in 1 .. m : F[i - 1] = G[i - 1] => F[i] = G[i]
    <3> SUFFICES ASSUME NEW i \in 1 .. m, F[i - 1] = G[i - 1] PROVE F[i] = G[i]
      OBVIOUS
    <3>1. i - 1 \in 0 .. m /\ i \in 0 .. m /\ (i - 1) + 1 = i
      BY <1>0
    <3>2. r[i] = w[i]
      <4> HIDE DEF r, w, m
      <4> QED BY <3>1
    <3>3. r[i + 1] = w[i + 1]
      <4> HIDE DEF r, w, m, Turn
      <4> QED BY <1>1, <1>2, <1>3, <3>2
    <3> HIDE DEF r, w, m
    <3> QED BY <3>1, <3>3
  <2>3. From0(F, m) /\ From0(G, m)
    BY <1>0 DEF From0
  <2>4. Follows(F, G, m)
    BY <2>2, Zenon DEF Follows
  <2> HIDE DEF F, G, m
  <2> QED BY <1>0, <2>1, <2>3, <2>4, SameFromStart
<1>5. \A i \in 1 .. m + 1 : r[i] = w[i]
  <2> TAKE i \in 1 .. m + 1
  <2>1. i - 1 \in 0 .. m /\ (i - 1) + 1 = i
    BY <1>0
  <2>2. F[i - 1] = r[i] /\ G[i - 1] = w[i]
    <3> HIDE DEF r, w, m
    <3> QED BY <2>1
  <2> QED BY <1>4, <2>2
<1>6. r = [i \in 1 .. m + 1 |-> r[i]] /\ w = [i \in 1 .. m + 1 |-> w[i]]
  <2>1. Turn(r) = [i \in 1 .. m + 1 |-> Turn(r)[i]] /\ Turn(w) = [i \in 1 .. m + 1 |-> Turn(w)[i]]
    BY <1>0 DEF RingStep
  <2> HIDE DEF r, w, m, Turn
  <2> QED BY <1>1, <1>2, <2>1
<1> HIDE DEF r, w, m
<1>7. r = w
  BY <1>5, <1>6
<1> QED BY <1>7 DEF r, w

LEMMA SlotWalkIs ==
  ASSUME NEW lo \in Nat, NEW hi \in Nat, NEW n \in Nat \ {0}, lo <= hi
  PROVE  /\ Len(SlotWalk(lo, hi, n)) = hi - lo + 1
         /\ \A i \in 1 .. hi - lo + 1 : SlotWalk(lo, hi, n)[i] = (lo + (i - 1)) % n
<1>1. ~(n = 0 \/ lo > hi)
  OBVIOUS
<1>2. SlotWalk(lo, hi, n) = [i \in 1 .. hi - lo + 1 |-> Ring(lo, hi, n)[i]]
  BY <1>1, Zenon DEF SlotWalk, Ring, RingStep
<1>3. SlotWalk(lo, hi, n) = [i \in 1 .. hi - lo + 1 |-> (lo + (i - 1)) % n]
  BY <1>2, RingIs DEF Slot
<1>4. hi - lo + 1 \in Nat
  OBVIOUS
<1> QED BY <1>3, <1>4

\* The rows lo .. hi are where their slots say.
Held(call, lo, hi) == \A p \in lo .. hi : call.mem[p % call.slot_count] = p

\* A walk over the rows lo .. hi, and scores of the rows first .. hi.
Finds(call, walk, lo, hi) == Len(walk) = hi - lo + 1 /\ \A i \in 1 .. hi - lo + 1 : call.mem[walk[i]] = lo + (i - 1)
Scored(s, first, hi)      == \A p \in first .. hi : s[p] \in Scores

LEMMA WalkFindsRows ==
  ASSUME NEW call, call.slot_count \in Nat \ {0}, NEW lo \in Nat, NEW hi \in Nat, lo <= hi,
         Held(call, lo, hi)
  PROVE  Finds(call, SlotWalk(lo, hi, call.slot_count), lo, hi)
<1>1. \A i \in 1 .. hi - lo + 1 : lo + (i - 1) \in lo .. hi
  OBVIOUS
<1>2. \A i \in 1 .. hi - lo + 1 : call.mem[(lo + (i - 1)) % call.slot_count] = lo + (i - 1)
  BY <1>1, Zenon DEF Held
<1>3. /\ Len(SlotWalk(lo, hi, call.slot_count)) = hi - lo + 1
      /\ \A i \in 1 .. hi - lo + 1 : SlotWalk(lo, hi, call.slot_count)[i] = (lo + (i - 1)) % call.slot_count
  BY SlotWalkIs
<1> QED BY <1>2, <1>3 DEF Finds

\* One head goes through the rows.
HeadStep(call, s, walk, acc, f) ==
  [i \in 0 .. Len(walk) |-> IF i = 0 THEN acc ELSE Visit(f[i - 1], s[call.mem[walk[i]]], call.mem[walk[i]])]
HeadScan(call, s, walk, acc) == CHOOSE f : f = HeadStep(call, s, walk, acc, f)

LEMMA HeadScanIs ==
  ASSUME NEW call, NEW walk, NEW lo \in Nat, NEW hi \in Nat, lo <= hi, NEW first \in Nat, first <= lo,
         Finds(call, walk, lo, hi), NEW s, Scored(s, first, hi),
         NEW before, IsBefore(before), NEW out
  PROVE  HeadScan(call, s, walk, State(before, s, first, lo - 1, out))[hi - lo + 1]
           = State(before, s, first, hi, out)
<1> DEFINE n == hi - lo + 1
           acc == State(before, s, first, lo - 1, out)
           St(k) == State(before, s, first, k, out)
           W == [i \in 0 .. n |-> St(lo - 1 + i)]
           Step(f) == HeadStep(call, s, walk, acc, f)
           F == HeadScan(call, s, walk, acc)
<1>0. n \in Nat /\ n # 0
  OBVIOUS
<1>1. \A f : Step(f) = [i \in 0 .. n |-> IF i = 0 THEN acc ELSE Visit(f[i - 1], s[lo + (i - 1)], lo + (i - 1))]
  BY DEF HeadStep, Finds
<1>2. \A i \in 1 .. n : Visit(St(lo - 1 + (i - 1)), s[lo + (i - 1)], lo + (i - 1)) = St(lo - 1 + i)
  <2> TAKE i \in 1 .. n
  <2> DEFINE k == lo - 1 + (i - 1)
  <2>1. k \in Int /\ k >= first - 1 /\ k + 1 <= hi /\ k + 1 = lo + (i - 1) /\ k + 1 = lo - 1 + i
    OBVIOUS
  <2>2. \A p \in first .. k + 1 : s[p] \in Scores
    BY <2>1 DEF Scored
  <2>3. Visit(State(before, s, first, k, out), s[k + 1], k + 1) = State(before, s, first, k + 1, out)
    <3> HIDE DEF k
    <3> QED BY <2>1, <2>2, VisitsRow
  <2> QED BY <2>1, <2>3
<1>3. W = Step(W)
  <2> DEFINE A(i) == St(lo - 1 + i)
             B(i) == IF i = 0 THEN acc ELSE Visit(W[i - 1], s[lo + (i - 1)], lo + (i - 1))
  <2>1. \A i \in 0 .. n : A(i) = B(i)
    <3> TAKE i \in 0 .. n
    <3>1. CASE i = 0
      <4>1. lo - 1 + 0 = lo - 1
        OBVIOUS
      <4> QED BY <3>1, <4>1
    <3>2. CASE i \in 1 .. n
      <4>1. i - 1 \in 0 .. n /\ i # 0
        BY <1>0, <3>2
      <4>2. W[i - 1] = St(lo - 1 + (i - 1))
        <5> HIDE DEF n, St
        <5> QED BY <4>1
      <4> HIDE DEF W, n, St
      <4> QED BY <1>2, <3>2, <4>1, <4>2
    <3> QED BY <1>0, <3>1, <3>2
  <2>2. W = [i \in 0 .. n |-> A(i)] /\ Step(W) = [i \in 0 .. n |-> B(i)]
    BY <1>1, Zenon
  <2> HIDE DEF W, Step, A, B, n
  <2> QED BY <2>1, <2>2
<1>4. F = Step(F)
  BY <1>3, Zenon DEF HeadScan
<1>5. F = W
  <2> HIDE DEF n, W, F
  <2>1. \A f : From0(Step(f), n) /\ Step(f)[0] = acc
          /\ \A i \in 1 .. n : Step(f)[i] = Visit(f[i - 1], s[lo + (i - 1)], lo + (i - 1))
    <3> TAKE f
    <3>1. 0 \in 0 .. n /\ \A i \in 1 .. n : i \in 0 .. n /\ i # 0
      BY <1>0
    <3> HIDE DEF Step, acc
    <3> QED BY <1>1, <3>1 DEF From0
  <2> HIDE DEF Step, acc
  <2>2. Follows(F, W, n)
    BY <1>3, <1>4, <2>1 DEF Follows
  <2> QED BY <1>0, <1>3, <1>4, <2>1, <2>2, SameFromStart
<1>6. W[n] = St(hi)
  <2>1. lo - 1 + n = hi /\ n \in 0 .. n
    BY <1>0
  <2> HIDE DEF n, St
  <2> QED BY <2>1
<1> HIDE DEF F, W
<1> QED BY <1>5, <1>6 DEF F

LEMMA OnlineAttention ==
  ASSUME NEW call, call.slot_count \in Nat \ {0}, NEW lo \in Nat, NEW hi \in Nat, lo <= hi,
         Held(call, lo, hi), NEW first \in Nat, first <= lo,
         NEW s, Scored(s, first, hi), NEW before, IsBefore(before), NEW out
  PROVE  online_attention(call, s, lo, hi, State(before, s, first, lo - 1, out))
           = State(before, s, first, hi, out)
<1> DEFINE walk == SlotWalk(lo, hi, call.slot_count)
           acc == State(before, s, first, lo - 1, out)
<1>1. Finds(call, walk, lo, hi)
  BY WalkFindsRows
<1>2. online_attention(call, s, lo, hi, acc) = HeadScan(call, s, walk, acc)[Len(walk)]
  BY DEF online_attention, HeadScan, HeadStep
<1> HIDE DEF walk
<1>3. HeadScan(call, s, walk, acc)[hi - lo + 1] = State(before, s, first, hi, out)
  BY <1>1, HeadScanIs
<1> QED BY <1>1, <1>2, <1>3 DEF Finds

\* The heads of a group go through the rows together.
GroupState(call, q, m, first, k) == [g \in 0 .. m - 1 |-> State(<<>>, call.score[q + g], first, k, Unwritten)]
GroupScored(call, q, m, first, hi) == \A g \in 0 .. m - 1 : Scored(call.score[q + g], first, hi)

RowScores(call, q, m, p) == [g \in 0 .. m - 1 |-> call.score[q + g][p]]

LEMMA VisitsRowTogether ==
  ASSUME NEW call, NEW q \in Nat, NEW m \in Nat, NEW first \in Int, NEW k \in Int, k >= first - 1,
         GroupScored(call, q, m, first, k + 1)
  PROVE  VisitGroup(GroupState(call, q, m, first, k), RowScores(call, q, m, k + 1), k + 1, m)
           = GroupState(call, q, m, first, k + 1)
<1> DEFINE accs == GroupState(call, q, m, first, k)
           scores == RowScores(call, q, m, k + 1)
<1>1. ASSUME NEW g \in 0 .. m - 1
      PROVE  /\ Visit(accs[g], scores[g], k + 1) = State(<<>>, call.score[q + g], first, k + 1, Unwritten)
             /\ VisitTogether(accs[g], scores[g], k + 1) = State(<<>>, call.score[q + g], first, k + 1, Unwritten)
  <2> DEFINE s == call.score[q + g]
  <2>1. \A p \in first .. k + 1 : s[p] \in Scores
    BY DEF GroupScored, Scored
  <2>2. accs[g] = State(<<>>, s, first, k, Unwritten) /\ scores[g] = s[k + 1]
    BY DEF GroupState, RowScores
  <2>3. IsBefore(<<>>)
    BY DEF IsBefore
  <2> HIDE DEF s, accs, scores
  <2>4. /\ Visit(State(<<>>, s, first, k, Unwritten), s[k + 1], k + 1) = State(<<>>, s, first, k + 1, Unwritten)
        /\ VisitTogether(State(<<>>, s, first, k, Unwritten), s[k + 1], k + 1) = State(<<>>, s, first, k + 1, Unwritten)
    BY <2>1, <2>3, VisitsRow
  <2> QED BY <2>2, <2>4 DEF s
<1> HIDE DEF accs, scores
<1>2. VisitGroup(accs, scores, k + 1, m)
        = [g \in 0 .. m - 1 |-> State(<<>>, call.score[q + g], first, k + 1, Unwritten)]
  BY <1>1 DEF VisitGroup
<1> QED BY <1>2 DEF GroupState, accs, scores

GroupStep(call, q, m, walk, accs, f) ==
  [i \in 0 .. Len(walk) |->
    IF i = 0 THEN accs
    ELSE VisitGroup(f[i - 1], RowScores(call, q, m, call.mem[walk[i]]), call.mem[walk[i]], m)]
GroupScan(call, q, m, walk, accs) == CHOOSE f : f = GroupStep(call, q, m, walk, accs, f)

LEMMA GroupScanIs ==
  ASSUME NEW call, NEW walk, NEW lo \in Nat, NEW hi \in Nat, lo <= hi, NEW first \in Nat, first <= lo,
         Finds(call, walk, lo, hi), NEW q \in Nat, NEW m \in Nat, GroupScored(call, q, m, first, hi)
  PROVE  GroupScan(call, q, m, walk, GroupState(call, q, m, first, lo - 1))[hi - lo + 1]
           = GroupState(call, q, m, first, hi)
<1> DEFINE n == hi - lo + 1
           St(k) == GroupState(call, q, m, first, k)
           accs == St(lo - 1)
           Go(was, p) == VisitGroup(was, RowScores(call, q, m, p), p, m)
           W == [i \in 0 .. n |-> St(lo - 1 + i)]
           Step(f) == GroupStep(call, q, m, walk, accs, f)
           F == GroupScan(call, q, m, walk, accs)
<1>0. n \in Nat /\ n # 0
  OBVIOUS
<1>1. \A f : Step(f) = [i \in 0 .. n |-> IF i = 0 THEN accs ELSE Go(f[i - 1], lo + (i - 1))]
  <2>1. \A f : Step(f) = [i \in 0 .. Len(walk) |-> IF i = 0 THEN accs ELSE Go(f[i - 1], call.mem[walk[i]])]
    BY Zenon DEF GroupStep
  <2>2. Len(walk) = n /\ \A i \in 1 .. n : call.mem[walk[i]] = lo + (i - 1)
    BY DEF Finds
  <2> HIDE DEF Step, Go, accs, n
  <2>3. \A i \in 0 .. n : i # 0 => i \in 1 .. n
    BY <1>0
  <2> QED BY <2>1, <2>2, <2>3
<1>2. \A i \in 1 .. n : Go(St(lo - 1 + (i - 1)), lo + (i - 1)) = St(lo - 1 + i)
  <2> TAKE i \in 1 .. n
  <2> DEFINE k == lo - 1 + (i - 1)
  <2>1. k \in Int /\ k >= first - 1 /\ k + 1 <= hi /\ k + 1 = lo + (i - 1) /\ k + 1 = lo - 1 + i
    OBVIOUS
  <2>2. GroupScored(call, q, m, first, k + 1)
    BY <2>1 DEF GroupScored, Scored
  <2>3. Go(GroupState(call, q, m, first, k), k + 1) = GroupState(call, q, m, first, k + 1)
    <3>1. k \in Int /\ k >= first - 1 /\ first \in Int
      BY <2>1
    <3> HIDE DEF k
    <3>2. VisitGroup(GroupState(call, q, m, first, k), RowScores(call, q, m, k + 1), k + 1, m)
            = GroupState(call, q, m, first, k + 1)
      BY <2>2, <3>1, VisitsRowTogether
    <3> QED BY <3>2, Zenon
  <2> QED BY <2>1, <2>3
<1>3. W = Step(W)
  <2> DEFINE A(i) == St(lo - 1 + i)
             B(i) == IF i = 0 THEN accs ELSE Go(W[i - 1], lo + (i - 1))
  <2>1. \A i \in 0 .. n : A(i) = B(i)
    <3> TAKE i \in 0 .. n
    <3>1. CASE i = 0
      <4>1. lo - 1 + 0 = lo - 1
        OBVIOUS
      <4> QED BY <3>1, <4>1
    <3>2. CASE i \in 1 .. n
      <4>1. i - 1 \in 0 .. n /\ i # 0
        BY <1>0, <3>2
      <4>2. W[i - 1] = St(lo - 1 + (i - 1))
        <5> HIDE DEF n, St
        <5> QED BY <4>1
      <4> HIDE DEF W, n, St, Go
      <4> QED BY <1>2, <3>2, <4>1, <4>2
    <3> QED BY <1>0, <3>1, <3>2
  <2>2. W = [i \in 0 .. n |-> A(i)] /\ Step(W) = [i \in 0 .. n |-> B(i)]
    BY <1>1, Zenon
  <2> HIDE DEF W, Step, A, B, n
  <2> QED BY <2>1, <2>2
<1>4. F = Step(F)
  BY <1>3, Zenon DEF GroupScan
<1>5. F = W
  <2> HIDE DEF n, W, F
  <2>1. \A f : From0(Step(f), n) /\ Step(f)[0] = accs
          /\ \A i \in 1 .. n : Step(f)[i] = Go(f[i - 1], lo + (i - 1))
    <3> TAKE f
    <3>1. 0 \in 0 .. n /\ \A i \in 1 .. n : i \in 0 .. n /\ i # 0
      BY <1>0
    <3> HIDE DEF Step, accs, Go
    <3> QED BY <1>1, <3>1 DEF From0
  <2> HIDE DEF Step, accs, Go
  <2>2. Follows(F, W, n)
    BY <1>3, <1>4, <2>1 DEF Follows
  <2> QED BY <1>0, <1>3, <1>4, <2>1, <2>2, SameFromStart
<1>6. W[n] = St(hi)
  <2>1. lo - 1 + n = hi /\ n \in 0 .. n
    BY <1>0
  <2> HIDE DEF n, St
  <2> QED BY <2>1
<1> HIDE DEF F, W
<1> QED BY <1>5, <1>6 DEF F

LEMMA GroupedScan ==
  ASSUME NEW call, call.slot_count \in Nat \ {0}, NEW lo \in Nat, NEW hi \in Nat, lo <= hi,
         Held(call, lo, hi), NEW first \in Nat, first <= lo,
         NEW q \in Nat, NEW m \in Nat, GroupScored(call, q, m, first, hi)
  PROVE  online_attention_grouped_scan(call, q, m, lo, hi, GroupState(call, q, m, first, lo - 1))
           = GroupState(call, q, m, first, hi)
<1> DEFINE walk == SlotWalk(lo, hi, call.slot_count)
           accs == GroupState(call, q, m, first, lo - 1)
<1>1. Finds(call, walk, lo, hi)
  BY WalkFindsRows
<1>2. online_attention_grouped_scan(call, q, m, lo, hi, accs) = GroupScan(call, q, m, walk, accs)[Len(walk)]
  BY DEF online_attention_grouped_scan, GroupScan, GroupStep, RowScores
<1> HIDE DEF walk
<1>3. GroupScan(call, q, m, walk, accs)[hi - lo + 1] = GroupState(call, q, m, first, hi)
  BY <1>1, GroupScanIs
<1> QED BY <1>1, <1>2, <1>3 DEF Finds

-----------------------------------------------------------------------------
(* What a head is left with. *)

\* A call of the attention: shapes, a cache that still holds the window of
\* every token, finite scores, and a group no larger than the scans' arrays.
IsCall(c) ==
  /\ c.n_kv_heads \in Nat /\ c.kv_mul \in Nat \ {0} /\ c.kv_mul <= MAX_KV_MUL
  /\ c.slot_count \in Nat \ {0} /\ c.sliding_window \in Nat
  /\ c.start_pos \in Nat /\ c.b \in Nat \ {0} /\ c.parallel \in BOOLEAN
  /\ Intact(c) /\ Finite(c)

Pos(c, t)   == c.start_pos + t
First(c, t) == attention_start_pos(Pos(c, t), c.sliding_window)
\* The query of head h of token t.
Query(c, t, h) == t * Heads(c) + h

LEMMA HeadsIs ==
  ASSUME NEW c, IsCall(c)
  PROVE  Heads(c) \in Nat /\ Heads(c) = c.n_kv_heads * c.kv_mul
BY NextProduct DEF IsCall, Heads

\* The window of a token begins where the code says.
LEMMA WindowBegins ==
  ASSUME NEW c, IsCall(c), NEW t \in 0 .. c.b - 1
  PROVE  /\ Pos(c, t) \in Nat /\ First(c, t) \in Nat /\ First(c, t) <= Pos(c, t)
         /\ First(c, t) = IF c.sliding_window = 0 \/ Pos(c, t) < c.sliding_window THEN 0
                          ELSE Pos(c, t) - c.sliding_window + 1
         /\ Held(c, First(c, t), Pos(c, t))
<1> DEFINE w == c.sliding_window
           pos == Pos(c, t)
           lo == First(c, t)
<1>0. w \in Nat /\ pos \in Nat
  BY DEF IsCall, Pos
<1>1. lo = IF w > 0 THEN IF pos + 1 >= w THEN pos + 1 - w ELSE 0 ELSE 0
  BY <1>0 DEF First, attention_start_pos, SatSub
<1> HIDE DEF pos, lo, w
<1>2. /\ lo \in Nat /\ lo <= pos
      /\ lo = IF w = 0 \/ pos < w THEN 0 ELSE pos - w + 1
      /\ \A p \in lo .. pos : p \in 0 .. pos /\ (w = 0 \/ p > pos - w)
  BY <1>0, <1>1
<1>3. \A p \in lo .. pos : c.mem[p % c.slot_count] = p
  <2>1. \A p \in lo .. pos : p \in WindowOf(c, c.start_pos + t)
    BY <1>2 DEF WindowOf, w, pos, Pos
  <2> QED BY <2>1 DEF IsCall, Intact
<1> QED BY <1>0, <1>2, <1>3 DEF Held, w, pos, lo

\* Every query has finite scores.
LEMMA QueryScored ==
  ASSUME NEW c, IsCall(c), NEW t \in 0 .. c.b - 1, NEW h \in 0 .. Heads(c) - 1
  PROVE  /\ Query(c, t, h) \in Nat
         /\ Scored(c.score[Query(c, t, h)], First(c, t), Pos(c, t))
<1>1. Heads(c) \in Nat /\ c.b \in Nat /\ c.start_pos \in Nat
  BY HeadsIs DEF IsCall
<1>2. Query(c, t, h) \in 0 .. c.b * Heads(c) - 1
  BY <1>1, RowEnds DEF Query
<1>3. First(c, t) \in Nat /\ Pos(c, t) \in Nat /\ Pos(c, t) <= c.start_pos + c.b - 1
  BY <1>1, WindowBegins DEF Pos
<1>4. \A p \in First(c, t) .. Pos(c, t) : p \in 0 .. c.start_pos + c.b - 1
  BY <1>1, <1>3
<1>5. \A q \in 0 .. c.b * Heads(c) - 1 : \A p \in 0 .. c.start_pos + c.b - 1 :
        c.score[q][p] \in Int /\ NegInf < c.score[q][p] /\ c.score[q][p] < -NegInf
  BY DEF IsCall, Finite
<1>6. \A p \in First(c, t) .. Pos(c, t) : c.score[Query(c, t, h)][p] \in Scores
  BY <1>2, <1>4, <1>5 DEF Scores
<1>7. c.b * Heads(c) \in Nat
  BY <1>1, NextProduct
<1> QED BY <1>2, <1>6, <1>7 DEF Scored

WeightedRows(s, lo, pos, sink, maxima) ==
  LET m    == Top({s[p] : p \in lo .. pos} \cup maxima)
      exps == [i \in 1 .. pos - lo + 1 |-> s[lo + i - 1] - m]
  IN  [terms |-> [i \in 1 .. pos - lo + 1 |-> [row |-> lo + i - 1, exp |-> exps[i]]],
       over  |-> IF maxima = {} THEN exps ELSE <<sink - m>> \o exps]

Paired(c, before, maxima) ==
  \/ before = <<>> /\ maxima = {}
  \/ before = <<c.sink>> /\ maxima = {c.sink}

LEMMA WeightedIs ==
  ASSUME NEW c, IsCall(c), NEW t \in 0 .. c.b - 1, NEW h \in 0 .. Heads(c) - 1, NEW before, NEW maxima, NEW out,
         Paired(c, before, maxima)
  PROVE  Normalised(State(before, c.score[Query(c, t, h)], First(c, t), Pos(c, t), out))
           = Weighted(c, t, h, maxima)
<1> DEFINE s == c.score[Query(c, t, h)]
           lo == First(c, t)
           pos == Pos(c, t)
           all == {s[p] : p \in lo .. pos} \cup maxima
           m == Top(all)
           n == pos - lo + 1
           exps == [i \in 1 .. n |-> s[lo + (i - 1)] - m]
           terms == [i \in 1 .. n |-> [row |-> lo + (i - 1), exp |-> exps[i]]]
           over == IF maxima = {} THEN exps ELSE <<c.sink - m>> \o exps
<1>0. lo \in Nat /\ pos \in Nat /\ lo <= pos /\ n \in Nat
  BY WindowBegins
<1>00. Paired(c, before, maxima)
  OBVIOUS
<1>1. Weighted(c, t, h, maxima) = [terms |-> terms, over |-> over]
  <2>1. lo = IF c.sliding_window = 0 \/ pos < c.sliding_window THEN 0 ELSE pos - c.sliding_window + 1
    BY WindowBegins
  <2>2. Weighted(c, t, h, maxima)
          = WeightedRows(c.score[t * Heads(c) + h],
              IF c.sliding_window = 0 \/ c.start_pos + t < c.sliding_window THEN 0
              ELSE (c.start_pos + t) - c.sliding_window + 1, c.start_pos + t, c.sink, maxima)
    BY Zenon DEF Weighted, WeightedRows, Top
  <2>3. Query(c, t, h) = t * Heads(c) + h /\ pos = c.start_pos + t
    BY DEF Query, Pos
  <2>4. Weighted(c, t, h, maxima) = WeightedRows(s, lo, pos, c.sink, maxima)
    <3> HIDE DEF lo, pos
    <3>1. lo = IF c.sliding_window = 0 \/ c.start_pos + t < c.sliding_window THEN 0
               ELSE (c.start_pos + t) - c.sliding_window + 1
      BY <2>1, <2>3
    <3> QED BY <2>2, <2>3, <3>1, Zenon
  <2> QED BY <2>4 DEF WeightedRows
<1>2. Tops(before, s, lo, pos) = all
  <2>1. CASE before = <<>> /\ maxima = {}
    <3>1. 1 .. Len(before) = {} /\ maxima = {}
      BY <2>1
    <3> QED BY <3>1 DEF Tops
  <2>2. CASE before = <<c.sink>> /\ maxima = {c.sink}
    <3>1. {before[i] : i \in 1 .. Len(before)} = {c.sink} /\ maxima = {c.sink}
      BY <2>2
    <3> QED BY <3>1 DEF Tops
  <2> QED BY <1>00, <2>1, <2>2 DEF Paired
<1>3. ~(pos < lo)
  BY <1>0
<1>4. Normalised(State(before, s, lo, pos, out))
        = [terms |-> Terms(s, lo, pos, m), over |-> Scaled(Raw(before, s, lo, pos), m)]
  <2> HIDE DEF all, s, lo, pos
  <2> QED BY <1>2, <1>3 DEF State, Normalised
<1>5. Terms(s, lo, pos, m) = terms
  <2> HIDE DEF s, m, lo, pos
  <2> QED BY DEF Terms
<1>6. Scaled(Raw(before, s, lo, pos), m) = over
  <2>1. CASE before = <<>> /\ maxima = {}
    <3>1. Len(before) = 0
      BY <2>1
    <3> HIDE DEF s, m, lo, pos
    <3>2. Raw(before, s, lo, pos) = [i \in 1 .. n |-> s[lo + (i - 1)]]
      <4>1. /\ Len(before) + (pos - lo + 1) = n
            /\ \A i \in 1 .. n : ~(i <= Len(before)) /\ lo + (i - 1 - Len(before)) = lo + (i - 1)
        BY <1>0, <3>1
      <4> HIDE DEF n
      <4> QED BY <4>1 DEF Raw
    <3> HIDE DEF n
    <3> QED BY <2>1, <3>2 DEF Scaled
  <2>2. CASE before = <<c.sink>> /\ maxima = {c.sink}
    <3>1. Len(before) = 1 /\ before[1] = c.sink
      BY <2>2
    <3>2. /\ DOMAIN exps = 1 .. n /\ \A i \in 1 .. n : exps[i] = s[lo + (i - 1)] - m
          /\ exps \in Seq({exps[i] : i \in 1 .. n}) /\ Len(exps) = n
      <4> HIDE DEF s, m, lo, pos, n
      <4>1. DOMAIN exps = 1 .. n /\ \A i \in 1 .. n : exps[i] = s[lo + (i - 1)] - m
        OBVIOUS
      <4>2. exps \in [1 .. n -> {exps[i] : i \in 1 .. n}]
        BY <4>1
      <4> HIDE DEF exps
      <4>3. exps \in Seq({exps[i] : i \in 1 .. n})
        <5> DEFINE T == {exps[i] : i \in 1 .. n}
        <5>1. exps \in [1 .. n -> T]
          BY <4>2
        <5> HIDE DEF T
        <5>2. exps \in Seq(T)
          BY <1>0, <5>1, SeqDef
        <5> QED BY <5>2 DEF T
      <4> QED BY <1>0, <4>1, <4>2, <4>3, LenProperties
    <3> HIDE DEF s, m, lo, pos, exps
    <3> DEFINE D == Scaled(Raw(before, s, lo, pos), m)
               A(i) == IF i = 1 THEN c.sink - m ELSE s[lo + (i - 2)] - m
    <3>3. D = [i \in 1 .. n + 1 |-> A(i)]
      <4>1. Len(before) + (pos - lo + 1) = n + 1
        BY <1>0, <3>1
      <4>2. Raw(before, s, lo, pos) = [i \in 1 .. n + 1 |-> IF i <= 1 THEN before[i] ELSE s[lo + (i - 1 - 1)]]
        BY <3>1, <4>1 DEF Raw
      <4>3. D = [i \in 1 .. n + 1 |-> (IF i <= 1 THEN before[i] ELSE s[lo + (i - 1 - 1)]) - m]
        BY <4>2 DEF Scaled
      <4>4. \A i \in 1 .. n + 1 : (IF i <= 1 THEN before[i] ELSE s[lo + (i - 1 - 1)]) - m = A(i)
        <5> TAKE i \in 1 .. n + 1
        <5>1. (i <= 1 <=> i = 1) /\ i - 1 - 1 = i - 2
          BY <1>0
        <5> QED BY <3>1, <5>1
      <4> HIDE DEF D, A, n
      <4> QED BY <4>3, <4>4
    <3>4. <<c.sink - m>> \o exps = [i \in 1 .. n + 1 |-> A(i)]
      <4> DEFINE all1 == <<c.sink - m>> \o exps
                 T == {exps[i] : i \in 1 .. n} \cup {c.sink - m}
      <4>1. <<c.sink - m>> \in Seq(T) /\ Len(<<c.sink - m>>) = 1 /\ exps \in Seq(T)
        BY <3>2
      <4>2. Len(all1) = n + 1 /\ all1 \in Seq(T)
        <5> HIDE DEF T, n
        <5> QED BY <3>2, <4>1, <1>0, ConcatProperties
      <4>3. all1[1] = c.sink - m
        BY <3>2, <4>1
      <4>4. \A i \in 2 .. n + 1 : all1[i] = exps[i - 1]
        <5> HIDE DEF T, n
        <5> QED BY <3>2, <4>1, <1>0, ConcatProperties
      <4>5. \A i \in 1 .. n + 1 : all1[i] = A(i)
        <5> TAKE i \in 1 .. n + 1
        <5>1. CASE i = 1
          BY <4>3, <5>1
        <5>2. CASE i \in 2 .. n + 1
          <6>1. i - 1 \in 1 .. n /\ (i - 1) - 1 = i - 2 /\ i # 1
            BY <1>0, <5>2
          <6> HIDE DEF n, all1
          <6> QED BY <3>2, <4>4, <5>2, <6>1
        <5>3. i = 1 \/ i \in 2 .. n + 1
          BY <1>0
        <5> QED BY <5>1, <5>2, <5>3
      <4>6. all1 = [i \in 1 .. n + 1 |-> all1[i]]
        <5> HIDE DEF T, n, all1
        <5> QED BY <1>0, <4>2, LenProperties
      <4> HIDE DEF all1, A, n
      <4>7. all1 = [i \in 1 .. n + 1 |-> A(i)]
        BY <4>5, <4>6
      <4> QED BY <4>7 DEF all1
    <3>5. over = <<c.sink - m>> \o exps
      BY <2>2
    <3> QED BY <3>3, <3>4, <3>5
  <2> QED BY <1>00, <2>1, <2>2 DEF Paired
<1> HIDE DEF s, lo, pos, m, terms, over
<1>7. Normalised(State(before, s, lo, pos, out)) = Weighted(c, t, h, maxima)
  BY <1>1, <1>4, <1>5, <1>6
<1> QED BY <1>7 DEF s, lo, pos

\* The heads of KV head k for token t, as they should be.
GroupHead(c, k, g) == k * c.kv_mul + g
HeadsOf(c, t, k)   == [g \in 0 .. c.kv_mul - 1 |-> Weighted(c, t, GroupHead(c, k, g), {})]
HeadWrites(c, t, k) ==
  {[at |-> Query(c, t, GroupHead(c, k, g)), is |-> Weighted(c, t, GroupHead(c, k, g), {})] : g \in 0 .. c.kv_mul - 1}

LEMMA GroupQueries ==
  ASSUME NEW c, IsCall(c), NEW t \in 0 .. c.b - 1, NEW k \in 0 .. c.n_kv_heads - 1
  PROVE  /\ t * Heads(c) + k * c.kv_mul \in Nat
         /\ \A g \in 0 .. c.kv_mul - 1 : /\ GroupHead(c, k, g) \in 0 .. Heads(c) - 1
                                         /\ t * Heads(c) + k * c.kv_mul + g = Query(c, t, GroupHead(c, k, g))
<1>1. c.n_kv_heads \in Nat /\ c.kv_mul \in Nat /\ c.b \in Nat /\ Heads(c) = c.n_kv_heads * c.kv_mul /\ Heads(c) \in Nat
  BY HeadsIs DEF IsCall
<1>2. t * Heads(c) \in Nat /\ k * c.kv_mul \in Nat
  BY <1>1, NextProduct
<1>3. ASSUME NEW g \in 0 .. c.kv_mul - 1
      PROVE  /\ GroupHead(c, k, g) \in 0 .. Heads(c) - 1
             /\ t * Heads(c) + k * c.kv_mul + g = Query(c, t, GroupHead(c, k, g))
  <2>1. k * c.kv_mul + g \in 0 .. c.n_kv_heads * c.kv_mul - 1
    BY <1>1, RowEnds
  <2>2. t * Heads(c) + k * c.kv_mul + g = t * Heads(c) + (k * c.kv_mul + g)
    BY <1>1, <1>2
  <2> QED BY <1>1, <2>1, <2>2 DEF GroupHead, Query
<1>4. t * Heads(c) + k * c.kv_mul \in Nat
  BY <1>2
<1> QED BY <1>3, <1>4

LEMMA GroupIsScored ==
  ASSUME NEW c, IsCall(c), NEW t \in 0 .. c.b - 1, NEW k \in 0 .. c.n_kv_heads - 1
  PROVE  GroupScored(c, t * Heads(c) + k * c.kv_mul, c.kv_mul, First(c, t), Pos(c, t))
<1> SUFFICES ASSUME NEW g \in 0 .. c.kv_mul - 1
             PROVE  Scored(c.score[t * Heads(c) + k * c.kv_mul + g], First(c, t), Pos(c, t))
  BY DEF GroupScored
<1>1. /\ GroupHead(c, k, g) \in 0 .. Heads(c) - 1
      /\ t * Heads(c) + k * c.kv_mul + g = Query(c, t, GroupHead(c, k, g))
  BY GroupQueries
<1>2. Scored(c.score[Query(c, t, GroupHead(c, k, g))], First(c, t), Pos(c, t))
  BY <1>1, QueryScored
<1> QED BY <1>1, <1>2

\* In particular for a head without a sink.
LEMMA HeadIs ==
  ASSUME NEW c, IsCall(c), NEW t \in 0 .. c.b - 1, NEW h \in 0 .. Heads(c) - 1
  PROVE  Normalised(State(<<>>, c.score[Query(c, t, h)], First(c, t), Pos(c, t), Unwritten)) = Weighted(c, t, h, {})
<1> DEFINE before == <<>>
           maxima == {}
<1>1. Paired(c, before, maxima)
  BY DEF Paired
<1> HIDE DEF before, maxima
<1>2. Normalised(State(before, c.score[Query(c, t, h)], First(c, t), Pos(c, t), Unwritten)) = Weighted(c, t, h, maxima)
  BY <1>1, WeightedIs
<1> QED BY <1>2 DEF before, maxima

\* The scan of a group over the whole window leaves every head as it should be.
LEMMA GroupFinished ==
  ASSUME NEW c, IsCall(c), NEW t \in 0 .. c.b - 1, NEW k \in 0 .. c.n_kv_heads - 1
  PROVE  online_attention_grouped_finalize(
           GroupState(c, t * Heads(c) + k * c.kv_mul, c.kv_mul, First(c, t), Pos(c, t))) = HeadsOf(c, t, k)
<1> DEFINE q == t * Heads(c) + k * c.kv_mul
           St(g) == State(<<>>, c.score[q + g], First(c, t), Pos(c, t), Unwritten)
           W(g) == Weighted(c, t, GroupHead(c, k, g), {})
           G == GroupState(c, q, c.kv_mul, First(c, t), Pos(c, t))
<1>1. \A g \in 0 .. c.kv_mul - 1 : Normalised(St(g)) = W(g)
  <2> TAKE g \in 0 .. c.kv_mul - 1
  <2>1. GroupHead(c, k, g) \in 0 .. Heads(c) - 1 /\ q + g = Query(c, t, GroupHead(c, k, g))
    BY GroupQueries
  <2> DEFINE h == GroupHead(c, k, g)
  <2>2. Normalised(State(<<>>, c.score[Query(c, t, h)], First(c, t), Pos(c, t), Unwritten)) = Weighted(c, t, h, {})
    <3> HIDE DEF h
    <3>1. h \in 0 .. Heads(c) - 1
      BY <2>1 DEF h
    <3> QED BY <3>1, HeadIs
  <2> HIDE DEF q
  <2> QED BY <2>1, <2>2
<1>2. G = [g \in 0 .. c.kv_mul - 1 |-> St(g)]
  BY DEF GroupState
<1> HIDE DEF G, St, W
<1>3. online_attention_grouped_finalize(G) = [g \in 0 .. c.kv_mul - 1 |-> W(g)]
  BY <1>1, <1>2 DEF online_attention_grouped_finalize
<1> QED BY <1>3 DEF G, W, HeadsOf

\* Nothing visited yet.
LEMMA FreshState ==
  ASSUME NEW first \in Int, NEW s, NEW out
  PROVE  /\ State(<<>>, s, first, first - 1, out) = Start(out)
         /\ IsBefore(<<>>)
BY DEF State, IsBefore

LEMMA FreshGroup ==
  ASSUME NEW c, NEW q, NEW m, NEW first \in Int
  PROVE  [g \in 0 .. m - 1 |-> Start(Unwritten)] = GroupState(c, q, m, first, first - 1)
<1>1. \A g \in 0 .. m - 1 : State(<<>>, c.score[q + g], first, first - 1, Unwritten) = Start(Unwritten)
  BY FreshState
<1> QED BY <1>1 DEF GroupState

\* A group that has seen no row.
FreshStates(m) == [g \in 0 .. m - 1 |-> Start(Unwritten)]

LEMMA GroupStartsFresh ==
  ASSUME NEW c, NEW q, NEW m
  PROVE  GroupState(c, q, m, 0, 0 - 1) = FreshStates(m)
<1>1. 0 \in Int
  OBVIOUS
<1>2. \A g \in 0 .. m - 1 : State(<<>>, c.score[q + g], 0, 0 - 1, Unwritten) = Start(Unwritten)
  BY <1>1, FreshState
<1> QED BY <1>2 DEF GroupState, FreshStates

LEMMA GroupFitsArrays ==
  ASSUME NEW c, IsCall(c)
  PROVE  Least(c.kv_mul, MAX_KV_MUL) = c.kv_mul
BY DEF IsCall, Least

LEMMA GroupAttention ==
  ASSUME NEW c, IsCall(c), NEW t \in 0 .. c.b - 1, NEW k \in 0 .. c.n_kv_heads - 1
  PROVE  /\ online_attention_grouped(c, t * Heads(c) + k * c.kv_mul, First(c, t), Pos(c, t)) = HeadsOf(c, t, k)
         /\ online_attention_grouped_bf16(c, t * Heads(c) + k * c.kv_mul, First(c, t), Pos(c, t)) = HeadsOf(c, t, k)
<1> DEFINE q == t * Heads(c) + k * c.kv_mul
           lo == First(c, t)
           pos == Pos(c, t)
           m == c.kv_mul
<1>0. q \in Nat /\ lo \in Nat /\ pos \in Nat /\ lo <= pos /\ Held(c, lo, pos) /\ m \in Nat \ {0} /\ c.slot_count \in Nat \ {0}
  BY GroupQueries, WindowBegins DEF IsCall
<1>1. CASE c.kv_mul = 1
  <2> DEFINE h == GroupHead(c, k, 0)
             s == c.score[Query(c, t, h)]
  <2>1. h \in 0 .. Heads(c) - 1 /\ q = Query(c, t, h)
    <3>1. 0 \in 0 .. c.kv_mul - 1
      BY <1>1
    <3>2. h \in 0 .. Heads(c) - 1 /\ q + 0 = Query(c, t, h)
      BY <3>1, GroupQueries
    <3>3. q + 0 = q
      BY <1>0
    <3> QED BY <3>2, <3>3
  <2>2. Scored(s, lo, pos)
    BY <2>1, QueryScored
  <2> HIDE DEF h, q, lo, pos
  <2>3. online_attention(c, s, lo, pos, Start(Unwritten)) = State(<<>>, s, lo, pos, Unwritten)
    <3> HIDE DEF s
    <3>1. online_attention(c, s, lo, pos, State(<<>>, s, lo, lo - 1, Unwritten)) = State(<<>>, s, lo, pos, Unwritten)
      BY <1>0, <2>2, FreshState, OnlineAttention
    <3>2. State(<<>>, s, lo, lo - 1, Unwritten) = Start(Unwritten)
      BY <1>0, FreshState
    <3> QED BY <3>1, <3>2
  <2>4. Normalised(State(<<>>, s, lo, pos, Unwritten)) = Weighted(c, t, h, {})
    <3> HIDE DEF h
    <3> QED BY <2>1, HeadIs DEF lo, pos
  <2>5. Normalised(online_attention(c, c.score[q], lo, pos, Start(Unwritten))) = Weighted(c, t, h, {})
    BY <2>1, <2>3, <2>4
  <2>6. HeadsOf(c, t, k) = [g \in {0} |-> Weighted(c, t, h, {})]
    <3>1. 0 .. c.kv_mul - 1 = {0}
      BY <1>1
    <3> QED BY <3>1 DEF HeadsOf, h
  <2>7. online_attention_grouped(c, q, lo, pos) = HeadsOf(c, t, k)
    BY <1>1, <2>5, <2>6 DEF online_attention_grouped
  <2>8. online_attention_grouped_bf16(c, q, lo, pos) = HeadsOf(c, t, k)
    BY <1>1, <2>5, <2>6 DEF online_attention_grouped_bf16, online_attention_bf16
  <2> QED BY <2>7, <2>8 DEF q, lo, pos
<1>2. CASE c.kv_mul # 1
  <2> DEFINE fresh == [g \in 0 .. m - 1 |-> Start(Unwritten)]
  <2>1. Least(c.kv_mul, MAX_KV_MUL) = m
    BY GroupFitsArrays
  <2>2. GroupScored(c, q, m, lo, pos)
    BY GroupIsScored
  <2>3. online_attention_grouped_finalize(GroupState(c, q, m, lo, pos)) = HeadsOf(c, t, k)
    BY GroupFinished
  <2> HIDE DEF q, lo, pos, m
  <2>4. fresh = GroupState(c, q, m, lo, lo - 1)
    BY <1>0, FreshGroup
  <2>5. online_attention_grouped_scan(c, q, m, lo, pos, GroupState(c, q, m, lo, lo - 1)) = GroupState(c, q, m, lo, pos)
    BY <1>0, <2>2, GroupedScan
  <2> DEFINE done == online_attention_grouped_finalize(online_attention_grouped_scan(c, q, m, lo, pos, fresh))
  <2>6. done = HeadsOf(c, t, k)
    <3> HIDE DEF fresh
    <3> QED BY <2>3, <2>4, <2>5
  <2>7. online_attention_grouped(c, q, lo, pos) = done
    BY <1>2, <2>1, Zenon DEF online_attention_grouped
  <2>8. online_attention_grouped_bf16(c, q, lo, pos) = done
    BY <1>2, <2>1, Zenon DEF online_attention_grouped_bf16
  <2> HIDE DEF done
  <2> QED BY <2>6, <2>7, <2>8 DEF q, lo, pos
<1> QED BY <1>1, <1>2

\* One head with the sink.
LEMMA SinkAttention ==
  ASSUME NEW c, IsCall(c), c.b = 1, NEW h \in 0 .. Heads(c) - 1
  PROVE  online_attention_with_sink(c, h) = Weighted(c, 0, h, {c.sink})
<1> DEFINE lo == First(c, 0)
           pos == Pos(c, 0)
           s == c.score[Query(c, 0, h)]
           before == <<c.sink>>
<1>0. 0 \in 0 .. c.b - 1 /\ c.slot_count \in Nat \ {0} /\ Heads(c) \in Nat /\ c.start_pos \in Nat
  BY HeadsIs DEF IsCall
<1>1. lo \in Nat /\ pos \in Nat /\ lo <= pos /\ Held(c, lo, pos)
  BY <1>0, WindowBegins
<1>2. Scored(s, lo, pos)
  BY <1>0, QueryScored
<1>3. c.sink \in Scores
  BY DEF IsCall, Finite, Scores
<1>4. IsBefore(before)
  BY <1>3 DEF IsBefore
<1>5. Query(c, 0, h) = h /\ pos = c.start_pos /\ lo = attention_start_pos(c.start_pos, c.sliding_window)
  <2>1. 0 * Heads(c) + h = h /\ c.start_pos + 0 = c.start_pos
    BY <1>0
  <2> QED BY <2>1 DEF Query, Pos, First
<1>6. Normalised(State(before, s, lo, pos, <<>>)) = Weighted(c, 0, h, {c.sink})
  <2>1. Paired(c, before, {c.sink})
    BY DEF Paired
  <2>2. 0 \in 0 .. c.b - 1
    BY <1>0
  <2> HIDE DEF before
  <2>3. \A t \in 0 .. c.b - 1 : \A out :
          Normalised(State(before, c.score[Query(c, t, h)], First(c, t), Pos(c, t), out)) = Weighted(c, t, h, {c.sink})
    BY <2>1, WeightedIs
  <2> QED BY <2>2, <2>3, Zenon
<1> HIDE DEF lo, pos, s
<1>7. State(before, s, lo, lo - 1, <<>>) = StartAtSink(c.sink, <<>>)
  <2>1. Tops(before, s, lo, lo - 1) = {c.sink}
    <3>1. lo .. lo - 1 = {} /\ {before[i] : i \in 1 .. Len(before)} = {c.sink}
      BY <1>1
    <3> QED BY <3>1 DEF Tops
  <2>2. Top({c.sink}) = c.sink
    <3>1. \A y \in {c.sink} : y <= c.sink
      BY <1>3, ScoresAre
    <3> QED BY <1>3, <3>1, TopIs
  <2>3. Scaled(Raw(before, s, lo, lo - 1), c.sink) = <<0>>
    <3>1. Len(before) + (lo - 1 - lo + 1) = 1 /\ Len(before) = 1 /\ before[1] = c.sink
      BY <1>1
    <3>2. Raw(before, s, lo, lo - 1) = [i \in 1 .. 1 |-> c.sink]
      BY <3>1 DEF Raw
    <3>3. c.sink - c.sink = 0
      BY <1>3, ScoresAre
    <3> QED BY <3>2, <3>3 DEF Scaled
  <2>4. Terms(s, lo, lo - 1, c.sink) = <<>>
    <3>1. lo - 1 - lo + 1 = 0
      BY <1>1
    <3> QED BY <3>1 DEF Terms
  <2>5. before # <<>>
    OBVIOUS
  <2> HIDE DEF before
  <2> QED BY <2>1, <2>2, <2>3, <2>4, <2>5 DEF State, StartAtSink
<1>8. online_attention(c, s, lo, pos, State(before, s, lo, lo - 1, <<>>)) = State(before, s, lo, pos, <<>>)
  <2> HIDE DEF before
  <2> QED BY <1>0, <1>1, <1>2, <1>4, OnlineAttention
<1> HIDE DEF before
<1>9. online_attention_with_sink(c, h) = Normalised(online_attention(c, c.score[h], lo, pos, StartAtSink(c.sink, <<>>)))
  BY <1>5 DEF online_attention_with_sink
<1>10. s = c.score[h]
  BY <1>5 DEF s
<1> QED BY <1>6, <1>7, <1>8, <1>9, <1>10 DEF s, lo, pos

-----------------------------------------------------------------------------
(* Who writes what. *)

\* Every write is the right thing at a head's place, every head is written,
\* and no two units write to one place.
InPlace(c, tokens, units, maxima) ==
  \A u \in DOMAIN units : \A w \in units[u] : \E t \in 0 .. tokens - 1 : \E h \in 0 .. Heads(c) - 1 :
    w.at = Query(c, t, h) /\ w.is = Weighted(c, t, h, maxima)
AllWritten(c, tokens, units, maxima) ==
  \A t \in 0 .. tokens - 1 : \A h \in 0 .. Heads(c) - 1 : \E u \in DOMAIN units : \E w \in units[u] :
    w.at = Query(c, t, h) /\ w.is = Weighted(c, t, h, maxima)
Apart(units) ==
  \A u, v \in DOMAIN units : \A w \in units[u] : \A x \in units[v] : w.at = x.at => u = v

LEMMA WritesOnceIf ==
  ASSUME NEW c, IsCall(c), NEW tokens \in Nat, NEW units, NEW maxima,
         InPlace(c, tokens, units, maxima), AllWritten(c, tokens, units, maxima), Apart(units)
  PROVE  WritesOnce(c, tokens, units, maxima)
<1> DEFINE H == Heads(c)
           writes == UNION {{<<u, w.at, w.is>> : w \in units[u]} : u \in DOMAIN units}
           want == {<<t * H + h, Weighted(c, t, h, maxima)>> : t \in 0 .. tokens - 1, h \in 0 .. H - 1}
           f == [x \in writes |-> <<x[2], x[3]>>]
<1>0. H \in Nat
  BY HeadsIs
<1>1. \A x \in writes : \E u \in DOMAIN units : \E w \in units[u] : x = <<u, w.at, w.is>>
  OBVIOUS
<1>2. \A u \in DOMAIN units : \A w \in units[u] : <<u, w.at, w.is>> \in writes
  OBVIOUS
<1>3. /\ \A y \in want : \E t \in 0 .. tokens - 1 : \E h \in 0 .. H - 1 : y = <<Query(c, t, h), Weighted(c, t, h, maxima)>>
      /\ \A t \in 0 .. tokens - 1 : \A h \in 0 .. H - 1 : <<Query(c, t, h), Weighted(c, t, h, maxima)>> \in want
  BY DEF Query
<1>4. IsFiniteSet(want)
  <2> DEFINE S == (0 .. tokens - 1) \X (0 .. H - 1)
             g == [x \in S |-> <<x[1] * H + x[2], Weighted(c, x[1], x[2], maxima)>>]
  <2>1. IsFiniteSet(S)
    <3> HIDE DEF H
    <3>1. IsFiniteSet(0 .. tokens - 1) /\ IsFiniteSet(0 .. H - 1)
      BY <1>0, FS_Interval
    <3> QED BY <3>1, FS_Product
  <2>2. g \in Surjection(S, want)
    <3>1. \A x \in S : g[x] \in want
      <4> HIDE DEF H
      <4> QED OBVIOUS
    <3>2. \A y \in want : \E x \in S : g[x] = y
      <4> TAKE y \in want
      <4>1. PICK t \in 0 .. tokens - 1, h \in 0 .. H - 1 : y = <<t * H + h, Weighted(c, t, h, maxima)>>
        OBVIOUS
      <4>2. <<t, h>> \in S
        OBVIOUS
      <4>3. g[<<t, h>>] = y
        <5> HIDE DEF H, want
        <5> QED BY <4>1, <4>2
      <4> QED BY <4>2, <4>3
    <3>3. g = [x \in S |-> g[x]]
      BY Zenon
    <3> HIDE DEF g, S, want
    <3> QED BY <3>1, <3>2, <3>3 DEF Surjection
  <2> HIDE DEF g, S, want
  <2> QED BY <2>1, <2>2, FS_Surjection
<1> HIDE DEF writes, want, H
<1>5. \A x \in writes : f[x] \in want
  <2> TAKE x \in writes
  <2>10. PICK u \in DOMAIN units : \E w \in units[u] : x = <<u, w.at, w.is>>
    BY <1>1
  <2>1. PICK w \in units[u] : x = <<u, w.at, w.is>>
    BY <2>10
  <2>2. PICK t \in 0 .. tokens - 1, h \in 0 .. H - 1 : w.at = Query(c, t, h) /\ w.is = Weighted(c, t, h, maxima)
    BY <2>1 DEF InPlace, H
  <2>3. f[x] = <<Query(c, t, h), Weighted(c, t, h, maxima)>>
    BY <2>1, <2>2
  <2> QED BY <1>3, <2>3
<1>6. \A y \in want : \E x \in writes : f[x] = y
  <2> TAKE y \in want
  <2>1. PICK t \in 0 .. tokens - 1, h \in 0 .. H - 1 : y = <<Query(c, t, h), Weighted(c, t, h, maxima)>>
    BY <1>3
  <2>20. PICK u \in DOMAIN units : \E w \in units[u] : w.at = Query(c, t, h) /\ w.is = Weighted(c, t, h, maxima)
    BY <2>1 DEF AllWritten, H
  <2>2. PICK w \in units[u] : w.at = Query(c, t, h) /\ w.is = Weighted(c, t, h, maxima)
    BY <2>20
  <2>3. <<u, w.at, w.is>> \in writes
    BY <1>2, <2>2
  <2>4. f[<<u, w.at, w.is>>] = y
    BY <2>1, <2>2, <2>3
  <2> QED BY <2>3, <2>4
<1>7. \A x, y \in writes : f[x] = f[y] => x = y
  <2> SUFFICES ASSUME NEW x \in writes, NEW y \in writes, f[x] = f[y] PROVE x = y
    OBVIOUS
  <2>10. PICK u \in DOMAIN units : \E w \in units[u] : x = <<u, w.at, w.is>>
    BY <1>1
  <2>1. PICK w \in units[u] : x = <<u, w.at, w.is>>
    BY <2>10
  <2>20. PICK v \in DOMAIN units : \E z \in units[v] : y = <<v, z.at, z.is>>
    BY <1>1
  <2>2. PICK z \in units[v] : y = <<v, z.at, z.is>>
    BY <2>20
  <2>3. w.at = z.at /\ w.is = z.is
    BY <2>1, <2>2
  <2>4. u = v
    BY <2>1, <2>2, <2>3 DEF Apart
  <2> QED BY <2>1, <2>2, <2>3, <2>4
<1>8. f = [x \in writes |-> f[x]]
  BY Zenon
<1>9. {<<w[2], w[3]>> : w \in writes} = want
  BY <1>5, <1>6
<1> HIDE DEF f
<1>10. f \in Injection(writes, want) /\ f \in Surjection(writes, want)
  BY <1>5, <1>6, <1>7, <1>8 DEF Injection, Surjection, IsInjective
<1>11. Cardinality(writes) = Cardinality(want)
  BY <1>4, <1>10, FS_Injection
<1> QED BY <1>9, <1>11 DEF WritesOnce, writes, want, H

\* One query head per unit.
THEOREM SinkWritesOnce ==
  ASSUME NEW c, IsCall(c), c.b = 1
  PROVE  WritesOnce(c, 1, attention_over_heads_with_sink(c), {c.sink})
<1> DEFINE units == attention_over_heads_with_sink(c)
<1>0. Heads(c) \in Nat
  BY HeadsIs
<1>1. /\ DOMAIN units = 0 .. Heads(c) - 1
      /\ \A h \in 0 .. Heads(c) - 1 : units[h] = {[at |-> h, is |-> online_attention_with_sink(c, h)]}
  BY DEF attention_over_heads_with_sink
<1>2. \A h \in 0 .. Heads(c) - 1 : units[h] = {[at |-> Query(c, 0, h), is |-> Weighted(c, 0, h, {c.sink})]}
  <2> TAKE h \in 0 .. Heads(c) - 1
  <2>1. Query(c, 0, h) = h
    BY <1>0 DEF Query
  <2>2. online_attention_with_sink(c, h) = Weighted(c, 0, h, {c.sink})
    BY SinkAttention
  <2> HIDE DEF units
  <2> QED BY <1>1, <2>1, <2>2
<1>3. \A h \in 0 .. Heads(c) - 1 : Query(c, 0, h) = h
  BY <1>0 DEF Query
<1>4. \A t \in 0 .. 1 - 1 : t = 0
  OBVIOUS
<1> HIDE DEF units
<1> DEFINE maxima == {c.sink}
<1>8. \A h \in 0 .. Heads(c) - 1 : \A w : w \in units[h] <=> w = [at |-> Query(c, 0, h), is |-> Weighted(c, 0, h, maxima)]
  BY <1>2
<1> HIDE DEF maxima
<1>9. 0 \in 0 .. 1 - 1
  OBVIOUS
<1>5. InPlace(c, 1, units, maxima)
  <2> SUFFICES ASSUME NEW u \in 0 .. Heads(c) - 1, NEW w \in units[u]
               PROVE  \E t \in 0 .. 1 - 1 : \E h \in 0 .. Heads(c) - 1 : w.at = Query(c, t, h) /\ w.is = Weighted(c, t, h, maxima)
    BY <1>1 DEF InPlace
  <2>1. w.at = Query(c, 0, u) /\ w.is = Weighted(c, 0, u, maxima)
    BY <1>8
  <2> QED BY <1>9, <2>1
<1>6. AllWritten(c, 1, units, maxima)
  <2> SUFFICES ASSUME NEW h \in 0 .. Heads(c) - 1
               PROVE  \E u \in 0 .. Heads(c) - 1 : \E w \in units[u] : w.at = Query(c, 0, h) /\ w.is = Weighted(c, 0, h, maxima)
    BY <1>1, <1>4 DEF AllWritten
  <2>1. [at |-> Query(c, 0, h), is |-> Weighted(c, 0, h, maxima)] \in units[h]
    BY <1>8
  <2> QED BY <2>1
<1>7. Apart(units)
  BY <1>1, <1>2, <1>3 DEF Apart
<1>10. 1 \in Nat
  OBVIOUS
<1>11. WritesOnce(c, 1, units, maxima)
  BY <1>5, <1>6, <1>7, <1>10, WritesOnceIf
<1> QED BY <1>11 DEF units, maxima

\* Units that write the heads of KV heads: which of which tokens.
Pairs(c, tokens) == (0 .. tokens - 1) \X (0 .. c.n_kv_heads - 1)
SharedOut(c, tokens, P, units) ==
  /\ \A u \in DOMAIN units : P[u] \subseteq Pairs(c, tokens)
                             /\ units[u] = UNION {HeadWrites(c, x[1], x[2]) : x \in P[u]}
  /\ \A x \in Pairs(c, tokens) : \E u \in DOMAIN units : x \in P[u]
  /\ \A u, v \in DOMAIN units : \A x \in P[u] : x \in P[v] => u = v

LEMMA WritesOnceIfSharedOut ==
  ASSUME NEW c, IsCall(c), NEW tokens \in Nat, tokens <= c.b, NEW P, NEW units, SharedOut(c, tokens, P, units)
  PROVE  WritesOnce(c, tokens, units, {})
<1> DEFINE m == c.kv_mul
           H == Heads(c)
           Is(w, t, k, g) == w.at = Query(c, t, GroupHead(c, k, g)) /\ w.is = Weighted(c, t, GroupHead(c, k, g), {})
<1>0. m \in Nat \ {0} /\ c.n_kv_heads \in Nat /\ H \in Nat /\ H = c.n_kv_heads * m
  BY HeadsIs DEF IsCall
<1>1. \A u \in DOMAIN units : \A w \in units[u] :
        \E x \in P[u] : \E g \in 0 .. m - 1 : Is(w, x[1], x[2], g)
  <2> TAKE u \in DOMAIN units
  <2> TAKE w \in units[u]
  <2>1. PICK x \in P[u] : w \in HeadWrites(c, x[1], x[2])
    BY DEF SharedOut
  <2> QED BY <2>1 DEF HeadWrites
<1>2. \A u \in DOMAIN units : \A x \in P[u] : \A g \in 0 .. m - 1 : \E w \in units[u] : Is(w, x[1], x[2], g)
  <2> TAKE u \in DOMAIN units
  <2> TAKE x \in P[u]
  <2> TAKE g \in 0 .. m - 1
  <2> DEFINE w == [at |-> Query(c, x[1], GroupHead(c, x[2], g)), is |-> Weighted(c, x[1], GroupHead(c, x[2], g), {})]
  <2>1. w \in HeadWrites(c, x[1], x[2])
    BY DEF HeadWrites
  <2>2. w \in units[u]
    <3> HIDE DEF w
    <3> QED BY <2>1 DEF SharedOut
  <2>3. Is(w, x[1], x[2], g)
    OBVIOUS
  <2> QED BY <2>2, <2>3
<1>3. \A u \in DOMAIN units : \A x \in P[u] : x[1] \in 0 .. tokens - 1 /\ x[2] \in 0 .. c.n_kv_heads - 1 /\ x = <<x[1], x[2]>>
  BY DEF SharedOut, Pairs
<1>4. \A k \in 0 .. c.n_kv_heads - 1 : \A g \in 0 .. m - 1 : GroupHead(c, k, g) \in 0 .. H - 1
  <2> TAKE k \in 0 .. c.n_kv_heads - 1
  <2> TAKE g \in 0 .. m - 1
  <2> HIDE DEF m, H
  <2>1. k * m + g \in 0 .. c.n_kv_heads * m - 1
    BY <1>0, RowEnds
  <2> QED BY <1>0, <2>1 DEF GroupHead, m
<1>5. InPlace(c, tokens, units, {})
  <2> SUFFICES ASSUME NEW u \in DOMAIN units, NEW w \in units[u]
               PROVE  \E t \in 0 .. tokens - 1 : \E h \in 0 .. H - 1 : w.at = Query(c, t, h) /\ w.is = Weighted(c, t, h, {})
    BY DEF InPlace
  <2>1. PICK x \in P[u], g \in 0 .. m - 1 : Is(w, x[1], x[2], g)
    BY <1>1
  <2>2. x[1] \in 0 .. tokens - 1 /\ GroupHead(c, x[2], g) \in 0 .. H - 1
    BY <1>3, <1>4
  <2> QED BY <2>1, <2>2
<1>6. AllWritten(c, tokens, units, {})
  <2> SUFFICES ASSUME NEW t \in 0 .. tokens - 1, NEW h \in 0 .. H - 1
               PROVE  \E u \in DOMAIN units : \E w \in units[u] : w.at = Query(c, t, h) /\ w.is = Weighted(c, t, h, {})
    BY DEF AllWritten
  <2> DEFINE k == h \div m
             g == h % m
  <2>1. k \in 0 .. c.n_kv_heads - 1 /\ g \in 0 .. m - 1 /\ h = k * m + g
    <3> HIDE DEF m, H
    <3>1. h \in 0 .. c.n_kv_heads * m - 1 /\ h \in Nat
      BY <1>0
    <3>2. h \div m \in 0 .. c.n_kv_heads - 1 /\ h % m \in 0 .. m - 1
      BY <1>0, <3>1, RowOf
    <3>3. h = (h \div m) * m + (h % m)
      BY <1>0, <3>1, Divided
    <3> QED BY <3>2, <3>3
  <2> HIDE DEF k, g
  <2>2. <<t, k>> \in Pairs(c, tokens)
    BY <2>1 DEF Pairs
  <2>3. PICK u \in DOMAIN units : <<t, k>> \in P[u]
    BY <2>2 DEF SharedOut
  <2>4. PICK w \in units[u] : Is(w, <<t, k>>[1], <<t, k>>[2], g)
    BY <1>2, <2>1, <2>3
  <2>5. GroupHead(c, k, g) = h
    BY <2>1 DEF GroupHead
  <2> QED BY <2>4, <2>5
<1>7. Apart(units)
  <2> SUFFICES ASSUME NEW u \in DOMAIN units, NEW v \in DOMAIN units, NEW w \in units[u], NEW z \in units[v], w.at = z.at
               PROVE  u = v
    BY DEF Apart
  <2>1. PICK x \in P[u], g \in 0 .. m - 1 : Is(w, x[1], x[2], g)
    BY <1>1
  <2>2. PICK y \in P[v], e \in 0 .. m - 1 : Is(z, y[1], y[2], e)
    BY <1>1
  <2>3. /\ x[1] \in 0 .. tokens - 1 /\ x[2] \in 0 .. c.n_kv_heads - 1 /\ x = <<x[1], x[2]>>
        /\ y[1] \in 0 .. tokens - 1 /\ y[2] \in 0 .. c.n_kv_heads - 1 /\ y = <<y[1], y[2]>>
    BY <1>3
  <2>4. GroupHead(c, x[2], g) \in 0 .. H - 1 /\ GroupHead(c, y[2], e) \in 0 .. H - 1
    BY <1>4, <2>3
  <2>5. x[1] * H + GroupHead(c, x[2], g) = y[1] * H + GroupHead(c, y[2], e)
    BY <2>1, <2>2 DEF Query
  <2>6. x[1] = y[1] /\ GroupHead(c, x[2], g) = GroupHead(c, y[2], e)
    <3> DEFINE a == GroupHead(c, x[2], g)
               b == GroupHead(c, y[2], e)
               i == x[1]
               j == y[1]
    <3>1. i \in Nat /\ j \in Nat
      BY <2>3
    <3>2. a \in 0 .. H - 1 /\ b \in 0 .. H - 1 /\ i * H + a = j * H + b
      BY <2>4, <2>5
    <3> HIDE DEF H, a, b, i, j
    <3>3. H \in Nat
      BY <1>0
    <3>4. i = j /\ a = b
      BY <3>1, <3>2, <3>3, OneWay
    <3> QED BY <3>4 DEF a, b, i, j
  <2>7. x[2] = y[2]
    <3> DEFINE i == x[2]
               j == y[2]
    <3>1. i * m + g = j * m + e
      BY <2>6 DEF GroupHead
    <3>2. i \in Nat /\ j \in Nat
      BY <2>3
    <3> HIDE DEF m, i, j
    <3>3. i = j
      BY <1>0, <3>1, <3>2, OneWay
    <3> QED BY <3>3 DEF i, j
  <2>8. x = y
    BY <2>3, <2>6, <2>7
  <2> QED BY <2>8 DEF SharedOut
<1> QED BY <1>5, <1>6, <1>7, WritesOnceIf

\* A group's results go where its heads belong.
LEMMA GroupGoes ==
  ASSUME NEW c, IsCall(c), NEW t \in 0 .. c.b - 1, NEW k \in 0 .. c.n_kv_heads - 1
  PROVE  GroupWrites(c, t, k, HeadsOf(c, t, k)) = HeadWrites(c, t, k)
<1> DEFINE m == c.kv_mul
           q == t * Heads(c) + k * m
           W(g) == Weighted(c, t, GroupHead(c, k, g), {})
           heads == HeadsOf(c, t, k)
<1>1. \A g \in 0 .. m - 1 : q + g = Query(c, t, GroupHead(c, k, g))
  BY GroupQueries
<1>2. DOMAIN heads = 0 .. m - 1 /\ \A g \in 0 .. m - 1 : heads[g] = W(g)
  BY DEF HeadsOf
<1>3. GroupWrites(c, t, k, heads) = {[at |-> q + g, is |-> heads[g]] : g \in 0 .. m - 1}
  BY <1>2 DEF GroupWrites
<1>4. HeadWrites(c, t, k) = {[at |-> Query(c, t, GroupHead(c, k, g)), is |-> W(g)] : g \in 0 .. m - 1}
  BY DEF HeadWrites
<1> HIDE DEF heads, q, W, m
<1>5. GroupWrites(c, t, k, heads) = HeadWrites(c, t, k)
  BY <1>1, <1>2, <1>3, <1>4
<1> QED BY <1>5 DEF heads

LEMMA GroupUnit ==
  ASSUME NEW c, IsCall(c), NEW t \in 0 .. c.b - 1, NEW k \in 0 .. c.n_kv_heads - 1
  PROVE  /\ GroupWrites(c, t, k, online_attention_grouped(c, t * Heads(c) + k * c.kv_mul,
              attention_start_pos(c.start_pos + t, c.sliding_window), c.start_pos + t)) = HeadWrites(c, t, k)
         /\ GroupWrites(c, t, k, online_attention_grouped_bf16(c, t * Heads(c) + k * c.kv_mul,
              attention_start_pos(c.start_pos + t, c.sliding_window), c.start_pos + t)) = HeadWrites(c, t, k)
<1>1. /\ online_attention_grouped(c, t * Heads(c) + k * c.kv_mul, First(c, t), Pos(c, t)) = HeadsOf(c, t, k)
      /\ online_attention_grouped_bf16(c, t * Heads(c) + k * c.kv_mul, First(c, t), Pos(c, t)) = HeadsOf(c, t, k)
  BY GroupAttention
<1>2. GroupWrites(c, t, k, HeadsOf(c, t, k)) = HeadWrites(c, t, k)
  BY GroupGoes
<1> QED BY <1>1, <1>2, Zenon DEF First, Pos

\* One KV head per unit.
THEOREM HeadsWriteOnce ==
  ASSUME NEW c, IsCall(c), c.b = 1
  PROVE  /\ WritesOnce(c, 1, attention_over_kv_heads(c), {})
         /\ WritesOnce(c, 1, attention_over_kv_heads_bf16(c), {})
<1> DEFINE n == c.n_kv_heads
           P == [k \in 0 .. n - 1 |-> {<<0, k>>}]
<1>0. n \in Nat /\ c.start_pos \in Nat /\ Heads(c) \in Nat /\ c.kv_mul \in Nat
  BY HeadsIs DEF IsCall
<1>1. ASSUME NEW units, DOMAIN units = 0 .. n - 1, \A k \in 0 .. n - 1 : units[k] = HeadWrites(c, 0, k)
      PROVE  WritesOnce(c, 1, units, {})
  <2>1. \A u \in DOMAIN units : P[u] = {<<0, u>>}
    BY <1>1
  <2>2. \A x : x \in Pairs(c, 1) <=> \E k \in 0 .. n - 1 : x = <<0, k>>
    BY DEF Pairs
  <2> HIDE DEF P
  <2>3. \A u \in DOMAIN units : P[u] \subseteq Pairs(c, 1) /\ units[u] = UNION {HeadWrites(c, x[1], x[2]) : x \in P[u]}
    <3> TAKE u \in DOMAIN units
    <3>1. {HeadWrites(c, x[1], x[2]) : x \in P[u]} = {HeadWrites(c, 0, u)}
      <4>1. <<0, u>> \in P[u] /\ \A x \in P[u] : x[1] = 0 /\ x[2] = u
        BY <2>1
      <4>2. <<0, u>>[1] = 0 /\ <<0, u>>[2] = u
        OBVIOUS
      <4> QED BY <4>1, <4>2
    <3> QED BY <1>1, <2>1, <2>2, <3>1
  <2>4. \A x \in Pairs(c, 1) : \E u \in DOMAIN units : x \in P[u]
    BY <1>1, <2>1, <2>2
  <2>5. \A u, v \in DOMAIN units : \A x \in P[u] : x \in P[v] => u = v
    BY <2>1
  <2>6. SharedOut(c, 1, P, units)
    BY <2>3, <2>4, <2>5 DEF SharedOut
  <2>7. 1 \in Nat /\ 1 <= c.b
    OBVIOUS
  <2> QED BY <2>6, <2>7, WritesOnceIfSharedOut
<1>2. ASSUME NEW k \in 0 .. n - 1
      PROVE  attn_heads_trampoline(c, k) = HeadWrites(c, 0, k) /\ attn_heads_trampoline_bf16(c, k) = HeadWrites(c, 0, k)
  <2>1. 0 \in 0 .. c.b - 1 /\ k \in 0 .. c.n_kv_heads - 1
    OBVIOUS
  <2>2. 0 * Heads(c) + k * c.kv_mul = k * c.kv_mul /\ c.start_pos + 0 = c.start_pos
    <3>1. k * c.kv_mul \in Nat
      BY <1>0, NextProduct
    <3> QED BY <1>0, <3>1
  <2> DEFINE start == attention_start_pos(c.start_pos, c.sliding_window)
  <2>3. /\ GroupWrites(c, 0, k, online_attention_grouped(c, k * c.kv_mul, start, c.start_pos)) = HeadWrites(c, 0, k)
        /\ GroupWrites(c, 0, k, online_attention_grouped_bf16(c, k * c.kv_mul, start, c.start_pos)) = HeadWrites(c, 0, k)
    BY <2>1, <2>2, GroupUnit
  <2> QED BY <2>3, Zenon DEF attn_heads_trampoline, attn_heads_trampoline_bf16
<1>3. WritesOnce(c, 1, attention_over_kv_heads(c), {})
  <2> DEFINE units == attention_over_kv_heads(c)
  <2>1. DOMAIN units = 0 .. n - 1 /\ \A k \in 0 .. n - 1 : units[k] = HeadWrites(c, 0, k)
    BY <1>2 DEF attention_over_kv_heads
  <2> HIDE DEF units
  <2>2. WritesOnce(c, 1, units, {})
    BY <1>1, <2>1
  <2> QED BY <2>2 DEF units
<1>4. WritesOnce(c, 1, attention_over_kv_heads_bf16(c), {})
  <2> DEFINE units == attention_over_kv_heads_bf16(c)
  <2>1. DOMAIN units = 0 .. n - 1 /\ \A k \in 0 .. n - 1 : units[k] = HeadWrites(c, 0, k)
    BY <1>2 DEF attention_over_kv_heads_bf16
  <2> HIDE DEF units
  <2>2. WritesOnce(c, 1, units, {})
    BY <1>1, <2>1
  <2> QED BY <2>2 DEF units
<1> QED BY <1>3, <1>4

\* A batch by token and KV head over workers, or token after token.
LEMMA ParallelShare ==
  ASSUME NEW c, IsCall(c), c.b * c.n_kv_heads > 1, NEW units, DOMAIN units = 0 .. c.b * c.n_kv_heads - 1,
         \A u \in 0 .. c.b * c.n_kv_heads - 1 : units[u] = HeadWrites(c, u \div c.n_kv_heads, u % c.n_kv_heads)
  PROVE  WritesOnce(c, c.b, units, {})
<1> DEFINE n == c.n_kv_heads
           N == c.b * n
           t(u) == u \div n
           k(u) == u % n
           P == [u \in 0 .. N - 1 |-> {<<t(u), k(u)>>}]
<1>0. n \in Nat /\ c.b \in Nat /\ N \in Nat
  <2>1. n \in Nat /\ c.b \in Nat
    BY DEF IsCall
  <2> QED BY <2>1, NextProduct
<1>1. n # 0
  <2>1. n = 0 => c.b * n = 0
    BY <1>0
  <2> QED BY <2>1
<1>2. \A u \in 0 .. N - 1 : t(u) \in 0 .. c.b - 1 /\ k(u) \in 0 .. n - 1 /\ u = t(u) * n + k(u)
  <2> TAKE u \in 0 .. N - 1
  <2> HIDE DEF n
  <2>1. u \in Nat
    BY <1>0
  <2>2. u \div n \in 0 .. c.b - 1 /\ u % n \in 0 .. n - 1
    BY <1>0, <1>1, RowOf
  <2>3. u = (u \div n) * n + (u % n)
    BY <1>0, <1>1, <2>1, Divided
  <2> QED BY <2>2, <2>3
<1>3. \A i \in 0 .. c.b - 1 : \A j \in 0 .. n - 1 : \E u \in 0 .. N - 1 : t(u) = i /\ k(u) = j
  <2> TAKE i \in 0 .. c.b - 1
  <2> TAKE j \in 0 .. n - 1
  <2> HIDE DEF n
  <2>1. i * n + j \in 0 .. N - 1
    BY <1>0, RowEnds
  <2>2. i \in Nat
    BY <1>0
  <2>3. (i * n + j) \div n = i /\ (i * n + j) % n = j
    BY <1>0, <1>1, <2>2, DividesInto
  <2> QED BY <2>1, <2>3
<1>4. \A u \in DOMAIN units : u \in 0 .. N - 1 /\ P[u] = {<<t(u), k(u)>>} /\ units[u] = HeadWrites(c, t(u), k(u))
  OBVIOUS
<1>5. DOMAIN units = 0 .. N - 1
  OBVIOUS
<1> HIDE DEF P, t, k, N
<1>6. \A u \in DOMAIN units : P[u] \subseteq Pairs(c, c.b) /\ units[u] = UNION {HeadWrites(c, x[1], x[2]) : x \in P[u]}
  <2> TAKE u \in DOMAIN units
  <2>1. {HeadWrites(c, x[1], x[2]) : x \in P[u]} = {HeadWrites(c, t(u), k(u))}
    <3>1. <<t(u), k(u)>> \in P[u] /\ \A x \in P[u] : x[1] = t(u) /\ x[2] = k(u)
      BY <1>4
    <3>2. <<t(u), k(u)>>[1] = t(u) /\ <<t(u), k(u)>>[2] = k(u)
      OBVIOUS
    <3> QED BY <3>1, <3>2
  <2>2. <<t(u), k(u)>> \in Pairs(c, c.b)
    BY <1>2, <1>4 DEF Pairs
  <2> QED BY <1>4, <2>1, <2>2
<1>7. \A x \in Pairs(c, c.b) : \E u \in DOMAIN units : x \in P[u]
  <2> TAKE x \in Pairs(c, c.b)
  <2>1. PICK i \in 0 .. c.b - 1, j \in 0 .. n - 1 : x = <<i, j>>
    BY DEF Pairs
  <2>2. PICK u \in 0 .. N - 1 : t(u) = i /\ k(u) = j
    BY <1>3
  <2> QED BY <1>4, <1>5, <2>1, <2>2
<1>8. \A u, v \in DOMAIN units : \A x \in P[u] : x \in P[v] => u = v
  <2> SUFFICES ASSUME NEW u \in DOMAIN units, NEW v \in DOMAIN units, NEW x \in P[u], x \in P[v] PROVE u = v
    OBVIOUS
  <2>1. t(u) = t(v) /\ k(u) = k(v)
    BY <1>4
  <2>2. u = t(u) * n + k(u) /\ v = t(v) * n + k(v)
    BY <1>2, <1>4
  <2> HIDE DEF n
  <2> QED BY <2>1, <2>2
<1>9. SharedOut(c, c.b, P, units)
  BY <1>6, <1>7, <1>8 DEF SharedOut
<1>10. c.b <= c.b
  BY <1>0
<1> QED BY <1>0, <1>9, <1>10, WritesOnceIfSharedOut

LEMMA SerialShare ==
  ASSUME NEW c, IsCall(c), NEW units, DOMAIN units = 0 .. c.b - 1,
         \A t \in 0 .. c.b - 1 : units[t] = UNION {HeadWrites(c, t, k) : k \in 0 .. c.n_kv_heads - 1}
  PROVE  WritesOnce(c, c.b, units, {})
<1> DEFINE n == c.n_kv_heads
           P == [t \in 0 .. c.b - 1 |-> {<<t, k>> : k \in 0 .. n - 1}]
<1>0. c.b \in Nat /\ c.b <= c.b
  BY DEF IsCall
<1>1. \A u \in DOMAIN units : P[u] = {<<u, k>> : k \in 0 .. n - 1}
  OBVIOUS
<1>2. \A x : x \in Pairs(c, c.b) <=> \E t \in 0 .. c.b - 1 : \E k \in 0 .. n - 1 : x = <<t, k>>
  BY DEF Pairs
<1> HIDE DEF P, n
<1>3. \A u \in DOMAIN units : P[u] \subseteq Pairs(c, c.b) /\ units[u] = UNION {HeadWrites(c, x[1], x[2]) : x \in P[u]}
  <2> TAKE u \in DOMAIN units
  <2>1. {HeadWrites(c, x[1], x[2]) : x \in P[u]} = {HeadWrites(c, u, k) : k \in 0 .. n - 1}
    <3>1. \A x \in P[u] : \E k \in 0 .. n - 1 : x[1] = u /\ x[2] = k
      BY <1>1
    <3>2. \A k \in 0 .. n - 1 : <<u, k>> \in P[u] /\ <<u, k>>[1] = u /\ <<u, k>>[2] = k
      BY <1>1
    <3>3. \A x \in P[u] : HeadWrites(c, x[1], x[2]) \in {HeadWrites(c, u, k) : k \in 0 .. n - 1}
      BY <3>1
    <3>4. \A k \in 0 .. n - 1 : HeadWrites(c, u, k) \in {HeadWrites(c, x[1], x[2]) : x \in P[u]}
      BY <3>2
    <3> QED BY <3>3, <3>4
  <2>2. P[u] \subseteq Pairs(c, c.b)
    BY <1>1, <1>2
  <2> QED BY <2>1, <2>2 DEF n
<1>4. \A x \in Pairs(c, c.b) : \E u \in DOMAIN units : x \in P[u]
  BY <1>1, <1>2
<1>5. \A u, v \in DOMAIN units : \A x \in P[u] : x \in P[v] => u = v
  BY <1>1
<1>6. SharedOut(c, c.b, P, units)
  BY <1>3, <1>4, <1>5 DEF SharedOut
<1> QED BY <1>0, <1>6, WritesOnceIfSharedOut

LEMMA BatchUnits ==
  ASSUME NEW c, IsCall(c), c.b * c.n_kv_heads > 1, NEW u \in 0 .. c.b * c.n_kv_heads - 1
  PROVE  /\ prefill_attn_batch_range(c, u) = HeadWrites(c, u \div c.n_kv_heads, u % c.n_kv_heads)
         /\ prefill_attn_batch_range_bf16(c, u) = HeadWrites(c, u \div c.n_kv_heads, u % c.n_kv_heads)
<1> DEFINE n == c.n_kv_heads
           t == u \div n
           k == u % n
<1>0. n \in Nat /\ c.b \in Nat
  BY DEF IsCall
<1>1. n # 0
  <2>1. n = 0 => c.b * n = 0
    BY <1>0
  <2> QED BY <2>1
<1>2. t \in 0 .. c.b - 1 /\ k \in 0 .. n - 1
  <2> HIDE DEF n
  <2>1. u \in 0 .. c.b * n - 1
    BY DEF n
  <2> QED BY <1>0, <1>1, <2>1, RowOf
<1>3. /\ GroupWrites(c, t, k, online_attention_grouped(c, t * Heads(c) + k * c.kv_mul,
           attention_start_pos(c.start_pos + t, c.sliding_window), c.start_pos + t)) = HeadWrites(c, t, k)
      /\ GroupWrites(c, t, k, online_attention_grouped_bf16(c, t * Heads(c) + k * c.kv_mul,
           attention_start_pos(c.start_pos + t, c.sliding_window), c.start_pos + t)) = HeadWrites(c, t, k)
  <2> HIDE DEF t, k
  <2> QED BY <1>2, GroupUnit
<1> QED BY <1>3, Zenon DEF prefill_attn_batch_range, prefill_attn_batch_range_bf16

THEOREM BatchesWriteOnce ==
  ASSUME NEW c, IsCall(c)
  PROVE  /\ WritesOnce(c, c.b, attention_over_kv_heads_prefill_batch(c), {})
         /\ WritesOnce(c, c.b, attention_over_kv_heads_prefill_batch_bf16(c), {})
<1>1. CASE c.parallel /\ c.b * c.n_kv_heads > 1
  <2> DEFINE N == c.b * c.n_kv_heads
             one == [u \in 0 .. N - 1 |-> prefill_attn_batch_range(c, u)]
             two == [u \in 0 .. N - 1 |-> prefill_attn_batch_range_bf16(c, u)]
  <2>1. attention_over_kv_heads_prefill_batch(c) = one /\ attention_over_kv_heads_prefill_batch_bf16(c) = two
    BY <1>1, Zenon DEF attention_over_kv_heads_prefill_batch, attention_over_kv_heads_prefill_batch_bf16
  <2>2. \A u \in 0 .. N - 1 : /\ one[u] = HeadWrites(c, u \div c.n_kv_heads, u % c.n_kv_heads)
                              /\ two[u] = HeadWrites(c, u \div c.n_kv_heads, u % c.n_kv_heads)
    BY <1>1, BatchUnits
  <2>3. DOMAIN one = 0 .. N - 1 /\ DOMAIN two = 0 .. N - 1
    OBVIOUS
  <2> HIDE DEF one, two
  <2>4. WritesOnce(c, c.b, one, {}) /\ WritesOnce(c, c.b, two, {})
    BY <1>1, <2>2, <2>3, ParallelShare
  <2> QED BY <2>1, <2>4
<1>2. CASE ~(c.parallel /\ c.b * c.n_kv_heads > 1)
  <2> DEFINE one == SerialPrefill(c, online_attention_grouped)
             two == SerialPrefill(c, online_attention_grouped_bf16)
  <2>1. attention_over_kv_heads_prefill_batch(c) = one /\ attention_over_kv_heads_prefill_batch_bf16(c) = two
    BY <1>2 DEF attention_over_kv_heads_prefill_batch, attention_over_kv_heads_prefill_batch_bf16
  <2>2. ASSUME NEW t \in 0 .. c.b - 1
        PROVE  /\ one[t] = UNION {HeadWrites(c, t, k) : k \in 0 .. c.n_kv_heads - 1}
               /\ two[t] = UNION {HeadWrites(c, t, k) : k \in 0 .. c.n_kv_heads - 1}
    <3> DEFINE A(k) == GroupWrites(c, t, k, online_attention_grouped(c, t * Heads(c) + k * c.kv_mul,
                         attention_start_pos(c.start_pos + t, c.sliding_window), c.start_pos + t))
               B(k) == GroupWrites(c, t, k, online_attention_grouped_bf16(c, t * Heads(c) + k * c.kv_mul,
                         attention_start_pos(c.start_pos + t, c.sliding_window), c.start_pos + t))
    <3>1. \A k \in 0 .. c.n_kv_heads - 1 : A(k) = HeadWrites(c, t, k) /\ B(k) = HeadWrites(c, t, k)
      BY GroupUnit
    <3>2. one[t] = UNION {A(k) : k \in 0 .. c.n_kv_heads - 1} /\ two[t] = UNION {B(k) : k \in 0 .. c.n_kv_heads - 1}
      BY DEF SerialPrefill
    <3> HIDE DEF A, B, one, two
    <3>3. /\ {A(k) : k \in 0 .. c.n_kv_heads - 1} = {HeadWrites(c, t, k) : k \in 0 .. c.n_kv_heads - 1}
          /\ {B(k) : k \in 0 .. c.n_kv_heads - 1} = {HeadWrites(c, t, k) : k \in 0 .. c.n_kv_heads - 1}
      BY <3>1
    <3> QED BY <3>2, <3>3
  <2>3. DOMAIN one = 0 .. c.b - 1 /\ DOMAIN two = 0 .. c.b - 1
    BY DEF SerialPrefill
  <2> HIDE DEF one, two
  <2>4. WritesOnce(c, c.b, one, {}) /\ WritesOnce(c, c.b, two, {})
    BY <2>2, <2>3, SerialShare
  <2> QED BY <2>1, <2>4
<1> QED BY <1>1, <1>2

-----------------------------------------------------------------------------
(* Tiles of tokens over blocks of positions. *)

\* Every token of a batch is in one tile, and tiles end with the batch.
LEMMA TilesCover ==
  ASSUME NEW c, IsCall(c)
  PROVE  /\ NumTiles(c) \in Nat
         /\ \A i \in 0 .. NumTiles(c) - 1 : i * PREFILL_TOKEN_TILE < c.b
         /\ \A t \in 0 .. c.b - 1 : t \div PREFILL_TOKEN_TILE \in 0 .. NumTiles(c) - 1
<1> DEFINE T == PREFILL_TOKEN_TILE
           N == NumTiles(c)
           a == c.b + (T - 1)
<1>0. T \in Nat \ {0} /\ c.b \in Nat \ {0} /\ a \in Nat
  BY TilesAssumption DEF IsCall
<1>1. N = a \div T
  BY DEF NumTiles, DivCeil
<1>2. N \in Nat /\ N * T \in Nat /\ N * T <= a /\ a < N * T + T
  <2> HIDE DEF T, a, N
  <2> DEFINE q == a \div T
             r == a % T
  <2>1. q \in Nat /\ r \in 0 .. T - 1 /\ a = q * T + r
    BY <1>0, Divided
  <2> HIDE DEF q, r
  <2>2. q * T \in Nat
    BY <1>0, <2>1, NextProduct
  <2>3. q \in Nat /\ q * T \in Nat /\ q * T <= a /\ a < q * T + T
    BY <1>0, <2>1, <2>2
  <2> QED BY <1>1, <2>3 DEF q
<1> HIDE DEF N
<1>3. ASSUME NEW i \in 0 .. N - 1 PROVE i * T < c.b
  <2> HIDE DEF T
  <2>1. (i + 1) * T <= N * T
    BY <1>0, <1>2, ProductGrows
  <2>2. (i + 1) * T = i * T + T /\ i * T \in Nat
    BY <1>0, <1>2, NextProduct
  <2> QED BY <1>0, <1>2, <2>1, <2>2 DEF a
<1>4. ASSUME NEW t \in 0 .. c.b - 1 PROVE t \div T \in 0 .. N - 1
  <2> HIDE DEF T
  <2>0. t \in Nat
    BY <1>0
  <2> DEFINE q == t \div T
             r == t % T
  <2>1. q \in Nat /\ r \in 0 .. T - 1 /\ t = q * T + r
    BY <1>0, <2>0, Divided
  <2> HIDE DEF q, r
  <2>2. ASSUME N <= q PROVE FALSE
    <3>1. N * T <= q * T
      BY <1>0, <1>2, <2>1, <2>2, ProductGrows
    <3>2. q * T \in Nat
      BY <1>0, <2>1, NextProduct
    <3> QED BY <1>0, <1>2, <2>1, <3>1, <3>2 DEF a
  <2>3. q \in 0 .. N - 1
    BY <1>2, <2>1, <2>2
  <2> QED BY <2>3 DEF q
<1> QED BY <1>2, <1>3, <1>4 DEF N

\* What the tokens of a tile hold after some blocks of positions.
TileQuery(c, tile_start, kv_h, t) == (tile_start + t) * Heads(c) + kv_h * c.kv_mul
BlocksDone(c, kv_h, tile_start, tile_len, blocks) ==
  [t \in 0 .. tile_len - 1 |->
    GroupState(c, TileQuery(c, tile_start, kv_h, t), c.kv_mul, 0, Least(blocks * KV_TILE_BLOCK - 1, Pos(c, tile_start + t)))]

\* A block moves each token of the tile on, those that end before it not at all.
TileStep(c, kv_h, kv_mul, pos_first, pos_last, tile_start, tile_len, blocks, was) ==
  LET block_start == (blocks - 1) * KV_TILE_BLOCK
      block_end   == Least(block_start + KV_TILE_BLOCK - 1, pos_last)
  IN  [t \in 0 .. tile_len - 1 |->
        IF t \notin TileTokens(block_start, pos_first, tile_len) THEN was[t]
        ELSE online_attention_grouped_scan(c,
               (tile_start + t) * c.n_kv_heads * kv_mul + kv_h * kv_mul, kv_mul,
               block_start, Least(block_end, pos_first + t), was[t])]

LEMMA BlockMovesOn ==
  ASSUME NEW c, IsCall(c), c.sliding_window = 0, NEW kv_h \in 0 .. c.n_kv_heads - 1,
         NEW tile_start \in Nat, NEW tile_len \in Nat, tile_start + tile_len <= c.b,
         NEW blocks \in Nat \ {0}, tile_len # 0,
         (blocks - 1) * KV_TILE_BLOCK <= Pos(c, tile_start) + tile_len - 1
  PROVE  TileStep(c, kv_h, c.kv_mul, Pos(c, tile_start), Pos(c, tile_start) + tile_len - 1, tile_start, tile_len,
                  blocks, BlocksDone(c, kv_h, tile_start, tile_len, blocks - 1))
           = BlocksDone(c, kv_h, tile_start, tile_len, blocks)
<1> DEFINE B == KV_TILE_BLOCK
           m == c.kv_mul
           pos_first == Pos(c, tile_start)
           pos_last == pos_first + tile_len - 1
           block_start == (blocks - 1) * B
           block_end == Least(block_start + B - 1, pos_last)
           was == BlocksDone(c, kv_h, tile_start, tile_len, blocks - 1)
           Q(t) == TileQuery(c, tile_start, kv_h, t)
           St(t, k) == GroupState(c, Q(t), m, 0, k)
           Go(t) == IF t \notin TileTokens(block_start, pos_first, tile_len) THEN was[t]
                    ELSE online_attention_grouped_scan(c, (tile_start + t) * c.n_kv_heads * m + kv_h * m, m,
                           block_start, Least(block_end, pos_first + t), was[t])
           To(t) == St(t, Least(blocks * B - 1, Pos(c, tile_start + t)))
<1>0. /\ c.start_pos \in Nat /\ c.b \in Nat /\ B \in Nat \ {0} /\ Heads(c) = c.n_kv_heads * m
      /\ c.n_kv_heads \in Nat /\ m \in Nat /\ c.slot_count \in Nat \ {0} /\ Heads(c) \in Nat
  BY HeadsIs, TilesAssumption DEF IsCall
<1>1. block_start \in Nat /\ blocks * B = block_start + B
  <2> DEFINE k == blocks - 1
  <2>1. k \in Nat /\ blocks = k + 1
    OBVIOUS
  <2> HIDE DEF k, B
  <2>2. (k + 1) * B = k * B + B /\ k * B \in Nat
    BY <1>0, <2>1, NextProduct
  <2> QED BY <2>1, <2>2 DEF k
<1>2. pos_first \in Nat /\ pos_last \in Nat /\ block_start <= pos_last
  BY <1>0 DEF Pos
<1>3. ASSUME NEW t \in 0 .. tile_len - 1
      PROVE  Go(t) = To(t)
  <2> DEFINE pos == Pos(c, tile_start + t)
  <2>1. pos = pos_first + t /\ pos \in Nat /\ pos <= pos_last /\ tile_start + t \in 0 .. c.b - 1
    BY <1>0 DEF Pos
  <2>2. (tile_start + t) * c.n_kv_heads * m + kv_h * m = Q(t)
    <3> DEFINE a == tile_start + t
    <3>1. a \in Nat
      BY <2>1
    <3> HIDE DEF a, m
    <3>2. a * c.n_kv_heads * m = a * (c.n_kv_heads * m)
      BY <1>0, <3>1
    <3> QED BY <1>0, <3>2 DEF a, TileQuery, m
  <2>3. was[t] = St(t, Least((blocks - 1) * B - 1, pos))
    BY DEF BlocksDone
  <2>4. t \in TileTokens(block_start, pos_first, tile_len) <=> block_start <= pos
    <3> HIDE DEF block_start, pos_first, pos
    <3> QED BY <1>1, <1>2, <2>1 DEF TileTokens, SatSub
  <2>5. Q(t) \in Nat
    <3>1. (tile_start + t) * Heads(c) + kv_h * c.kv_mul \in Nat
      BY <2>1, GroupQueries
    <3> QED BY <3>1 DEF TileQuery
  <2>6. CASE ~(block_start <= pos)
    <3>1. Least(block_start - 1, pos) = pos /\ Least(blocks * B - 1, pos) = pos
      <4> HIDE DEF block_start, B, pos
      <4> QED BY <1>0, <1>1, <2>1, <2>6 DEF Least
    <3> HIDE DEF St, was, pos
    <3>2. was[t] = St(t, pos) /\ To(t) = St(t, pos)
      BY <2>3, <3>1 DEF pos
    <3> QED BY <2>4, <2>6, <3>2
  <2>7. CASE block_start <= pos
    <3> DEFINE hi == Least(blocks * B - 1, pos)
    <3>1. /\ Least(block_start - 1, pos) = block_start - 1
          /\ Least(block_end, pos_first + t) = hi
          /\ hi \in Nat /\ block_start <= hi /\ hi <= pos
      <4> HIDE DEF block_start, B, pos, pos_last, pos_first
      <4> QED BY <1>0, <1>1, <1>2, <2>1, <2>7 DEF Least
    <3>2. Held(c, block_start, hi)
      <4>1. Held(c, First(c, tile_start + t), pos) /\ First(c, tile_start + t) = 0
        BY <2>1, WindowBegins
      <4> HIDE DEF hi, block_start, pos
      <4>2. \A p \in block_start .. hi : p \in 0 .. pos
        BY <1>1, <2>1, <3>1
      <4> QED BY <4>1, <4>2 DEF Held
    <3>3. GroupScored(c, Q(t), m, 0, hi)
      <4>1. GroupScored(c, (tile_start + t) * Heads(c) + kv_h * c.kv_mul, c.kv_mul, First(c, tile_start + t), pos)
        BY <2>1, GroupIsScored
      <4>2. First(c, tile_start + t) = 0
        BY <2>1, WindowBegins
      <4>3. GroupScored(c, Q(t), m, 0, pos)
        BY <4>1, <4>2 DEF TileQuery
      <4> HIDE DEF hi, pos, Q, m
      <4>4. \A p \in 0 .. hi : p \in 0 .. pos
        BY <2>1, <3>1
      <4> QED BY <4>3, <4>4 DEF GroupScored, Scored
    <3>4. online_attention_grouped_scan(c, Q(t), m, block_start, hi, GroupState(c, Q(t), m, 0, block_start - 1))
            = GroupState(c, Q(t), m, 0, hi)
      <4> DEFINE q == Q(t)
      <4>1. 0 \in Nat /\ 0 <= block_start
        BY <1>1
      <4>2. q \in Nat /\ GroupScored(c, q, m, 0, hi)
        BY <2>5, <3>3
      <4> HIDE DEF hi, block_start, q, m
      <4>3. online_attention_grouped_scan(c, q, m, block_start, hi, GroupState(c, q, m, 0, block_start - 1))
              = GroupState(c, q, m, 0, hi)
        BY <1>0, <1>1, <3>1, <3>2, <4>1, <4>2, GroupedScan
      <4> QED BY <4>3 DEF q
    <3>5. was[t] = GroupState(c, Q(t), m, 0, block_start - 1)
      BY <2>3, <3>1
    <3>6. Go(t) = online_attention_grouped_scan(c, Q(t), m, block_start, hi, was[t])
      <4> HIDE DEF was, Q, block_end, hi, block_start, pos_first, m
      <4> QED BY <2>2, <2>4, <2>7, <3>1
    <3> HIDE DEF was, Q, hi, block_start, m, Go
    <3>7. Go(t) = GroupState(c, Q(t), m, 0, hi)
      BY <3>4, <3>5, <3>6
    <3> QED BY <3>7 DEF hi
  <2> QED BY <2>6, <2>7
<1>4. TileStep(c, kv_h, m, pos_first, pos_last, tile_start, tile_len, blocks, was) = [t \in 0 .. tile_len - 1 |-> Go(t)]
  BY DEF TileStep
<1>5. BlocksDone(c, kv_h, tile_start, tile_len, blocks) = [t \in 0 .. tile_len - 1 |-> To(t)]
  BY DEF BlocksDone
<1> HIDE DEF Go, To
<1> QED BY <1>3, <1>4, <1>5

\* All blocks up to the last position of the tile.
TilePass(c, kv_h, kv_mul, pos_first, pos_last, tile_start, tile_len, accs, f) ==
  [blocks \in 0 .. pos_last \div KV_TILE_BLOCK + 1 |->
    IF blocks = 0 THEN accs
    ELSE TileStep(c, kv_h, kv_mul, pos_first, pos_last, tile_start, tile_len, blocks, f[blocks - 1])]
TileScan(c, kv_h, kv_mul, pos_first, pos_last, tile_start, tile_len, accs) ==
  CHOOSE f : f = TilePass(c, kv_h, kv_mul, pos_first, pos_last, tile_start, tile_len, accs, f)

LEMMA TileBlocksScans ==
  ASSUME NEW c, NEW kv_h, NEW kv_mul, NEW tile_start, NEW tile_len, NEW accs
  PROVE  LET pos_first == c.start_pos + tile_start
             pos_last  == pos_first + tile_len - 1
         IN  TileBlocks(c, kv_h, kv_mul, tile_start, tile_len, accs)
               = TileScan(c, kv_h, kv_mul, pos_first, pos_last, tile_start, tile_len, accs)[pos_last \div KV_TILE_BLOCK + 1]
BY DEF TileBlocks, TileScan, TilePass, TileStep

\* A tile before its first block and after its last.
FreshTile(n, m) == [t \in 0 .. n - 1 |-> FreshStates(m)]
TileDone(c, kv_h, tile_start, tile_len) ==
  [t \in 0 .. tile_len - 1 |->
    GroupState(c, TileQuery(c, tile_start, kv_h, t), c.kv_mul, 0, Pos(c, tile_start + t))]

LEMMA TileBlocksIs ==
  ASSUME NEW c, IsCall(c), c.sliding_window = 0, NEW kv_h \in 0 .. c.n_kv_heads - 1,
         NEW tile_start \in Nat, NEW tile_len \in Nat, tile_start + tile_len <= c.b, tile_len # 0
  PROVE  TileBlocks(c, kv_h, c.kv_mul, tile_start, tile_len, FreshTile(tile_len, c.kv_mul))
           = TileDone(c, kv_h, tile_start, tile_len)
<1> DEFINE B == KV_TILE_BLOCK
           m == c.kv_mul
           pos_first == Pos(c, tile_start)
           pos_last == pos_first + tile_len - 1
           N == pos_last \div B
           n == N + 1
           fresh == FreshTile(tile_len, m)
           St(k) == BlocksDone(c, kv_h, tile_start, tile_len, k)
           Go(k, was) == TileStep(c, kv_h, m, pos_first, pos_last, tile_start, tile_len, k, was)
           W == [k \in 0 .. n |-> St(k)]
           Step(f) == TilePass(c, kv_h, m, pos_first, pos_last, tile_start, tile_len, fresh, f)
           F == TileScan(c, kv_h, m, pos_first, pos_last, tile_start, tile_len, fresh)
           To(t) == GroupState(c, TileQuery(c, tile_start, kv_h, t), m, 0, Pos(c, tile_start + t))
<1>0. B \in Nat \ {0} /\ pos_first \in Nat /\ pos_last \in Nat /\ c.start_pos \in Nat /\ c.b \in Nat
  BY TilesAssumption DEF IsCall, Pos
<1>1. /\ N \in Nat /\ n \in Nat /\ pos_last < n * B
      /\ \A k \in 1 .. n : (k - 1) * B <= pos_last
  <2> HIDE DEF B, pos_last
  <2> DEFINE r == pos_last % B
  <2>1. N \in Nat /\ r \in 0 .. B - 1 /\ pos_last = N * B + r
    BY <1>0, Divided
  <2> HIDE DEF N, r
  <2>2. N * B \in Nat /\ (N + 1) * B = N * B + B
    BY <1>0, <2>1, NextProduct
  <2>3. ASSUME NEW k \in 1 .. n PROVE (k - 1) * B <= pos_last
    <3> DEFINE j == k - 1
    <3>1. j \in Nat /\ j <= N
      BY <2>1
    <3> HIDE DEF j
    <3>2. j * B <= N * B /\ j * B \in Nat
      BY <1>0, <2>1, <3>1, ProductGrows, NextProduct
    <3>3. j * B <= pos_last
      BY <2>1, <2>2, <3>2
    <3> QED BY <3>3 DEF j
  <2> QED BY <1>0, <2>1, <2>2, <2>3
<1>2. St(0) = fresh
  <2> DEFINE at(t) == Least(0 * B - 1, Pos(c, tile_start + t))
             A(t) == GroupState(c, TileQuery(c, tile_start, kv_h, t), m, 0, at(t))
             Fresh == FreshStates(m)
  <2>1. \A t \in 0 .. tile_len - 1 : at(t) = 0 - 1
    <3> TAKE t \in 0 .. tile_len - 1
    <3>1. Pos(c, tile_start + t) \in Nat
      BY <1>0 DEF Pos
    <3>2. 0 * B = 0
      BY <1>0
    <3> QED BY <3>1, <3>2 DEF Least
  <2>2. \A t \in 0 .. tile_len - 1 : A(t) = Fresh
    <3> TAKE t \in 0 .. tile_len - 1
    <3> DEFINE q == TileQuery(c, tile_start, kv_h, t)
    <3>1. at(t) = 0 - 1
      BY <2>1
    <3> HIDE DEF m, q, at
    <3>2. GroupState(c, q, m, 0, 0 - 1) = Fresh
      BY GroupStartsFresh
    <3> QED BY <3>1, <3>2 DEF q
  <2>3. St(0) = [t \in 0 .. tile_len - 1 |-> A(t)]
    BY Zenon DEF BlocksDone
  <2>4. fresh = [t \in 0 .. tile_len - 1 |-> Fresh]
    BY Zenon DEF FreshTile
  <2> HIDE DEF A, Fresh, St, fresh
  <2> QED BY <2>2, <2>3, <2>4
<1>3. \A k \in 1 .. n : Go(k, St(k - 1)) = St(k)
  <2> TAKE k \in 1 .. n
  <2>1. k \in Nat \ {0} /\ (k - 1) * B <= pos_last
    <3> HIDE DEF n, B, pos_last
    <3> QED BY <1>1
  <2> QED BY <2>1, BlockMovesOn
<1>4. \A f : Step(f) = [k \in 0 .. n |-> IF k = 0 THEN fresh ELSE Go(k, f[k - 1])]
  BY Zenon DEF TilePass
<1> HIDE DEF fresh, St, Go, n, N
<1>5. W = Step(W)
  <2> DEFINE A(k) == St(k)
             D(k) == IF k = 0 THEN fresh ELSE Go(k, W[k - 1])
  <2>1. \A k \in 0 .. n : A(k) = D(k)
    <3> TAKE k \in 0 .. n
    <3>1. CASE k = 0
      BY <1>2, <3>1
    <3>2. CASE k \in 1 .. n
      <4>1. k - 1 \in 0 .. n /\ k # 0
        BY <1>1, <3>2
      <4>2. W[k - 1] = St(k - 1)
        BY <4>1
      <4> HIDE DEF W
      <4> QED BY <1>3, <3>2, <4>1, <4>2
    <3> QED BY <1>1, <3>1, <3>2
  <2>2. W = [k \in 0 .. n |-> A(k)] /\ Step(W) = [k \in 0 .. n |-> D(k)]
    BY <1>4, Zenon
  <2> HIDE DEF W, Step, A, D
  <2> QED BY <2>1, <2>2
<1>6. F = Step(F)
  BY <1>5, Zenon DEF TileScan
<1>7. F = W
  <2> HIDE DEF W, F
  <2>1. \A f : From0(Step(f), n) /\ Step(f)[0] = fresh
          /\ \A i \in 1 .. n : Step(f)[i] = Go(i, f[i - 1])
    <3> TAKE f
    <3>1. 0 \in 0 .. n /\ \A i \in 1 .. n : i \in 0 .. n /\ i # 0
      BY <1>1
    <3> HIDE DEF Step
    <3> QED BY <1>4, <3>1 DEF From0
  <2> HIDE DEF Step
  <2>2. Follows(F, W, n)
    BY <1>5, <1>6, <2>1 DEF Follows
  <2> QED BY <1>1, <1>5, <1>6, <2>1, <2>2, SameFromStart
<1>8. W[n] = St(n)
  <2>1. n \in 0 .. n
    BY <1>1
  <2> QED BY <2>1
<1>9. St(n) = [t \in 0 .. tile_len - 1 |-> To(t)]
  <2>1. \A t \in 0 .. tile_len - 1 : Least(n * B - 1, Pos(c, tile_start + t)) = Pos(c, tile_start + t)
    <3> TAKE t \in 0 .. tile_len - 1
    <3>1. Pos(c, tile_start + t) \in Nat /\ Pos(c, tile_start + t) <= pos_last
      BY <1>0 DEF Pos
    <3>2. n * B \in Int
      BY <1>0, <1>1
    <3> HIDE DEF pos_last
    <3> QED BY <1>0, <1>1, <3>1, <3>2 DEF Least
  <2> QED BY <2>1 DEF BlocksDone, St
<1>10. TileBlocks(c, kv_h, m, tile_start, tile_len, fresh) = F[n]
  <2> USE DEF n, N
  <2>1. pos_first = c.start_pos + tile_start
    BY DEF Pos
  <2> HIDE DEF m
  <2> QED BY <2>1, TileBlocksScans, Zenon DEF Pos
<1> HIDE DEF F, W, To, m
<1>11. TileBlocks(c, kv_h, m, tile_start, tile_len, fresh) = [t \in 0 .. tile_len - 1 |-> To(t)]
  BY <1>7, <1>8, <1>9, <1>10
<1> QED BY <1>11 DEF To, fresh, m, TileDone

\* Unit u is a tile of a KV head.
TileOf(c, u)   == u % NumTiles(c)
HeadOf(c, u)   == u \div NumTiles(c)
TileFrom(c, u) == TileOf(c, u) * PREFILL_TOKEN_TILE
TileLen(c, u)  == Least(TileFrom(c, u) + PREFILL_TOKEN_TILE, c.b) - TileFrom(c, u)

LEMMA TileBounds ==
  ASSUME NEW c, IsCall(c), NEW u \in 0 .. c.n_kv_heads * NumTiles(c) - 1
  PROVE  /\ NumTiles(c) \in Nat \ {0} /\ u = HeadOf(c, u) * NumTiles(c) + TileOf(c, u)
         /\ HeadOf(c, u) \in 0 .. c.n_kv_heads - 1 /\ TileOf(c, u) \in 0 .. NumTiles(c) - 1
         /\ TileFrom(c, u) \in Nat /\ TileLen(c, u) \in Nat \ {0} /\ TileLen(c, u) <= PREFILL_TOKEN_TILE
         /\ TileFrom(c, u) + TileLen(c, u) <= c.b
         /\ TileFrom(c, u) + TileLen(c, u) = c.b \/ TileLen(c, u) = PREFILL_TOKEN_TILE
<1> DEFINE N == NumTiles(c)
           n == c.n_kv_heads
           T == PREFILL_TOKEN_TILE
           from == TileFrom(c, u)
<1>0. n \in Nat /\ c.b \in Nat \ {0} /\ T \in Nat \ {0} /\ N \in Nat
  BY TilesCover, TilesAssumption DEF IsCall
<1>1. N # 0
  <2>1. N = 0 => n * N = 0
    BY <1>0
  <2> QED BY <2>1
<1>2. /\ u = HeadOf(c, u) * N + TileOf(c, u)
      /\ HeadOf(c, u) \in 0 .. n - 1 /\ TileOf(c, u) \in 0 .. N - 1
  <2> HIDE DEF N, n
  <2>1. u \in 0 .. n * N - 1 /\ u \in Nat
    BY DEF N, n
  <2>2. u \div N \in 0 .. n - 1 /\ u % N \in 0 .. N - 1
    BY <1>0, <1>1, <2>1, RowOf
  <2>3. u = (u \div N) * N + (u % N)
    BY <1>0, <1>1, <2>1, Divided
  <2> QED BY <2>2, <2>3 DEF HeadOf, TileOf, N
<1>3. from \in Nat /\ from < c.b
  <2> DEFINE i == TileOf(c, u)
  <2>1. i * T < c.b
    BY <1>2, TilesCover
  <2>2. i \in Nat
    BY <1>0, <1>2
  <2> HIDE DEF i, T
  <2>3. i * T \in Nat
    BY <1>0, <2>2, NextProduct
  <2> QED BY <2>1, <2>3 DEF TileFrom, i, T
<1> HIDE DEF from
<1>4. TileLen(c, u) = Least(from + T, c.b) - from
  BY DEF TileLen, from
<1> HIDE DEF T
<1>5. /\ TileLen(c, u) \in Nat \ {0} /\ TileLen(c, u) <= T /\ from + TileLen(c, u) <= c.b
      /\ from + TileLen(c, u) = c.b \/ TileLen(c, u) = T
  BY <1>0, <1>3, <1>4 DEF Least
<1> QED BY <1>0, <1>1, <1>2, <1>3, <1>5 DEF T, from

LEMMA TileUnit ==
  ASSUME NEW c, IsCall(c), c.sliding_window = 0, NEW u \in 0 .. c.n_kv_heads * NumTiles(c) - 1
  PROVE  prefill_attn_tiled_range(c, u)
           = UNION {HeadWrites(c, TileFrom(c, u) + t, HeadOf(c, u)) : t \in 0 .. TileLen(c, u) - 1}
<1> DEFINE kv_h == HeadOf(c, u)
           from == TileFrom(c, u)
           len == TileLen(c, u)
           m == c.kv_mul
           fresh == FreshTile(len, m)
           done == TileBlocks(c, kv_h, m, from, len, fresh)
           St(t) == GroupState(c, TileQuery(c, from, kv_h, t), m, 0, Pos(c, from + t))
           A(t) == GroupWrites(c, from + t, kv_h, online_attention_grouped_finalize(done[t]))
<1>0. /\ kv_h \in 0 .. c.n_kv_heads - 1 /\ from \in Nat /\ len \in Nat \ {0} /\ from + len <= c.b /\ c.b \in Nat
  BY TileBounds DEF IsCall
<1>1. prefill_attn_tiled_range(c, u) = UNION {A(t) : t \in 0 .. len - 1}
  <2> DEFINE R(kv_mul) ==
               UNION {GroupWrites(c, from + t, kv_h,
                        online_attention_grouped_finalize(
                          TileBlocks(c, kv_h, kv_mul, from, len,
                                     [s \in 0 .. len - 1 |-> [g \in 0 .. kv_mul - 1 |-> Start(Unwritten)]])[t])) :
                      t \in 0 .. len - 1}
  <2>1. Least(c.kv_mul, MAX_KV_MUL) = m
    BY GroupFitsArrays
  <2>2. prefill_attn_tiled_range(c, u) = R(Least(c.kv_mul, MAX_KV_MUL))
    BY DEF prefill_attn_tiled_range, TileFrom, TileLen, TileOf, HeadOf
  <2>3. R(m) = UNION {A(t) : t \in 0 .. len - 1}
    BY DEF FreshTile, FreshStates
  <2> HIDE DEF R, A, m
  <2> QED BY <2>1, <2>2, <2>3
<1>2. done = [t \in 0 .. len - 1 |-> St(t)]
  <2> HIDE DEF kv_h, from, len
  <2>1. len \in Nat /\ len # 0
    BY <1>0
  <2>2. TileBlocks(c, kv_h, c.kv_mul, from, len, FreshTile(len, c.kv_mul)) = TileDone(c, kv_h, from, len)
    BY <1>0, <2>1, TileBlocksIs
  <2> QED BY <2>2 DEF TileDone
<1>3. ASSUME NEW t \in 0 .. len - 1 PROVE A(t) = HeadWrites(c, from + t, kv_h)
  <2> DEFINE i == from + t
  <2>0. done[t] = St(t)
    <3> HIDE DEF done, St
    <3> QED BY <1>2
  <2>1. i \in 0 .. c.b - 1
    <3> HIDE DEF from, len
    <3> QED BY <1>0
  <2>2. First(c, i) = 0
    <3> HIDE DEF i
    <3>1. First(c, i) = IF c.sliding_window = 0 \/ Pos(c, i) < c.sliding_window THEN 0 ELSE Pos(c, i) - c.sliding_window + 1
      BY <2>1, WindowBegins
    <3> QED BY <3>1
  <2>3. online_attention_grouped_finalize(GroupState(c, i * Heads(c) + kv_h * c.kv_mul, c.kv_mul, First(c, i), Pos(c, i)))
          = HeadsOf(c, i, kv_h)
    <3> HIDE DEF i, kv_h
    <3> QED BY <1>0, <2>1, GroupFinished
  <2>4. online_attention_grouped_finalize(done[t]) = HeadsOf(c, i, kv_h)
    <3> HIDE DEF done
    <3> QED BY <2>0, <2>2, <2>3 DEF TileQuery
  <2>5. GroupWrites(c, i, kv_h, HeadsOf(c, i, kv_h)) = HeadWrites(c, i, kv_h)
    <3> HIDE DEF i, kv_h
    <3> QED BY <1>0, <2>1, GroupGoes
  <2> HIDE DEF done, kv_h, from
  <2> QED BY <2>4, <2>5
<1> HIDE DEF A, from, len, kv_h
<1>4. {A(t) : t \in 0 .. len - 1} = {HeadWrites(c, from + t, kv_h) : t \in 0 .. len - 1}
  BY <1>3
<1> QED BY <1>1, <1>4 DEF from, len, kv_h

THEOREM TilesWriteOnce ==
  ASSUME NEW c, IsCall(c), c.sliding_window = 0
  PROVE  WritesOnce(c, c.b, attention_over_kv_heads_prefill_batch_tiled(c), {})
<1> DEFINE units == attention_over_kv_heads_prefill_batch_tiled(c)
           N == NumTiles(c)
           n == c.n_kv_heads
           T == PREFILL_TOKEN_TILE
           U == 0 .. n * N - 1
           P == [u \in U |-> {<<TileFrom(c, u) + t, HeadOf(c, u)>> : t \in 0 .. TileLen(c, u) - 1}]
<1>0. n \in Nat /\ c.b \in Nat /\ c.b <= c.b /\ T \in Nat \ {0} /\ N \in Nat /\ n * N \in Nat
  <2>1. n \in Nat /\ c.b \in Nat /\ c.b <= c.b /\ T \in Nat \ {0} /\ N \in Nat
    BY TilesCover, TilesAssumption DEF IsCall
  <2> HIDE DEF N, n
  <2> QED BY <2>1, NextProduct
<1>1. DOMAIN units = U /\ \A u \in U : units[u] = UNION {HeadWrites(c, TileFrom(c, u) + t, HeadOf(c, u)) : t \in 0 .. TileLen(c, u) - 1}
  <2>1. units = [u \in U |-> prefill_attn_tiled_range(c, u)]
    BY DEF attention_over_kv_heads_prefill_batch_tiled
  <2>2. \A u \in U : prefill_attn_tiled_range(c, u) = UNION {HeadWrites(c, TileFrom(c, u) + t, HeadOf(c, u)) : t \in 0 .. TileLen(c, u) - 1}
    BY TileUnit
  <2> HIDE DEF units, U
  <2> QED BY <2>1, <2>2
<1>2. \A u \in U : /\ N \in Nat \ {0} /\ u = HeadOf(c, u) * N + TileOf(c, u)
                   /\ HeadOf(c, u) \in 0 .. n - 1 /\ TileOf(c, u) \in 0 .. N - 1
                   /\ TileFrom(c, u) \in Nat /\ TileLen(c, u) \in Nat \ {0} /\ TileLen(c, u) <= T
                   /\ TileFrom(c, u) + TileLen(c, u) <= c.b
                   /\ TileFrom(c, u) + TileLen(c, u) = c.b \/ TileLen(c, u) = T
  BY TileBounds
<1>3. \A u \in U : P[u] = {<<TileFrom(c, u) + t, HeadOf(c, u)>> : t \in 0 .. TileLen(c, u) - 1}
  <2> HIDE DEF U
  <2> QED OBVIOUS
<1> HIDE DEF units, P
<1>4. \A u \in U : P[u] \subseteq Pairs(c, c.b) /\ units[u] = UNION {HeadWrites(c, x[1], x[2]) : x \in P[u]}
  <2> TAKE u \in U
  <2> DEFINE from == TileFrom(c, u)
             len == TileLen(c, u)
             k == HeadOf(c, u)
  <2>0. from \in Nat /\ len \in Nat /\ from + len <= c.b /\ k \in 0 .. n - 1
    BY <1>2
  <2>00. P[u] = {<<from + t, k>> : t \in 0 .. len - 1} /\ units[u] = UNION {HeadWrites(c, from + t, k) : t \in 0 .. len - 1}
    BY <1>1, <1>3
  <2> HIDE DEF from, len, k
  <2>1. \A t \in 0 .. len - 1 : from + t \in 0 .. c.b - 1
    BY <1>0, <2>0
  <2>2. P[u] \subseteq Pairs(c, c.b)
    BY <2>0, <2>00, <2>1 DEF Pairs
  <2>3. {HeadWrites(c, x[1], x[2]) : x \in P[u]} = {HeadWrites(c, from + t, k) : t \in 0 .. len - 1}
    <3>1. \A x \in P[u] : \E t \in 0 .. len - 1 : x[1] = from + t /\ x[2] = k
      BY <2>00
    <3>2. \A t \in 0 .. len - 1 : <<from + t, k>> \in P[u] /\ <<from + t, k>>[1] = from + t /\ <<from + t, k>>[2] = k
      BY <2>00
    <3>3. \A x \in P[u] : HeadWrites(c, x[1], x[2]) \in {HeadWrites(c, from + t, k) : t \in 0 .. len - 1}
      BY <3>1
    <3>4. \A t \in 0 .. len - 1 : HeadWrites(c, from + t, k) \in {HeadWrites(c, x[1], x[2]) : x \in P[u]}
      BY <3>2
    <3> QED BY <3>3, <3>4
  <2> QED BY <2>00, <2>2, <2>3
<1>5. \A x \in Pairs(c, c.b) : \E u \in U : x \in P[u]
  <2> TAKE x \in Pairs(c, c.b)
  <2>1. PICK p \in 0 .. c.b - 1, k \in 0 .. n - 1 : x = <<p, k>>
    BY DEF Pairs
  <2> DEFINE i == p \div T
             r == p % T
             u == k * N + i
  <2>2. i \in 0 .. N - 1
    BY TilesCover
  <2>3. i \in Nat /\ r \in 0 .. T - 1 /\ p = i * T + r
    <3> HIDE DEF T
    <3>1. p \in Nat
      BY <1>0
    <3> QED BY <1>0, <3>1, Divided
  <2>4. u \in 0 .. n * N - 1
    <3> HIDE DEF N, n, i
    <3> QED BY <1>0, <2>2, RowEnds
  <2>5. HeadOf(c, u) = k /\ TileOf(c, u) = i
    <3> DEFINE NN == N
    <3>1. NN \in Nat \ {0} /\ k \in Nat /\ i \in 0 .. NN - 1
      BY <1>0, <2>2
    <3> HIDE DEF NN, i
    <3>2. (k * NN + i) \div NN = k /\ (k * NN + i) % NN = i
      BY <3>1, DividesInto
    <3> QED BY <3>2 DEF HeadOf, TileOf, NN
  <2> HIDE DEF u, i, r
  <2>6. TileFrom(c, u) = i * T
    BY <2>5 DEF TileFrom
  <2>7. r \in 0 .. TileLen(c, u) - 1
    <3> DEFINE from == TileFrom(c, u)
               len == TileLen(c, u)
    <3>1. from \in Nat /\ len \in Nat /\ (from + len = c.b \/ len = T) /\ p = from + r
      BY <1>2, <2>3, <2>4, <2>6
    <3> HIDE DEF from, len, T
    <3>2. r \in 0 .. len - 1
      BY <1>0, <2>3, <3>1
    <3> QED BY <3>2 DEF len
  <2>8. x = <<TileFrom(c, u) + r, HeadOf(c, u)>>
    BY <2>1, <2>3, <2>5, <2>6
  <2> QED BY <1>3, <2>4, <2>7, <2>8
<1>6. \A u, v \in U : \A x \in P[u] : x \in P[v] => u = v
  <2> SUFFICES ASSUME NEW u \in U, NEW v \in U, NEW x \in P[u], x \in P[v] PROVE u = v
    OBVIOUS
  <2>1. PICK s \in 0 .. TileLen(c, u) - 1 : x = <<TileFrom(c, u) + s, HeadOf(c, u)>>
    BY <1>3
  <2>2. PICK t \in 0 .. TileLen(c, v) - 1 : x = <<TileFrom(c, v) + t, HeadOf(c, v)>>
    BY <1>3
  <2> DEFINE i == TileOf(c, u)
             j == TileOf(c, v)
  <2>3. HeadOf(c, u) = HeadOf(c, v) /\ i * T + s = j * T + t
    BY <2>1, <2>2 DEF TileFrom
  <2>4. TileLen(c, u) \in Nat /\ TileLen(c, u) <= T /\ TileLen(c, v) \in Nat /\ TileLen(c, v) <= T /\ i \in 0 .. N - 1 /\ j \in 0 .. N - 1
    BY <1>2
  <2>5. s \in 0 .. T - 1 /\ t \in 0 .. T - 1 /\ i \in Nat /\ j \in Nat
    <3> HIDE DEF T, i, j
    <3> QED BY <1>0, <2>4
  <2>6. i = j
    <3>1. T \in Nat
      BY <1>0
    <3> HIDE DEF T, i, j
    <3> QED BY <2>3, <2>5, <3>1, OneWay
  <2>7. u = HeadOf(c, u) * N + i /\ v = HeadOf(c, v) * N + j
    BY <1>2
  <2> HIDE DEF i, j, N
  <2> QED BY <2>3, <2>6, <2>7
<1>7. SharedOut(c, c.b, P, units)
  BY <1>1, <1>4, <1>5, <1>6 DEF SharedOut
<1>8. WritesOnce(c, c.b, units, {})
  BY <1>0, <1>7, WritesOnceIfSharedOut
<1> QED BY <1>8 DEF units

\* Every scan weighs every row of a token's window once, for calls of every
\* shape, window, batch and place in the ring.
THEOREM AttentionVisitsRows ==
  ASSUME NEW c, IsCall(c)
  PROVE  VisitsWindowOnce(c)
BY SinkWritesOnce, HeadsWriteOnce, BatchesWriteOnce, TilesWriteOnce DEF VisitsWindowOnce

-----------------------------------------------------------------------------
(* One row and one matrix. *)

\* Any machine: an architecture, any number of threads, and a Metal device
\* that takes any of its calls.
Targets == {"arm", "x86", "other", "wasm"}
MetalCalls == {"q4k", "q6k", "q4k2", "q6k2", "q4k3", "q6k3", "q4k_q4k_q6k"}
IsMachine(m) ==
  m \in [arch : Targets, simd : BOOLEAN, threads : Nat, metal : SUBSET MetalCalls]
IsMatrix(w) == w.kind \in DOMAIN BlockBytes /\ w.rows \in Nat /\ w.cols \in Nat /\ w.bytes \in Int

\* The token whose quantised activations a row of w is multiplied with.
XqOf(m, w, t) == prepare_xq(m, w.kind, w.cols, t)
\* Row r on token t.
Element(m, w, r, t) == dot_row(m, w, XqOf(m, w, t), r, t)
\* What n tokens of a matrix are.
Outputs(m, w, n)   == {<<t * w.rows + r, Element(m, w, r, t)>> : t \in 0 .. n - 1, r \in 0 .. w.rows - 1}
MetalOutputs(w, n) == UNION {AloneOnMetal(w, t) : t \in 0 .. n - 1}

LEMMA QuantisedForIts ==
  ASSUME NEW m, NEW cols, NEW kind, NEW t \in Nat
  PROVE  /\ prepare_xq_kquant(m, cols, t) \in {t, NoXq} /\ prepare_xq(m, kind, cols, t) \in {t, NoXq}
         /\ t # NoXq
         /\ m.arch = "wasm" => prepare_xq_kquant(m, cols, t) = NoXq /\ prepare_xq(m, kind, cols, t) = NoXq
BY DEF prepare_xq_kquant, prepare_xq, NoXq

\* Kernels that read no quantised activations get the same element from them.
LEMMA SameElement ==
  ASSUME NEW m, NEW w, NEW r, NEW t
  PROVE  dot_row(m, w, prepare_xq_kquant(m, w.cols, t), r, t) = Element(m, w, r, t)
<1>1. CASE matvec_kind_uses_xq(w.kind)
  BY <1>1 DEF Element, XqOf, prepare_xq
<1>2. CASE ~matvec_kind_uses_xq(w.kind)
  BY <1>2 DEF Element, dot_row
<1> QED BY <1>1, <1>2

LEMMA FieldsDiffer ==
  "x" # "xq" /\ "x" # "at" /\ "x" # "kernel" /\ "xq" # "at" /\ "xq" # "kernel" /\ "at" # "kernel"
OBVIOUS

RowProduct(kernel, at, t, q) == [kernel |-> kernel, at |-> at, x |-> t, xq |-> q]

\* Another token, and other activations.
ForToken(d, u)   == [d EXCEPT !.x = u]
ForBoth(d, u, v) == [d EXCEPT !.x = u, !.xq = v]

LEMMA Replaced ==
  ASSUME NEW k, NEW a, NEW t, NEW q, NEW u, NEW v
  PROVE  /\ ForToken(RowProduct(k, a, t, q), u) = RowProduct(k, a, u, q)
         /\ ForBoth(RowProduct(k, a, t, q), u, v) = RowProduct(k, a, u, v)
<1>1. [RowProduct(k, a, t, q) EXCEPT !.x = u] = RowProduct(k, a, u, q)
  BY FieldsDiffer, SMT DEF RowProduct
<1>2. [RowProduct(k, a, u, q) EXCEPT !.xq = v] = RowProduct(k, a, u, v)
  BY FieldsDiffer, SMT DEF RowProduct
<1>3. [RowProduct(k, a, t, q) EXCEPT !.x = u, !.xq = v] = [[RowProduct(k, a, t, q) EXCEPT !.x = u] EXCEPT !.xq = v]
  OBVIOUS
<1> QED BY <1>1, <1>2, <1>3 DEF ForToken, ForBoth

\* What Alone makes of token 0.
OnToken(d, t) == ForBoth(d, t, IF d.xq = NoXq THEN NoXq ELSE t)

\* What token 0 gets becomes what token t gets.
LEMMA ElementMoves ==
  ASSUME NEW m, NEW w, NEW r, NEW t \in Nat
  PROVE  /\ OnToken(Element(m, w, r, 0), t) = Element(m, w, r, t)
         /\ m.arch = "wasm" => ForToken(Element(m, w, r, 0), t) = Element(m, w, r, t)
<1> DEFINE at == r * row_bytes(w.kind, w.cols)
           quantised == matvec_kind_uses_xq(w.kind) /\ m.arch \in {"arm", "x86"} /\ w.cols >= 256 /\ w.cols % 256 = 0 /\ m.simd
           kernel == float_kernel(m, w.kind)
           On(u)  == RowProduct("q8k", at, u, u)
           Off(u) == RowProduct(kernel, at, u, NoXq)
<1>1. \A u \in Nat : XqOf(m, w, u) = IF quantised THEN u ELSE NoXq
  BY DEF XqOf, prepare_xq, prepare_xq_kquant
<1>2. \A u \in Nat : Element(m, w, r, u) = IF quantised THEN On(u) ELSE Off(u)
  BY <1>1 DEF Element, dot_row, NoXq, RowProduct
<1>3. m.arch = "wasm" => ~quantised
  OBVIOUS
<1>4. /\ Element(m, w, r, 0) = IF quantised THEN On(0) ELSE Off(0)
      /\ Element(m, w, r, t) = IF quantised THEN On(t) ELSE Off(t)
  BY <1>2
<1>5. OnToken(On(0), t) = On(t)
  <2>1. On(0).xq # NoXq
    BY DEF NoXq, RowProduct
  <2>2. ForBoth(On(0), t, t) = On(t)
    BY Replaced
  <2> HIDE DEF On
  <2> QED BY <2>1, <2>2 DEF OnToken
<1>6. OnToken(Off(0), t) = Off(t) /\ ForToken(Off(0), t) = Off(t)
  <2>1. Off(0).xq = NoXq
    BY DEF RowProduct
  <2>2. ForBoth(Off(0), t, NoXq) = Off(t) /\ ForToken(Off(0), t) = Off(t)
    BY Replaced
  <2> HIDE DEF Off
  <2> QED BY <2>1, <2>2 DEF OnToken
<1> HIDE DEF quantised, On, Off
<1> QED BY <1>3, <1>4, <1>5, <1>6

LEMMA ParallelRows ==
  ASSUME NEW m, NEW w
  PROVE  parallel_matvec(m, w) = Rows(m, w, XqOf(m, w, 0), 0)
<1>1. m.arch = "wasm" => XqOf(m, w, 0) = NoXq
  BY QuantisedForIts DEF XqOf
<1> QED BY <1>1, Zenon DEF parallel_matvec, XqOf

\* Token t of a matrix by itself.
LEMMA AloneIs ==
  ASSUME NEW m, IsMachine(m), NEW w, NEW t \in Nat
  PROVE  Alone(m, w, t) = {<<r + t * w.rows, Element(m, w, r, t)>> : r \in 0 .. w.rows - 1}
<1> DEFINE bare == [m EXCEPT !.metal = {}]
           row(r) == <<r, Element(m, w, r, 0)>>
           moved(e) == <<e[1] + t * w.rows, OnToken(e[2], t)>>
<1>1. bare.arch = m.arch /\ bare.simd = m.simd /\ bare.metal = {}
  BY DEF IsMachine
<1>2. ~TakenSingly(bare, w)
  BY <1>1 DEF TakenSingly, Takes
<1> HIDE DEF bare
<1>3. matvec_into(bare, w) = Rows(bare, w, XqOf(bare, w, 0), 0)
  BY <1>2, ParallelRows, Zenon DEF matvec_into, matvec_k_into, matvec_small_into
<1>4. XqOf(bare, w, 0) = XqOf(m, w, 0)
  BY <1>1 DEF XqOf, prepare_xq, prepare_xq_kquant
<1>5. \A x, r : dot_row(bare, w, x, r, 0) = dot_row(m, w, x, r, 0)
  BY <1>1 DEF dot_row, float_kernel
<1>6. matvec_into(bare, w) = {row(r) : r \in 0 .. w.rows - 1}
  BY <1>3, <1>4, <1>5, Zenon DEF Rows, Element
<1>7. Alone(m, w, t) = {moved(e) : e \in matvec_into(bare, w)}
  BY Zenon DEF Alone, bare, OnToken, ForBoth
<1>8. \A r : moved(row(r)) = <<r + t * w.rows, Element(m, w, r, t)>>
  <2> TAKE r
  <2> DEFINE was == Element(m, w, r, 0)
             is == Element(m, w, r, t)
  <2>1. OnToken(was, t) = is
    BY ElementMoves
  <2> HIDE DEF was, is
  <2>2. row(r)[1] = r /\ row(r)[2] = was
    BY DEF was
  <2> HIDE DEF row
  <2> QED BY <2>1, <2>2 DEF is
<1> HIDE DEF row, moved
<1> QED BY <1>6, <1>7, <1>8

LEMMA OutputsAlone ==
  ASSUME NEW m, IsMachine(m), NEW w, IsMatrix(w), NEW n \in Nat
  PROVE  UNION {Alone(m, w, t) : t \in 0 .. n - 1} = Outputs(m, w, n)
<1> DEFINE A(t) == Alone(m, w, t)
<1>1. \A t \in 0 .. n - 1 : A(t) = {<<t * w.rows + r, Element(m, w, r, t)>> : r \in 0 .. w.rows - 1}
  <2> TAKE t \in 0 .. n - 1
  <2>1. A(t) = {<<r + t * w.rows, Element(m, w, r, t)>> : r \in 0 .. w.rows - 1}
    BY AloneIs
  <2>2. \A r \in 0 .. w.rows - 1 : r + t * w.rows = t * w.rows + r
    <3>1. t * w.rows \in Nat
      BY NextProduct DEF IsMatrix
    <3> QED BY <3>1 DEF IsMatrix
  <2> HIDE DEF A
  <2> QED BY <2>1, <2>2, Zenon
<1> HIDE DEF A
<1>2. UNION {A(t) : t \in 0 .. n - 1} = Outputs(m, w, n)
  <2> DEFINE B(t, r) == <<t * w.rows + r, Element(m, w, r, t)>>
  <2>1. /\ \A t \in 0 .. n - 1 : A(t) = {B(t, r) : r \in 0 .. w.rows - 1}
        /\ Outputs(m, w, n) = {B(t, r) : t \in 0 .. n - 1, r \in 0 .. w.rows - 1}
    BY <1>1 DEF Outputs
  <2> HIDE DEF B
  <2> QED BY <2>1
<1> QED BY <1>2 DEF A

\* A single token.
LEMMA OneToken ==
  ASSUME NEW m, IsMachine(m), NEW w, IsMatrix(w)
  PROVE  Outputs(m, w, 1) = Rows(m, w, XqOf(m, w, 0), 0) /\ MetalOutputs(w, 1) = OnMetal(w)
<1> DEFINE A(r) == <<0 * w.rows + r, Element(m, w, r, 0)>>
           B(r) == <<r, Element(m, w, r, 0)>>
           C(r) == [kernel |-> "metal", at |-> r * row_bytes(w.kind, w.cols), x |-> 0, xq |-> NoXq]
           moved(e) == <<e[1] + 0 * w.rows, ForToken(e[2], 0)>>
<1>1. 0 .. 1 - 1 = {0} /\ 0 * w.rows = 0
  BY DEF IsMatrix
<1>2. Outputs(m, w, 1) = {A(r) : r \in 0 .. w.rows - 1}
  BY <1>1 DEF Outputs
<1>3. Rows(m, w, XqOf(m, w, 0), 0) = {B(r) : r \in 0 .. w.rows - 1}
  BY DEF Rows, Element
<1>4. \A r \in 0 .. w.rows - 1 : A(r) = B(r)
  <2> TAKE r \in 0 .. w.rows - 1
  <2>1. 0 + r = r
    BY DEF IsMatrix
  <2> QED BY <1>1, <2>1
<1>5. OnMetal(w) = {<<r, C(r)>> : r \in 0 .. w.rows - 1}
  BY DEF OnMetal
<1>6. AloneOnMetal(w, 0) = {moved(e) : e \in OnMetal(w)}
  BY Zenon DEF AloneOnMetal, ForToken
<1>7. \A r \in 0 .. w.rows - 1 : moved(<<r, C(r)>>) = <<r, C(r)>>
  <2> TAKE r \in 0 .. w.rows - 1
  <2>1. C(r) = RowProduct("metal", r * row_bytes(w.kind, w.cols), 0, NoXq)
    BY DEF RowProduct
  <2>2. ForToken(C(r), 0) = C(r)
    <3> HIDE DEF C
    <3> QED BY <2>1, Replaced
  <2>3. r + 0 * w.rows = r
    BY <1>1 DEF IsMatrix
  <2> HIDE DEF C
  <2> QED BY <2>2, <2>3
<1>8. MetalOutputs(w, 1) = AloneOnMetal(w, 0)
  BY <1>1 DEF MetalOutputs
<1> HIDE DEF A, B, C, moved
<1> QED BY <1>2, <1>3, <1>4, <1>5, <1>6, <1>7, <1>8

(* Rows that are whole blocks. *)

LEMMA BlocksHaveBytes ==
  ASSUME NEW kind \in DOMAIN BlockBytes
  PROVE  BlockBytes[kind] \in Nat \ {0} /\ block_size(kind) \in {32, 256}
BY DEF BlockBytes, block_size

LEMMA RowBytes ==
  ASSUME NEW kind \in DOMAIN BlockBytes, NEW cols \in Nat
  PROVE  /\ row_bytes(kind, cols) \in Nat
         /\ row_bytes(kind, cols) # 0 <=> cols # 0 /\ cols % block_size(kind) = 0
<1> DEFINE B == BlockBytes[kind]
           s == block_size(kind)
           n == cols \div s
<1>1. B \in Nat \ {0} /\ s \in {32, 256}
  BY BlocksHaveBytes
<1> HIDE DEF B, s
<1>2. n \in Nat /\ (cols # 0 /\ cols % s = 0 => n # 0)
  <2>1. CASE s = 32
    BY <2>1
  <2>2. CASE s = 256
    BY <2>2
  <2> QED BY <1>1, <2>1, <2>2
<1> HIDE DEF n
<1>3. n * B \in Nat /\ (n # 0 => n * B # 0)
  <2>1. n * B \in Nat
    BY <1>1, <1>2, NextProduct
  <2>2. ASSUME n # 0 PROVE 1 * B <= n * B
    BY <1>1, <1>2, <2>2, ProductGrows
  <2> QED BY <1>1, <2>1, <2>2
<1>4. row_bytes(kind, cols) = IF cols = 0 \/ cols % s # 0 THEN 0 ELSE n * B
  BY DEF row_bytes, B, s, n
<1> QED BY <1>2, <1>3, <1>4 DEF s

\* The rows of a matrix lie one after the other in its bytes.
LEMMA RowsLie ==
  ASSUME NEW w, IsMatrix(w), NEW r \in 0 .. w.rows - 1
  PROVE  r * row_bytes(w.kind, w.cols) + row_bytes(w.kind, w.cols) <= BytesOf(w)
<1> DEFINE B == row_bytes(w.kind, w.cols)
           n == w.rows
<1>1. B \in Nat /\ n \in Nat /\ r \in Nat /\ r + 1 <= n
  BY RowBytes DEF IsMatrix
<1> HIDE DEF B, n
<1>2. (r + 1) * B <= n * B /\ (r + 1) * B = r * B + B
  BY <1>1, ProductGrows, NextProduct
<1> QED BY <1>2 DEF BytesOf, B, n

\* Every output of a matrix is one of its rows.
LEMMA OutputsAreRows ==
  ASSUME NEW m, NEW w, IsMatrix(w), NEW n \in Nat
  PROVE  \A e \in Outputs(m, w, n) \cup MetalOutputs(w, n) :
           \E r \in 0 .. w.rows - 1 : e[2].at = r * row_bytes(w.kind, w.cols)
<1>1. ASSUME NEW e \in Outputs(m, w, n)
      PROVE  \E r \in 0 .. w.rows - 1 : e[2].at = r * row_bytes(w.kind, w.cols)
  <2>1. PICK t \in 0 .. n - 1, r \in 0 .. w.rows - 1 : e = <<t * w.rows + r, Element(m, w, r, t)>>
    BY <1>1 DEF Outputs
  <2>2. Element(m, w, r, t).at = r * row_bytes(w.kind, w.cols)
    BY DEF Element, dot_row
  <2>3. e[2] = Element(m, w, r, t)
    BY <2>1
  <2> QED BY <2>2, <2>3
<1>2. ASSUME NEW e \in MetalOutputs(w, n)
      PROVE  \E r \in 0 .. w.rows - 1 : e[2].at = r * row_bytes(w.kind, w.cols)
  <2>1. PICK t \in 0 .. n - 1 : e \in AloneOnMetal(w, t)
    BY <1>2 DEF MetalOutputs
  <2>2. PICK d \in OnMetal(w) : e = <<d[1] + t * w.rows, ForToken(d[2], t)>>
    BY <2>1, Zenon DEF AloneOnMetal, ForToken
  <2>3. PICK r \in 0 .. w.rows - 1 : d = <<r, RowProduct("metal", r * row_bytes(w.kind, w.cols), 0, NoXq)>>
    BY <2>2 DEF OnMetal, RowProduct
  <2>4. d[2] = RowProduct("metal", r * row_bytes(w.kind, w.cols), 0, NoXq)
    BY <2>3
  <2>5. e[2] = RowProduct("metal", r * row_bytes(w.kind, w.cols), t, NoXq)
    BY <2>2, <2>4, Replaced
  <2>6. e[2].at = r * row_bytes(w.kind, w.cols)
    BY <2>5 DEF RowProduct
  <2> QED BY <2>6
<1> QED BY <1>1, <1>2

(* Projections of one vector. *)

AreMatrices(ws) == 1 \in DOMAIN ws /\ \A k \in DOMAIN ws : IsMatrix(ws[k])
Fits(ws, len)   == SameCols(ws, len) /\ WholeBlocks(ws) /\ EnoughBytes(ws)

\* Each matrix's rows, computed here or by Metal.
OneVector(m, ws, out) ==
  \A k \in DOMAIN ws :
    \/ out[k] = Rows(m, ws[k], XqOf(m, ws[k], 0), 0)
    \/ m.metal # {} /\ out[k] = OnMetal(ws[k])

\* Only Metal may take a call before its bytes are counted.
AnswersOne(m, ws, len, res) ==
  res.ok => SameCols(ws, len) /\ WholeBlocks(ws) /\ (EnoughBytes(ws) \/ m.metal # {}) /\ OneVector(m, ws, res.out)

LEMMA DoneIs ==
  ASSUME NEW out
  PROVE  Done(out).ok /\ Done(out).out = out /\ ~Refused.ok
BY DEF Done, Refused

LEMMA FusedRows ==
  ASSUME NEW m, NEW ws, NEW len, 1 \in DOMAIN ws, SameCols(ws, len)
  PROVE  OneVector(m, ws, Fused(m, ws))
<1> DEFINE xq == prepare_xq_kquant(m, ws[1].cols, 0)
<1>1. ASSUME NEW k \in DOMAIN ws
      PROVE  Fused(m, ws)[k] = Rows(m, ws[k], XqOf(m, ws[k], 0), 0)
  <2>1. Fused(m, ws)[k] = Rows(m, ws[k], xq, 0)
    BY DEF Fused
  <2>2. xq = prepare_xq_kquant(m, ws[k].cols, 0)
    BY DEF SameCols
  <2> HIDE DEF xq
  <2>3. \A r : dot_row(m, ws[k], xq, r, 0) = dot_row(m, ws[k], XqOf(m, ws[k], 0), r, 0)
    <3> TAKE r
    <3>1. dot_row(m, ws[k], prepare_xq_kquant(m, ws[k].cols, 0), r, 0) = Element(m, ws[k], r, 0)
      BY SameElement
    <3> QED BY <2>2, <3>1 DEF Element
  <2> QED BY <2>1, <2>3, Zenon DEF Rows
<1> QED BY <1>1 DEF OneVector

LEMMA MetalTakes ==
  ASSUME NEW m, NEW call, NEW ws, Takes(m, call, ws)
  PROVE  m.metal # {} /\ \A k \in DOMAIN ws : ws[k].cols # 0 /\ ws[k].cols % 256 = 0
BY DEF Takes

LEMMA AllMetal ==
  ASSUME NEW m, NEW call, NEW ws, Takes(m, call, ws)
  PROVE  OneVector(m, ws, AllOnMetal(ws))
BY MetalTakes DEF OneVector, AllOnMetal

LEMMA TryMetal ==
  ASSUME NEW m, NEW ws, try_quant_metal(m, ws).ok
  PROVE  OneVector(m, ws, try_quant_metal(m, ws).out)
<1> DEFINE used == {k \in DOMAIN ws : TakenSingly(m, ws[k])}
           each == [k \in DOMAIN ws |-> IF k \in used THEN OnMetal(ws[k]) ELSE parallel_matvec(m, ws[k])]
<1>1. CASE Takes(m, MetalCall(ws), ws)
  <2>1. try_quant_metal(m, ws) = Done(AllOnMetal(ws))
    BY <1>1 DEF try_quant_metal
  <2> QED BY <1>1, <2>1, AllMetal, DoneIs
<1>2. CASE ~Takes(m, MetalCall(ws), ws)
  <2>1. try_quant_metal(m, ws) = IF used = {} THEN Refused ELSE Done(each)
    BY <1>2, Zenon DEF try_quant_metal
  <2>2. try_quant_metal(m, ws).out = each
    <3> HIDE DEF each, used
    <3> QED BY <2>1, DoneIs
  <2>3. ASSUME NEW k \in DOMAIN ws
        PROVE  \/ each[k] = Rows(m, ws[k], XqOf(m, ws[k], 0), 0)
               \/ m.metal # {} /\ each[k] = OnMetal(ws[k])
    <3>1. CASE k \in used
      <4>1. m.metal # {}
        BY <3>1, MetalTakes DEF TakenSingly
      <4> QED BY <3>1, <4>1
    <3>2. CASE k \notin used
      <4>1. each[k] = parallel_matvec(m, ws[k])
        BY <3>2
      <4> QED BY <4>1, ParallelRows
    <3> QED BY <3>1, <3>2
  <2> HIDE DEF each
  <2> QED BY <2>2, <2>3 DEF OneVector
<1> QED BY <1>1, <1>2

\* Every entry point of one vector answers so; those that may refuse a call
\* that fits do it for mixed K-quants.
LEMMA FusedAnswers ==
  ASSUME NEW m, NEW ws, NEW len, AreMatrices(ws)
  PROVE  /\ AnswersOne(m, ws, len, matvec_quant3_into(m, ws, len))
         /\ AnswersOne(m, ws, len, matvec_quant2_into(m, ws, len))
         /\ AnswersOne(m, ws, len, matvec_kquant3_into(m, ws, len))
         /\ AnswersOne(m, ws, len, matvec_q4_k3_into(m, ws, len))
         /\ AnswersOne(m, ws, len, matvec_q4_k2_into(m, ws, len))
         /\ AnswersOne(m, ws, len, matvec_k2_into(m, ws, len))
<1> DEFINE metal == try_quant_metal(m, ws)
<1>0. 1 \in DOMAIN ws
  BY DEF AreMatrices
<1>1. metal.ok => OneVector(m, ws, metal.out)
  BY TryMetal
<1>2. SameCols(ws, len) => OneVector(m, ws, Fused(m, ws))
  BY <1>0, FusedRows
<1>3. Takes(m, MetalCall(ws), ws) => OneVector(m, ws, AllOnMetal(ws))
  BY AllMetal
<1>4. /\ ~Refused.ok /\ Done(Fused(m, ws)).out = Fused(m, ws) /\ Done(AllOnMetal(ws)).out = AllOnMetal(ws)
  BY DoneIs
<1> HIDE DEF metal
<1>5. /\ AnswersOne(m, ws, len, Refused)
      /\ Fits(ws, len) /\ metal.ok => AnswersOne(m, ws, len, metal)
      /\ Fits(ws, len) => AnswersOne(m, ws, len, Done(Fused(m, ws)))
      /\ Fits(ws, len) /\ Takes(m, MetalCall(ws), ws) => AnswersOne(m, ws, len, Done(AllOnMetal(ws)))
  BY <1>1, <1>2, <1>3, <1>4, Zenon DEF AnswersOne, Fits
<1>6. AnswersOne(m, ws, len, matvec_quant3_into(m, ws, len))
  BY <1>5, Zenon DEF matvec_quant3_into, Fits, metal
<1>7. AnswersOne(m, ws, len, matvec_quant2_into(m, ws, len))
  BY <1>5, Zenon DEF matvec_quant2_into, Fits, metal
<1>8. AnswersOne(m, ws, len, matvec_kquant3_into(m, ws, len))
  BY <1>5, Zenon DEF matvec_kquant3_into, Fits, metal
<1>9. AnswersOne(m, ws, len, matvec_q4_k3_into(m, ws, len))
  BY <1>5, Zenon DEF matvec_q4_k3_into, Fits
<1>10. AnswersOne(m, ws, len, matvec_k2_into(m, ws, len))
  BY <1>5, Zenon DEF matvec_k2_into, Fits
<1> QED BY <1>6, <1>7, <1>8, <1>9, <1>10 DEF matvec_q4_k2_into

LEMMA Q6KAnswers ==
  ASSUME NEW m, NEW ws, NEW len, AreMatrices(ws)
  PROVE  /\ AnswersOne(m, ws, len, matvec_q6_k_fused_into(m, ws, len))
         /\ AnswersOne(m, ws, len, matvec_q5_k_fused_into(m, ws, len))
<1>1. AnswersOne(m, ws, len, matvec_kquant3_into(m, ws, len)) /\ AnswersOne(m, ws, len, matvec_k2_into(m, ws, len))
  BY FusedAnswers
<1>2. AnswersOne(m, ws, len, matvec_q5_k_fused_into(m, ws, len))
  BY <1>1 DEF matvec_q5_k_fused_into
<1>3. CASE SameCols(ws, len) /\ Takes(m, MetalCall(ws), ws)
  <2>1. matvec_q6_k_fused_into(m, ws, len) = Done(AllOnMetal(ws))
    BY <1>3 DEF matvec_q6_k_fused_into
  <2>2. m.metal # {} /\ \A k \in DOMAIN ws : ws[k].cols # 0 /\ ws[k].cols % 256 = 0
    BY <1>3, MetalTakes
  <2>3. WholeBlocks(ws)
    <3> SUFFICES ASSUME NEW k \in DOMAIN ws PROVE row_bytes(ws[k].kind, ws[k].cols) # 0
      BY DEF WholeBlocks
    <3> DEFINE kind == ws[k].kind
               cols == ws[k].cols
    <3>1. kind \in DOMAIN BlockBytes /\ cols \in Nat /\ cols # 0 /\ cols % 256 = 0
      BY <2>2 DEF AreMatrices, IsMatrix
    <3> HIDE DEF kind, cols
    <3>2. block_size(kind) \in {32, 256}
      BY <3>1, BlocksHaveBytes
    <3>3. cols % block_size(kind) = 0
      BY <3>1, <3>2
    <3>4. row_bytes(kind, cols) # 0
      BY <3>1, <3>3, RowBytes
    <3> QED BY <3>4 DEF kind, cols
  <2>4. OneVector(m, ws, AllOnMetal(ws)) /\ Done(AllOnMetal(ws)).out = AllOnMetal(ws)
    BY <1>3, AllMetal, DoneIs
  <2>5. SameCols(ws, len) /\ m.metal # {}
    BY <1>3, <2>2
  <2>6. AnswersOne(m, ws, len, Done(AllOnMetal(ws)))
    BY <2>3, <2>4, <2>5, Zenon DEF AnswersOne
  <2> QED BY <1>2, <2>1, <2>6
<1>4. CASE ~(SameCols(ws, len) /\ Takes(m, MetalCall(ws), ws))
  BY <1>1, <1>2, <1>4, Zenon DEF matvec_q6_k_fused_into
<1> QED BY <1>3, <1>4

\* What fits is answered, but for mixed K-quants.
LEMMA FittingIsAnswered ==
  ASSUME NEW m, NEW ws, NEW len, Fits(ws, len)
  PROVE  /\ ~matvec_quant3_into(m, ws, len).ok => is_mixed_kquant3(ws[1].kind, ws[2].kind, ws[3].kind)
         /\ matvec_quant2_into(m, ws, len).ok /\ matvec_kquant3_into(m, ws, len).ok
         /\ matvec_q4_k3_into(m, ws, len).ok /\ matvec_q4_k2_into(m, ws, len).ok
         /\ matvec_k2_into(m, ws, len).ok
         /\ matvec_q5_k_fused_into(m, ws, len).ok /\ matvec_q6_k_fused_into(m, ws, len).ok
<1>1. Done(Fused(m, ws)).ok /\ Done(AllOnMetal(ws)).ok
  BY DoneIs
<1>2. ~matvec_quant3_into(m, ws, len).ok => is_mixed_kquant3(ws[1].kind, ws[2].kind, ws[3].kind)
  BY <1>1, Zenon DEF matvec_quant3_into, Fits
<1>3. matvec_quant2_into(m, ws, len).ok
  BY <1>1, Zenon DEF matvec_quant2_into, Fits
<1>4. matvec_kquant3_into(m, ws, len).ok
  BY <1>1, Zenon DEF matvec_kquant3_into, Fits
<1>5. matvec_q4_k3_into(m, ws, len).ok
  BY <1>1, Zenon DEF matvec_q4_k3_into, Fits
<1>6. matvec_k2_into(m, ws, len).ok
  BY <1>1, Zenon DEF matvec_k2_into, Fits
<1> QED BY <1>1, <1>2, <1>3, <1>4, <1>5, <1>6, Zenon
        DEF matvec_q4_k2_into, matvec_q5_k_fused_into, matvec_q6_k_fused_into

(* Batches of vectors. *)

LEMMA QuantisedTogether ==
  ASSUME NEW m, NEW cols \in Nat, NEW t
  PROVE  xq_for_token(m, cols, t) = prepare_xq_kquant(m, cols, t)
<1>1. cols # 0 /\ cols % 256 = 0 => cols >= 256
  OBVIOUS
<1> QED BY <1>1 DEF xq_for_token, prepare_xq_kquant, BatchQuantised

\* A lane gets what its token gets alone.
LEMMA LaneElement ==
  ASSUME NEW m, NEW w, NEW tokens, NEW xqs, NEW r, NEW k \in DOMAIN tokens, k \in DOMAIN xqs,
         xqs[k] = prepare_xq_kquant(m, w.cols, tokens[k])
  PROVE  dot_row_x4(m, w, tokens, xqs, r)[k] = Element(m, w, r, tokens[k])
<1> DEFINE together == Len(tokens) = KQUANT_BATCH_TOKENS /\ (\A i \in DOMAIN xqs : xqs[i] # NoXq) /\ w.kind \in KQuants
<1>1. dot_row_x4(m, w, tokens, xqs, r)[k]
        = IF together
          THEN [kernel |-> "q8k", at |-> r * row_bytes(w.kind, w.cols), x |-> tokens[k], xq |-> xqs[k]]
          ELSE dot_row(m, w, xqs[k], r, tokens[k])
  BY DEF dot_row_x4
<1>2. dot_row(m, w, xqs[k], r, tokens[k]) = Element(m, w, r, tokens[k])
  BY SameElement
<1>3. together => matvec_kind_uses_xq(w.kind) /\ xqs[k] # NoXq
  BY DEF matvec_kind_uses_xq, KQuants
<1>4. together => dot_row(m, w, xqs[k], r, tokens[k])
                    = [kernel |-> "q8k", at |-> r * row_bytes(w.kind, w.cols), x |-> tokens[k], xq |-> xqs[k]]
  BY <1>3, Zenon DEF dot_row
<1> HIDE DEF together
<1> QED BY <1>1, <1>2, <1>4

\* Whole tokens.
LEMMA TokensOwned ==
  ASSUME NEW m, NEW w, IsMatrix(w), NEW n \in Nat
  PROVE  run_token_worker(m, w, n) = Outputs(m, w, n)
<1> DEFINE A(t, r) == <<t * w.rows + r, dot_row(m, w, xq_for_token(m, w.cols, t), r, t)>>
           B(t, r) == <<t * w.rows + r, Element(m, w, r, t)>>
<1>1. \A t, r : A(t, r) = B(t, r)
  <2> TAKE t, r
  <2>1. xq_for_token(m, w.cols, t) = prepare_xq_kquant(m, w.cols, t)
    BY QuantisedTogether DEF IsMatrix
  <2>2. dot_row(m, w, prepare_xq_kquant(m, w.cols, t), r, t) = Element(m, w, r, t)
    BY SameElement
  <2> QED BY <2>1, <2>2
<1>2. /\ run_token_worker(m, w, n) = {A(t, r) : t \in 0 .. n - 1, r \in 0 .. w.rows - 1}
      /\ Outputs(m, w, n) = {B(t, r) : t \in 0 .. n - 1, r \in 0 .. w.rows - 1}
  BY DEF run_token_worker, Outputs
<1> HIDE DEF A, B
<1> QED BY <1>1, <1>2

\* The groups of tokens: each starts at a multiple of the stride, and they
\* cover every token.
LEMMA LaneGroups ==
  ASSUME NEW n \in Nat, NEW s \in Nat \ {0}
  PROVE  /\ \A base \in {t \in 0 .. n - 1 : t % s = 0} : \A k \in DOMAIN LaneGroup(base, s, n) :
              LaneGroup(base, s, n)[k] = base + k - 1 /\ base + k - 1 \in 0 .. n - 1
         /\ \A t \in 0 .. n - 1 : \E base \in {u \in 0 .. n - 1 : u % s = 0} :
              \E k \in DOMAIN LaneGroup(base, s, n) : base + k - 1 = t
<1> DEFINE size(base) == IF n - base < s THEN n - base ELSE s
<1>1. \A base : LaneGroup(base, s, n) = [k \in 1 .. size(base) |-> base + k - 1]
  BY DEF LaneGroup
<1>2. ASSUME NEW base \in 0 .. n - 1, NEW k \in DOMAIN LaneGroup(base, s, n)
      PROVE  LaneGroup(base, s, n)[k] = base + k - 1 /\ base + k - 1 \in 0 .. n - 1
  <2>1. k \in 1 .. size(base)
    BY <1>1, <1>2
  <2>2. base + k - 1 \in 0 .. n - 1
    BY <2>1
  <2> HIDE DEF size
  <2> QED BY <1>1, <2>1, <2>2
<1>3. ASSUME NEW t \in 0 .. n - 1
      PROVE  \E base \in {u \in 0 .. n - 1 : u % s = 0} : \E k \in DOMAIN LaneGroup(base, s, n) : base + k - 1 = t
  <2> DEFINE q == t \div s
             r == t % s
             base == q * s
             k == r + 1
  <2>1. q \in Nat /\ r \in 0 .. s - 1 /\ t = base + r
    <3>1. t \in Nat
      OBVIOUS
    <3> QED BY <3>1, Divided
  <2> HIDE DEF q, r
  <2>2. base \in Nat /\ (q * s + 0) % s = 0
    BY <2>1, NextProduct, DividesInto
  <2>3. base + 0 = base
    BY <2>2
  <2>4. base % s = 0
    BY <2>2, <2>3
  <2> HIDE DEF base
  <2>5. base \in 0 .. n - 1 /\ k \in 1 .. size(base) /\ base + k - 1 = t
    BY <2>1, <2>2
  <2>6. k \in DOMAIN LaneGroup(base, s, n)
    <3> HIDE DEF size, k
    <3> QED BY <1>1, <2>5
  <2> HIDE DEF k
  <2> QED BY <2>4, <2>5, <2>6
<1> QED BY <1>2, <1>3

\* Rows, with the tokens in groups.
LEMMA RowsOwned ==
  ASSUME NEW m, NEW w, IsMatrix(w), NEW n \in Nat
  PROVE  run_row_range(m, w, n) = Outputs(m, w, n)
<1> DEFINE s == LaneStride(m, w.cols)
           bases == {t \in 0 .. n - 1 : t % s = 0}
           Lanes(base) == LaneGroup(base, s, n)
           Xqs(base) == [k \in DOMAIN Lanes(base) |-> xq_for_token(m, w.cols, Lanes(base)[k])]
           B(t, r) == <<t * w.rows + r, Element(m, w, r, t)>>
           A(base, k, r) == <<(base + k - 1) * w.rows + r, dot_row_x4(m, w, Lanes(base), Xqs(base), r)[k]>>
           Group(base) == {A(base, k, r) : k \in DOMAIN Lanes(base), r \in 0 .. w.rows - 1}
<1>0. s \in Nat \ {0}
  BY LanesAssumption DEF LaneStride
<1> HIDE DEF s
<1>1. \A base \in bases : \A k \in DOMAIN Lanes(base) : Lanes(base)[k] = base + k - 1 /\ base + k - 1 \in 0 .. n - 1
  BY <1>0, LaneGroups
<1>2. \A t \in 0 .. n - 1 : \E base \in bases : \E k \in DOMAIN Lanes(base) : base + k - 1 = t
  BY <1>0, LaneGroups
<1>3. \A base \in bases : \A k \in DOMAIN Lanes(base) : \A r : A(base, k, r) = B(base + k - 1, r)
  <2> TAKE base \in bases
  <2> TAKE k \in DOMAIN Lanes(base)
  <2> TAKE r
  <2> DEFINE t == base + k - 1
             tokens == Lanes(base)
             xqs == Xqs(base)
  <2>1. tokens[k] = t
    BY <1>1
  <2>2. xqs[k] = xq_for_token(m, w.cols, tokens[k]) /\ k \in DOMAIN xqs
    OBVIOUS
  <2>3. k \in DOMAIN tokens
    OBVIOUS
  <2> HIDE DEF tokens, xqs
  <2>4. xqs[k] = prepare_xq_kquant(m, w.cols, tokens[k])
    BY <2>2, QuantisedTogether DEF IsMatrix
  <2>5. dot_row_x4(m, w, tokens, xqs, r)[k] = Element(m, w, r, tokens[k])
    BY <2>2, <2>3, <2>4, LaneElement
  <2>6. A(base, k, r) = <<t * w.rows + r, dot_row_x4(m, w, tokens, xqs, r)[k]>>
    BY DEF tokens, xqs
  <2> HIDE DEF A, t
  <2> QED BY <2>1, <2>5, <2>6 DEF t
<1>4. run_row_range(m, w, n) = UNION {Group(base) : base \in bases}
  BY DEF run_row_range, s
<1>5. Outputs(m, w, n) = {B(t, r) : t \in 0 .. n - 1, r \in 0 .. w.rows - 1}
  BY DEF Outputs
<1> HIDE DEF A, B, Lanes, bases
<1>6. \A e \in UNION {Group(base) : base \in bases} : e \in Outputs(m, w, n)
  <2> TAKE e \in UNION {Group(base) : base \in bases}
  <2>1. PICK base \in bases : e \in Group(base)
    OBVIOUS
  <2>2. PICK k \in DOMAIN Lanes(base), r \in 0 .. w.rows - 1 : e = A(base, k, r)
    BY <2>1
  <2>3. e = B(base + k - 1, r) /\ base + k - 1 \in 0 .. n - 1
    BY <1>1, <1>3, <2>2
  <2> QED BY <1>5, <2>3
<1>7. \A e \in Outputs(m, w, n) : e \in UNION {Group(base) : base \in bases}
  <2> TAKE e \in Outputs(m, w, n)
  <2>1. PICK t \in 0 .. n - 1, r \in 0 .. w.rows - 1 : e = B(t, r)
    BY <1>5
  <2>2. PICK base \in bases : \E k \in DOMAIN Lanes(base) : base + k - 1 = t
    BY <1>2
  <2>3. PICK k \in DOMAIN Lanes(base) : base + k - 1 = t
    BY <2>2
  <2>4. e = A(base, k, r)
    BY <1>3, <2>1, <2>3
  <2> QED BY <2>4
<1> QED BY <1>4, <1>6, <1>7

\* One fused call for each token.
LEMMA TokensInTurn ==
  ASSUME NEW m, m.arch = "wasm", NEW ws, AreMatrices(ws), NEW n \in Nat,
         TokenByToken(m, ws, n).ok
  PROVE  \A k \in DOMAIN ws :
           \/ TokenByToken(m, ws, n).out[k] = Outputs(m, ws[k], n)
           \/ m.metal # {} /\ TokenByToken(m, ws, n).out[k] = MetalOutputs(ws[k], n)
<1> DEFINE one == matvec_quant3_into(m, ws, ws[1].cols)
           Moved(k) == {<<t * ws[k].rows + e[1], ForToken(e[2], t)>> : t \in 0 .. n - 1, e \in one.out[k]}
           out == TokenByToken(m, ws, n).out
<1>1. CASE n = 0
  <2>1. 0 .. n - 1 = {}
    BY <1>1
  <2>2. TokenByToken(m, ws, n) = Done([k \in DOMAIN ws |-> {}])
    BY <1>1 DEF TokenByToken
  <2>3. \A k \in DOMAIN ws : Outputs(m, ws[k], n) = {}
    BY <2>1 DEF Outputs
  <2> QED BY <2>2, <2>3, DoneIs
<1>2. CASE n # 0
  <2>1. one.ok
    BY <1>2, DoneIs DEF TokenByToken
  <2>2. TokenByToken(m, ws, n) = Done([k \in DOMAIN ws |-> Moved(k)])
    BY <1>2, <2>1 DEF TokenByToken, ForToken
  <2>3. \A k \in DOMAIN ws : out[k] = Moved(k)
    <3> HIDE DEF Moved
    <3> QED BY <2>2, DoneIs
  <2>4. OneVector(m, ws, one.out)
    <3> HIDE DEF one
    <3> QED BY <2>1, FusedAnswers DEF AnswersOne, one
  <2> SUFFICES ASSUME NEW k \in DOMAIN ws
               PROVE  \/ out[k] = Outputs(m, ws[k], n)
                      \/ m.metal # {} /\ out[k] = MetalOutputs(ws[k], n)
    OBVIOUS
  <2> DEFINE w == ws[k]
  <2>5. IsMatrix(w)
    BY DEF AreMatrices
  <2>6. Moved(k) = {<<t * w.rows + e[1], ForToken(e[2], t)>> : t \in 0 .. n - 1, e \in one.out[k]}
    OBVIOUS
  <2>7. \/ one.out[k] = Rows(m, w, XqOf(m, w, 0), 0)
        \/ m.metal # {} /\ one.out[k] = OnMetal(w)
    BY <2>4 DEF OneVector
  <2> HIDE DEF one, Moved, out, w
  <2>8. CASE one.out[k] = Rows(m, w, XqOf(m, w, 0), 0)
    <3> DEFINE C(r) == <<r, Element(m, w, r, 0)>>
               D(t, e) == <<t * w.rows + e[1], ForToken(e[2], t)>>
               B(t, r) == <<t * w.rows + r, Element(m, w, r, t)>>
    <3>1. one.out[k] = {C(r) : r \in 0 .. w.rows - 1}
      BY <2>8, Zenon DEF Rows, Element
    <3>2. \A t \in 0 .. n - 1 : \A r : D(t, C(r)) = B(t, r)
      <4> TAKE t \in 0 .. n - 1
      <4> TAKE r
      <4>1. ForToken(Element(m, w, r, 0), t) = Element(m, w, r, t)
        BY ElementMoves
      <4> QED BY <4>1
    <3>3. Outputs(m, w, n) = {B(t, r) : t \in 0 .. n - 1, r \in 0 .. w.rows - 1}
      BY DEF Outputs
    <3> HIDE DEF C, D, B
    <3>4. Moved(k) = {D(t, e) : t \in 0 .. n - 1, e \in one.out[k]}
      BY <2>6 DEF D
    <3>5. {D(t, e) : t \in 0 .. n - 1, e \in one.out[k]} = {B(t, r) : t \in 0 .. n - 1, r \in 0 .. w.rows - 1}
      BY <3>1, <3>2
    <3> QED BY <2>3, <3>3, <3>4, <3>5 DEF w
  <2>9. CASE m.metal # {} /\ one.out[k] = OnMetal(w)
    <3> DEFINE D(t, e) == <<t * w.rows + e[1], ForToken(e[2], t)>>
               E(t, e) == <<e[1] + t * w.rows, ForToken(e[2], t)>>
    <3>1. \A t \in 0 .. n - 1 : AloneOnMetal(w, t) = {E(t, e) : e \in OnMetal(w)}
      BY Zenon DEF AloneOnMetal, ForToken
    <3>2. \A t \in 0 .. n - 1 : \A e \in OnMetal(w) : D(t, e) = E(t, e)
      <4> TAKE t \in 0 .. n - 1
      <4> TAKE e \in OnMetal(w)
      <4>1. e[1] \in Nat /\ t * w.rows \in Nat
        <5>1. PICK r \in 0 .. w.rows - 1 : e = <<r, [kernel |-> "metal", at |-> r * row_bytes(w.kind, w.cols), x |-> 0, xq |-> NoXq]>>
          BY DEF OnMetal
        <5>2. e[1] = r /\ w.rows \in Nat
          BY <2>5, <5>1 DEF IsMatrix
        <5> QED BY <5>2, NextProduct
      <4> QED BY <4>1
    <3> HIDE DEF D, E
    <3>3. Moved(k) = {D(t, e) : t \in 0 .. n - 1, e \in OnMetal(w)}
      BY <2>6, <2>9 DEF D
    <3>4. MetalOutputs(w, n) = {D(t, e) : t \in 0 .. n - 1, e \in OnMetal(w)}
      BY <3>1, <3>2 DEF MetalOutputs
    <3> QED BY <2>3, <2>9, <3>3, <3>4 DEF w
  <2> QED BY <2>7, <2>8, <2>9
<1> QED BY <1>1, <1>2

\* What n tokens of each matrix are, computed here or by Metal.
MatrixOutputs(m, ws, out, n) ==
  \A k \in DOMAIN ws :
    \/ out[k] = Outputs(m, ws[k], n)
    \/ m.metal # {} /\ out[k] = MetalOutputs(ws[k], n)

LEMMA OneVectorOutputs ==
  ASSUME NEW m, IsMachine(m), NEW ws, AreMatrices(ws), NEW out, OneVector(m, ws, out)
  PROVE  MatrixOutputs(m, ws, out, 1)
<1> SUFFICES ASSUME NEW k \in DOMAIN ws
             PROVE  \/ out[k] = Outputs(m, ws[k], 1)
                    \/ m.metal # {} /\ out[k] = MetalOutputs(ws[k], 1)
  BY DEF MatrixOutputs
<1>1. IsMatrix(ws[k])
  BY DEF AreMatrices
<1>2. Outputs(m, ws[k], 1) = Rows(m, ws[k], XqOf(m, ws[k], 0), 0) /\ MetalOutputs(ws[k], 1) = OnMetal(ws[k])
  BY <1>1, OneToken
<1> QED BY <1>2 DEF OneVector

LEMMA BatchAnswers ==
  ASSUME NEW m, NEW ws, AreMatrices(ws), NEW len \in Nat
  PROVE  LET res  == matvec_quant3_batch_into(m, ws, len)
             cols == ws[1].cols
         IN  /\ res.ok => cols # 0 /\ Fits(ws, cols) /\ len % cols = 0 /\ MatrixOutputs(m, ws, res.out, len \div cols)
             /\ cols # 0 /\ Fits(ws, cols) /\ len % cols = 0 /\ ~res.ok =>
                  m.arch = "wasm" /\ is_mixed_kquant3(ws[1].kind, ws[2].kind, ws[3].kind)
<1> DEFINE res == matvec_quant3_batch_into(m, ws, len)
           cols == ws[1].cols
           n == len \div cols
           each == [k \in DOMAIN ws |->
                     IF Schedule(m, ws) = "tokens" THEN run_token_worker(m, ws[k], n) ELSE run_row_range(m, ws[k], n)]
           fits == cols # 0 /\ Fits(ws, cols) /\ len % cols = 0
<1>1. res = IF ~fits THEN Refused ELSE IF m.arch = "wasm" THEN TokenByToken(m, ws, n) ELSE Done(each)
  BY Zenon DEF matvec_quant3_batch_into, Fits
<1>2. cols \in Nat
  BY DEF AreMatrices, IsMatrix
<1>3. cols # 0 => n \in Nat
  <2> HIDE DEF cols
  <2> QED BY <1>2, Divided
<1>4. cols # 0 => MatrixOutputs(m, ws, each, n)
  <2> SUFFICES ASSUME cols # 0, NEW k \in DOMAIN ws
               PROVE  each[k] = Outputs(m, ws[k], n)
    BY DEF MatrixOutputs
  <2>1. each[k] = IF Schedule(m, ws) = "tokens" THEN run_token_worker(m, ws[k], n) ELSE run_row_range(m, ws[k], n)
    OBVIOUS
  <2>2. IsMatrix(ws[k])
    BY DEF AreMatrices
  <2> HIDE DEF each, n
  <2>3. run_token_worker(m, ws[k], n) = Outputs(m, ws[k], n) /\ run_row_range(m, ws[k], n) = Outputs(m, ws[k], n)
    BY <1>3, <2>2, TokensOwned, RowsOwned
  <2> QED BY <2>1, <2>3
<1>5. cols # 0 /\ m.arch = "wasm" /\ TokenByToken(m, ws, n).ok => MatrixOutputs(m, ws, TokenByToken(m, ws, n).out, n)
  <2> HIDE DEF n
  <2> QED BY <1>3, TokensInTurn DEF MatrixOutputs
<1>6. fits /\ ~TokenByToken(m, ws, n).ok => is_mixed_kquant3(ws[1].kind, ws[2].kind, ws[3].kind)
  <2>1. ~TokenByToken(m, ws, n).ok => ~matvec_quant3_into(m, ws, cols).ok
    <3> HIDE DEF n
    <3> DEFINE one == matvec_quant3_into(m, ws, cols)
               turn(k) == {<<t * ws[k].rows + e[1], ForToken(e[2], t)>> : t \in 0 .. n - 1, e \in one.out[k]}
               turns == [k \in DOMAIN ws |-> turn(k)]
               none == [k \in DOMAIN ws |-> {}]
    <3>1. TokenByToken(m, ws, n) = IF n = 0 THEN Done(none) ELSE IF ~one.ok THEN Refused ELSE Done(turns)
      BY DEF TokenByToken, ForToken
    <3>2. Done(none).ok /\ Done(turns).ok
      BY DoneIs
    <3> HIDE DEF none, turns, one
    <3> QED BY <3>1, <3>2 DEF one
  <2> QED BY <2>1, FittingIsAnswered
<1>7. ~Refused.ok /\ Done(each).ok /\ Done(each).out = each
  BY DoneIs
<1> HIDE DEF res, each, n, cols
<1>8. res.ok => fits /\ MatrixOutputs(m, ws, res.out, n)
  BY <1>1, <1>4, <1>5, <1>7
<1>9. fits /\ ~res.ok => m.arch = "wasm" /\ is_mixed_kquant3(ws[1].kind, ws[2].kind, ws[3].kind)
  <2> HIDE DEF fits
  <2> QED BY <1>1, <1>6, <1>7
<1> QED BY <1>8, <1>9 DEF res, n, cols

\* Matrices without rows behind the others change nothing.
Pads(ps, ws) ==
  /\ \A k \in DOMAIN ws : k \in DOMAIN ps /\ ps[k] = ws[k]
  /\ \A k \in DOMAIN ps : k \in DOMAIN ws \/ ps[k] = NoMatrix(ws[1].kind, ws[1].cols)

LEMMA PaddedFits ==
  ASSUME NEW ps, NEW ws, AreMatrices(ws), Pads(ps, ws)
  PROVE  /\ AreMatrices(ps)
         /\ \A len : Fits(ps, len) <=> Fits(ws, len)
         /\ \A m, out, n : MatrixOutputs(m, ps, out, n) => MatrixOutputs(m, ws, out, n)
<1> DEFINE none == NoMatrix(ws[1].kind, ws[1].cols)
<1>1. IsMatrix(none) /\ none.cols = ws[1].cols /\ none.kind = ws[1].kind /\ none.bytes = 0 /\ none.rows = 0
  BY DEF AreMatrices, IsMatrix, NoMatrix
<1>2. BytesOf(none) = 0
  <2>1. row_bytes(none.kind, none.cols) \in Nat
    <3> HIDE DEF none
    <3> QED BY <1>1, RowBytes DEF IsMatrix
  <2> HIDE DEF none
  <2> QED BY <1>1, <2>1 DEF BytesOf
<1> HIDE DEF none
<1>3. \A k \in DOMAIN ps : k \in DOMAIN ws \/ ps[k] = none
  BY DEF Pads, none
<1>4. \A k \in DOMAIN ws : k \in DOMAIN ps /\ ps[k] = ws[k]
  BY DEF Pads
<1>5. AreMatrices(ps)
  BY <1>1, <1>3, <1>4 DEF AreMatrices
<1>6. ASSUME NEW len PROVE Fits(ps, len) <=> Fits(ws, len)
  <2>1. SameCols(ps, len) <=> SameCols(ws, len)
    BY <1>1, <1>3, <1>4 DEF SameCols, AreMatrices
  <2>2. WholeBlocks(ps) <=> WholeBlocks(ws)
    BY <1>1, <1>3, <1>4 DEF WholeBlocks, AreMatrices
  <2>3. EnoughBytes(ps) <=> EnoughBytes(ws)
    <3>1. none.bytes >= BytesOf(none)
      BY <1>1, <1>2
    <3> QED BY <1>3, <1>4, <3>1 DEF EnoughBytes
  <2> QED BY <2>1, <2>2, <2>3 DEF Fits
<1>7. \A m, out, n : MatrixOutputs(m, ps, out, n) => MatrixOutputs(m, ws, out, n)
  BY <1>4 DEF MatrixOutputs
<1> QED BY <1>5, <1>6, <1>7

\* What is known of a batch of matrices ws that is computed as one of ps.
BatchOf(m, ws, ps, len, res) ==
  /\ res.ok => ws[1].cols # 0 /\ Fits(ws, ws[1].cols) /\ len % ws[1].cols = 0
               /\ MatrixOutputs(m, ws, res.out, len \div ws[1].cols)
  /\ ws[1].cols # 0 /\ Fits(ws, ws[1].cols) /\ len % ws[1].cols = 0 /\ ~res.ok =>
       m.arch = "wasm" /\ is_mixed_kquant3(ps[1].kind, ps[2].kind, ps[3].kind)

LEMMA PaddedBatch ==
  ASSUME NEW m, NEW ws, AreMatrices(ws), NEW ps, Pads(ps, ws), NEW len \in Nat
  PROVE  BatchOf(m, ws, ps, len, matvec_quant3_batch_into(m, ps, len))
<1>1. ps[1] = ws[1] /\ 1 \in DOMAIN ws
  BY DEF Pads, AreMatrices
<1>2. /\ AreMatrices(ps)
      /\ \A l : Fits(ps, l) <=> Fits(ws, l)
      /\ \A k, out, n : MatrixOutputs(k, ps, out, n) => MatrixOutputs(k, ws, out, n)
  BY PaddedFits
<1> DEFINE res == matvec_quant3_batch_into(m, ps, len)
<1>3. LET cols == ps[1].cols
      IN  /\ res.ok => cols # 0 /\ Fits(ps, cols) /\ len % cols = 0 /\ MatrixOutputs(m, ps, res.out, len \div cols)
          /\ cols # 0 /\ Fits(ps, cols) /\ len % cols = 0 /\ ~res.ok =>
               m.arch = "wasm" /\ is_mixed_kquant3(ps[1].kind, ps[2].kind, ps[3].kind)
  BY <1>2, BatchAnswers
<1> HIDE DEF res
<1>4. BatchOf(m, ws, ps, len, res)
  BY <1>1, <1>2, <1>3 DEF BatchOf
<1> QED BY <1>4 DEF res


(* Calls. *)

\* A projection call: matrices of any kinds and sizes, any number of vectors,
\* on any machine.  One with a fault is of whole blocks and rows, of a single
\* vector, and left to the processor.
IsProjection(c) ==
  /\ IsMachine(c.machine)
  /\ c.kinds \in Seq(DOMAIN BlockBytes)
  /\ \/ c.call \in {"fused3", "kquant3", "batch3", "kbatch3"} /\ Len(c.kinds) = 3
     \/ c.call \in {"fused2", "batch2"} /\ Len(c.kinds) = 2
     \/ c.call = "batch1" /\ Len(c.kinds) = 1
     \/ c.call \in {"q4k", "q5k", "q6k"} /\ Len(c.kinds) \in {2, 3}
  /\ \A k \in 1 .. 3 : c.rows[k] \in Nat
  /\ c.cols \in Nat \ {0} /\ c.tokens \in Nat /\ c.fault \in Faults
  /\ c.call \notin BatchCalls \/ c.fault # "none" => c.tokens = 1
  /\ c.fault # "none" =>
       /\ c.machine.metal = {}
       /\ \A k \in 1 .. 3 : c.rows[k] # 0
       /\ \A k \in DOMAIN c.kinds : c.cols % block_size(c.kinds[k]) = 0

MatricesOf(c) == Matrices(c.kinds, c.rows, c.cols, c.fault)
LengthOf(c)   == c.cols * c.tokens + (IF c.fault = "length" THEN 1 ELSE 0)
Wide(c, k)    == c.fault = "width" /\ k = Len(c.kinds)
Short(c, k)   == c.fault = "bytes" /\ k = Len(c.kinds)

LEMMA ProjectionMatrices ==
  ASSUME NEW c, IsProjection(c)
  PROVE  LET ws == MatricesOf(c)
             n  == Len(c.kinds)
         IN  /\ n \in 1 .. 3 /\ DOMAIN ws = 1 .. n /\ Len(ws) = n /\ 1 \in DOMAIN ws /\ AreMatrices(ws)
             /\ \A k \in 1 .. n :
                  /\ ws[k].kind = c.kinds[k] /\ ws[k].rows = c.rows[k] /\ c.kinds[k] \in DOMAIN BlockBytes
                  /\ ws[k].cols = IF Wide(c, k) THEN c.cols + 256 ELSE c.cols
                  /\ ws[k].bytes = IF Short(c, k) THEN c.rows[k] * row_bytes(c.kinds[k], c.cols) - 1
                                   ELSE c.rows[k] * row_bytes(c.kinds[k], c.cols)
<1> DEFINE ws == MatricesOf(c)
           n == Len(c.kinds)
           bytes(k) == c.rows[k] * row_bytes(c.kinds[k], c.cols)
<1>0. n \in 1 .. 3
  BY DEF IsProjection
<1>1. n \in 1 .. 3 /\ DOMAIN c.kinds = 1 .. n /\ \A k \in 1 .. n : c.kinds[k] \in DOMAIN BlockBytes /\ c.rows[k] \in Nat
  <2>2. DOMAIN c.kinds = 1 .. n /\ \A k \in 1 .. n : c.kinds[k] \in DOMAIN BlockBytes
    BY LenProperties, ElementOfSeq DEF IsProjection
  <2> HIDE DEF n
  <2>3. \A k \in 1 .. n : k \in 1 .. 3
    BY <1>0
  <2> QED BY <1>0, <2>2, <2>3 DEF IsProjection
<1>2. ws = [k \in 1 .. n |->
             [kind |-> c.kinds[k], rows |-> c.rows[k],
              cols |-> IF Wide(c, k) THEN c.cols + 256 ELSE c.cols,
              bytes |-> bytes(k) - (IF Short(c, k) THEN 1 ELSE 0)]]
  BY <1>1, Zenon DEF MatricesOf, Matrices, Wide, Short
<1> HIDE DEF ws, n
<1>3. \A k \in 1 .. n : bytes(k) \in Nat
  <2> TAKE k \in 1 .. n
  <2>1. row_bytes(c.kinds[k], c.cols) \in Nat
    BY <1>1, RowBytes DEF IsProjection
  <2> QED BY <1>1, <2>1, NextProduct
<1> HIDE DEF bytes
<1>4. \A k \in 1 .. n :
        /\ ws[k].kind = c.kinds[k] /\ ws[k].rows = c.rows[k]
        /\ ws[k].cols = IF Wide(c, k) THEN c.cols + 256 ELSE c.cols
        /\ ws[k].bytes = bytes(k) - (IF Short(c, k) THEN 1 ELSE 0)
  BY <1>2
<1>5. DOMAIN ws = 1 .. n
  BY <1>2
<1>6. Len(ws) = n
  <2>1. n \in Nat
    BY <1>1
  <2> QED BY <1>5, <2>1
<1>7. c.cols \in Nat
  BY DEF IsProjection
<1>10. 1 \in DOMAIN ws
  BY <1>1, <1>5
<1>8. AreMatrices(ws)
  <2> SUFFICES ASSUME NEW k \in 1 .. n PROVE IsMatrix(ws[k])
    BY <1>5, <1>10, Zenon DEF AreMatrices
  <2>1. ws[k].kind \in DOMAIN BlockBytes /\ ws[k].rows \in Nat
    BY <1>1, <1>4, Zenon
  <2>2. ws[k].cols \in Nat
    BY <1>4, <1>7
  <2>3. ws[k].bytes \in Int
    <3>1. bytes(k) \in Nat /\ ws[k].bytes = bytes(k) - (IF Short(c, k) THEN 1 ELSE 0)
      BY <1>3, <1>4
    <3> QED BY <3>1
  <2> QED BY <2>1, <2>2, <2>3 DEF IsMatrix
<1>9. \A k \in 1 .. n : ws[k].bytes = IF Short(c, k) THEN bytes(k) - 1 ELSE bytes(k)
  <2> TAKE k \in 1 .. n
  <2>1. bytes(k) \in Nat /\ ws[k].bytes = bytes(k) - (IF Short(c, k) THEN 1 ELSE 0)
    BY <1>3, <1>4
  <2> QED BY <2>1
<1> QED BY <1>1, <1>4, <1>5, <1>6, <1>8, <1>9, <1>10, Zenon DEF ws, n, bytes

\* More columns, more bytes.
LEMMA WiderIsLonger ==
  ASSUME NEW kind \in DOMAIN BlockBytes, NEW cols \in Nat \ {0}, cols % block_size(kind) = 0, NEW rows \in Nat \ {0}
  PROVE  rows * row_bytes(kind, cols) < rows * row_bytes(kind, cols + 256)
<1> DEFINE B == BlockBytes[kind]
           s == block_size(kind)
           n == cols \div s
           N == (cols + 256) \div s
<1>1. B \in Nat \ {0} /\ s \in {32, 256}
  BY BlocksHaveBytes
<1>2. row_bytes(kind, cols) = n * B
  BY DEF row_bytes
<1> HIDE DEF B, s
<1>3. n \in Nat /\ N \in Nat /\ n + 1 <= N /\ (cols + 256) % s = 0 /\ cols + 256 # 0
  <2> USE DEF s
  <2>1. CASE s = 32
    <3> HIDE DEF s
    <3> QED BY <2>1 DEF s
  <2>2. CASE s = 256
    <3> HIDE DEF s
    <3> QED BY <2>2 DEF s
  <2> QED BY <1>1, <2>1, <2>2
<1>4. row_bytes(kind, cols + 256) = N * B
  BY <1>3 DEF row_bytes, B, s
<1> HIDE DEF n, N
<1>5. n * B \in Nat /\ N * B \in Nat /\ n * B < N * B
  <2>1. (n + 1) * B <= N * B /\ (n + 1) * B = n * B + B /\ n * B \in Nat /\ N * B \in Nat
    BY <1>1, <1>3, ProductGrows, NextProduct
  <2> QED BY <1>1, <2>1
<1>6. ASSUME NEW x \in Nat, NEW y \in Nat, x < y PROVE rows * x < rows * y
  <2>1. rows * (x + 1) <= rows * y
    <3>1. (x + 1) * rows <= y * rows
      BY <1>6, ProductGrows
    <3> QED BY <3>1
  <2>2. rows * (x + 1) = rows * x + rows /\ rows * x \in Nat /\ rows * y \in Nat
    BY NextProduct
  <2> QED BY <2>1, <2>2
<1> QED BY <1>2, <1>4, <1>5, <1>6

\* The bytes suffice but for the faults.
LEMMA BytesSuffice ==
  ASSUME NEW c, IsProjection(c), NEW k \in 1 .. Len(c.kinds)
  PROVE  LET w == MatricesOf(c)[k]
         IN  w.bytes >= BytesOf(w) <=> ~(Short(c, k) \/ Wide(c, k))
<1> DEFINE w == MatricesOf(c)[k]
           bytes == c.rows[k] * row_bytes(c.kinds[k], c.cols)
           wide == c.rows[k] * row_bytes(c.kinds[k], c.cols + 256)
<1>1. /\ w.kind = c.kinds[k] /\ w.rows = c.rows[k] /\ c.kinds[k] \in DOMAIN BlockBytes
      /\ w.cols = IF Wide(c, k) THEN c.cols + 256 ELSE c.cols
      /\ w.bytes = IF Short(c, k) THEN bytes - 1 ELSE bytes
      /\ c.rows[k] \in Nat /\ c.cols \in Nat \ {0}
  <2>1. k \in 1 .. 3
    BY ProjectionMatrices
  <2> QED BY <2>1, ProjectionMatrices DEF IsProjection
<1>2. bytes \in Nat /\ wide \in Nat
  <2>1. row_bytes(c.kinds[k], c.cols) \in Nat /\ row_bytes(c.kinds[k], c.cols + 256) \in Nat
    BY <1>1, RowBytes
  <2> QED BY <1>1, <2>1, NextProduct
<1>3. BytesOf(w) = IF Wide(c, k) THEN wide ELSE bytes
  <2> HIDE DEF w
  <2> QED BY <1>1 DEF BytesOf
<1>4. Wide(c, k) => bytes < wide
  <2>1. Wide(c, k) => c.rows[k] # 0 /\ c.cols % block_size(c.kinds[k]) = 0
    <3>1. k \in DOMAIN c.kinds /\ k \in 1 .. 3
      BY ProjectionMatrices, LenProperties DEF IsProjection
    <3> QED BY <3>1 DEF Wide, IsProjection
  <2> QED BY <1>1, <2>1, WiderIsLonger
<1>5. ~(Short(c, k) /\ Wide(c, k))
  BY DEF Short, Wide
<1> HIDE DEF w, bytes, wide
<1> QED BY <1>1, <1>2, <1>3, <1>4, <1>5 DEF w

\* A matrix with too few bytes or too many columns, or a vector too long, is
\* seen by the checks of one vector and by those of a batch.
LEMMA FaultsAreSeen ==
  ASSUME NEW c, IsProjection(c), c.fault # "none"
  PROVE  LET ws == MatricesOf(c)
         IN  /\ ~(SameCols(ws, LengthOf(c)) /\ EnoughBytes(ws))
             /\ ~(EnoughBytes(ws) /\ LengthOf(c) % ws[1].cols = 0)
<1> DEFINE ws == MatricesOf(c)
           n == Len(c.kinds)
<1>1. /\ n \in 1 .. 3 /\ DOMAIN ws = 1 .. n /\ 1 \in 1 .. n /\ n \in 1 .. n
      /\ c.cols \in Nat \ {0} /\ c.tokens = 1 /\ c.cols % block_size(c.kinds[1]) = 0 /\ c.kinds[1] \in DOMAIN BlockBytes
  <2>1. n \in 1 .. 3 /\ DOMAIN ws = 1 .. n /\ 1 \in 1 .. n
    BY ProjectionMatrices
  <2>2. 1 \in DOMAIN c.kinds
    BY <2>1, LenProperties DEF IsProjection
  <2>3. c.kinds[1] \in DOMAIN BlockBytes
    BY <2>1, ProjectionMatrices
  <2> HIDE DEF n, ws
  <2>4. n \in 1 .. n
    BY <2>1
  <2> QED BY <2>1, <2>2, <2>3, <2>4 DEF IsProjection
<1> HIDE DEF n
<1>2. CASE c.fault \in {"bytes", "width"}
  <2>1. Short(c, n) \/ Wide(c, n)
    BY <1>2 DEF Short, Wide, n
  <2>2. ~(ws[n].bytes >= BytesOf(ws[n]))
    BY <1>1, <2>1, BytesSuffice DEF n
  <2>3. ~EnoughBytes(ws)
    <3> HIDE DEF ws
    <3> QED BY <1>1, <2>2 DEF EnoughBytes
  <2> QED BY <2>3
<1>3. CASE c.fault = "length"
  <2>1. ws[1].cols = c.cols
    BY <1>1, <1>3, ProjectionMatrices DEF Wide, n
  <2>2. LengthOf(c) = c.cols + 1
    BY <1>1, <1>3 DEF LengthOf
  <2>3. c.cols > 1
    <3>1. block_size(c.kinds[1]) \in {32, 256}
      BY <1>1, BlocksHaveBytes
    <3> QED BY <1>1, <3>1
  <2>4. LengthOf(c) % c.cols = 1
    <3> DEFINE b == c.cols
    <3>1. b \in Nat \ {0} /\ 1 \in 0 .. b - 1
      BY <1>1, <2>3
    <3> HIDE DEF b
    <3>2. (1 * b + 1) % b = 1
      BY <3>1, DividesInto
    <3> QED BY <2>2, <3>1, <3>2 DEF b
  <2>5. ~SameCols(ws, LengthOf(c))
    <3> HIDE DEF ws
    <3> QED BY <1>1, <2>1, <2>2 DEF SameCols
  <2> QED BY <2>1, <2>4, <2>5
<1> QED BY <1>2, <1>3 DEF IsProjection, Faults

\* Without a fault every matrix fits the vectors.
LEMMA SoundMatrices ==
  ASSUME NEW c, IsProjection(c), c.fault = "none"
  PROVE  LET ws == MatricesOf(c)
         IN  /\ SameCols(ws, c.cols) /\ EnoughBytes(ws) /\ ws[1].cols = c.cols
             /\ LengthOf(c) = c.cols * c.tokens
             /\ LengthOf(c) % c.cols = 0 /\ LengthOf(c) \div c.cols = c.tokens
             /\ c.tokens = 1 => LengthOf(c) = c.cols
<1> DEFINE ws == MatricesOf(c)
           n == Len(c.kinds)
<1>1. DOMAIN ws = 1 .. n /\ 1 \in 1 .. n
  BY ProjectionMatrices
<1>2. \A k \in 1 .. n : ws[k].cols = c.cols /\ ws[k].bytes >= BytesOf(ws[k])
  <2> TAKE k \in 1 .. n
  <2>1. ~Wide(c, k) /\ ~Short(c, k)
    BY DEF Wide, Short
  <2> QED BY <2>1, ProjectionMatrices, BytesSuffice
<1>3. c.cols \in Nat \ {0} /\ c.tokens \in Nat
  BY DEF IsProjection
<1>4. LengthOf(c) = c.cols * c.tokens
  <2>1. c.cols * c.tokens \in Nat
    BY <1>3, NextProduct
  <2> QED BY <2>1 DEF LengthOf
<1>5. LengthOf(c) % c.cols = 0 /\ LengthOf(c) \div c.cols = c.tokens
  <2> DEFINE b == c.cols
             x == c.tokens
  <2>1. b \in Nat \ {0} /\ x \in Nat /\ 0 \in 0 .. b - 1
    BY <1>3
  <2>2. LengthOf(c) = x * b + 0
    BY <1>3, <1>4, NextProduct
  <2> HIDE DEF b, x
  <2>3. (x * b + 0) % b = 0 /\ (x * b + 0) \div b = x
    BY <2>1, DividesInto
  <2> QED BY <2>2, <2>3 DEF b, x
<1>6. c.tokens = 1 => LengthOf(c) = c.cols
  BY <1>3, <1>4
<1> HIDE DEF ws
<1>7. SameCols(ws, c.cols) /\ EnoughBytes(ws)
  BY <1>1, <1>2 DEF SameCols, EnoughBytes
<1> QED BY <1>1, <1>2, <1>4, <1>5, <1>6, <1>7 DEF ws

(* What becomes of a call. *)

Answer(c) == Result(c, MatricesOf(c), LengthOf(c))

Outcome(c) ==
  /\ Answer(c).ok =>
       /\ c.fault = "none" /\ WholeBlocks(MatricesOf(c))
       /\ MatrixOutputs(c.machine, MatricesOf(c), Answer(c).out, c.tokens)
  /\ c.fault = "none" /\ WholeBlocks(MatricesOf(c)) /\ ~Answer(c).ok => Mixes(c)

\* Calls of one vector.
LEMMA SingleOutcome ==
  ASSUME NEW c, IsProjection(c), c.call \notin BatchCalls
  PROVE  Outcome(c)
<1> DEFINE m == c.machine
           ws == MatricesOf(c)
           len == LengthOf(c)
           res == Answer(c)
<1>1. IsMachine(m) /\ AreMatrices(ws) /\ Len(ws) = Len(c.kinds)
  BY ProjectionMatrices DEF IsProjection
<1>2. c.call = "fused3" => ws[1].kind = c.kinds[1] /\ ws[2].kind = c.kinds[2] /\ ws[3].kind = c.kinds[3] /\ Len(c.kinds) = 3
  <2> HAVE c.call = "fused3"
  <2>1. Len(c.kinds) = 3
    BY DEF IsProjection
  <2>2. 1 \in 1 .. Len(c.kinds) /\ 2 \in 1 .. Len(c.kinds) /\ 3 \in 1 .. Len(c.kinds)
    BY <2>1
  <2> QED BY <2>1, <2>2, ProjectionMatrices
<1>3. c.call \in {"fused3", "fused2", "kquant3", "q4k", "q5k", "q6k"}
  BY DEF IsProjection, BatchCalls
<1> HIDE DEF ws, len, m
<1>4. /\ c.call = "fused3" => res = matvec_quant3_into(m, ws, len)
      /\ c.call = "fused2" => res = matvec_quant2_into(m, ws, len)
      /\ c.call = "kquant3" => res = matvec_kquant3_into(m, ws, len)
      /\ c.call = "q4k" => res = matvec_q4_k3_into(m, ws, len) \/ res = matvec_q4_k2_into(m, ws, len)
      /\ c.call = "q5k" => res = matvec_q5_k_fused_into(m, ws, len)
      /\ c.call = "q6k" => res = matvec_q6_k_fused_into(m, ws, len)
  BY DEF Answer, Result, m, ws, len
<1> HIDE DEF res
<1>5. AnswersOne(m, ws, len, res)
  BY <1>1, <1>3, <1>4, FusedAnswers, Q6KAnswers
<1>6. Fits(ws, len) /\ ~res.ok => c.call = "fused3" /\ is_mixed_kquant3(ws[1].kind, ws[2].kind, ws[3].kind)
  BY <1>3, <1>4, FittingIsAnswered
<1>7. c.tokens = 1
  BY DEF IsProjection
<1>8. res.ok => c.fault = "none" /\ WholeBlocks(ws) /\ MatrixOutputs(m, ws, res.out, c.tokens)
  <2> HAVE res.ok
  <2>1. SameCols(ws, len) /\ WholeBlocks(ws) /\ (EnoughBytes(ws) \/ m.metal # {}) /\ OneVector(m, ws, res.out)
    BY <1>5 DEF AnswersOne
  <2>2. c.fault # "none" => m.metal = {}
    BY DEF IsProjection, m
  <2>3. c.fault = "none"
    BY <2>1, <2>2, FaultsAreSeen DEF ws, len
  <2>4. MatrixOutputs(m, ws, res.out, 1)
    BY <1>1, <2>1, OneVectorOutputs
  <2> QED BY <1>7, <2>1, <2>3, <2>4
<1>9. c.fault = "none" /\ WholeBlocks(ws) /\ ~res.ok => Mixes(c)
  <2> HAVE c.fault = "none" /\ WholeBlocks(ws) /\ ~res.ok
  <2>1. SameCols(ws, len) /\ EnoughBytes(ws)
    BY <1>7, SoundMatrices DEF ws, len
  <2>2. c.call = "fused3" /\ is_mixed_kquant3(ws[1].kind, ws[2].kind, ws[3].kind)
    BY <1>6, <2>1 DEF Fits
  <2> QED BY <1>2, <2>2 DEF Mixes
<1> QED BY <1>8, <1>9, Zenon DEF Outcome, m, ws, res

\* The matrices of a call with those that pad it.
LEMMA Padded ==
  ASSUME NEW c, IsProjection(c)
  PROVE  LET ws   == MatricesOf(c)
             none == NoMatrix(ws[1].kind, ws[1].cols)
         IN  /\ Len(c.kinds) = 2 => Pads(Append(ws, none), ws) /\ Append(ws, none)[3].kind = ws[1].kind
             /\ Len(c.kinds) = 1 => /\ Pads(ws \o <<none, none>>, ws)
                                    /\ (ws \o <<none, none>>)[2].kind = ws[1].kind
                                    /\ (ws \o <<none, none>>)[3].kind = ws[1].kind
<1> DEFINE ws == MatricesOf(c)
           n == Len(c.kinds)
           none == NoMatrix(ws[1].kind, ws[1].cols)
           S == {ws[k] : k \in 1 .. n} \cup {none}
           two == <<none, none>>
<1>1. n \in Nat /\ DOMAIN ws = 1 .. n /\ 1 \in 1 .. n /\ Len(ws) = n
  BY ProjectionMatrices
<1>2. none.kind = ws[1].kind
  BY DEF NoMatrix
<1>3. ws \in Seq(S)
  <2>1. ws = [k \in DOMAIN ws |-> ws[k]]
    BY DEF MatricesOf, Matrices
  <2> HIDE DEF n, ws, none
  <2>2. ws \in [1 .. n -> S]
    BY <1>1, <2>1
  <2> HIDE DEF S
  <2> QED BY <1>1, <2>2, SeqDef
<1> HIDE DEF ws, n
<1>4. none \in S
  OBVIOUS
<1> HIDE DEF none, S
<1>5. two \in Seq(S) /\ Len(two) = 2 /\ two[1] = none /\ two[2] = none
  BY <1>4
<1>6. n = 2 => Pads(Append(ws, none), ws) /\ Append(ws, none)[3].kind = ws[1].kind
  <2> HAVE n = 2
  <2>1. /\ DOMAIN Append(ws, none) = 1 .. 3 /\ Append(ws, none)[1] = ws[1]
        /\ Append(ws, none)[2] = ws[2] /\ Append(ws, none)[3] = none
    <3>1. /\ Append(ws, none) \in Seq(S) /\ Len(Append(ws, none)) = Len(ws) + 1
          /\ \A i \in 1 .. Len(ws) : Append(ws, none)[i] = ws[i]
          /\ Append(ws, none)[Len(ws) + 1] = none
      BY <1>3, <1>4, AppendProperties
    <3>2. DOMAIN Append(ws, none) = 1 .. Len(Append(ws, none))
      BY <3>1, LenProperties
    <3>3. Len(ws) = 2
      BY <1>1
    <3> HIDE DEF none
    <3> QED BY <3>1, <3>2, <3>3
  <2>2. DOMAIN ws = {1, 2} /\ 1 .. 3 = {1, 2, 3}
    BY <1>1
  <2> DEFINE ps == Append(ws, none)
  <2> HIDE DEF ps
  <2>3. Pads(ps, ws)
    BY <2>1, <2>2 DEF Pads, none, ps
  <2> QED BY <1>2, <2>1, <2>3 DEF ps
<1>7. n = 1 => /\ Pads(ws \o two, ws)
               /\ (ws \o two)[2].kind = ws[1].kind
               /\ (ws \o two)[3].kind = ws[1].kind
  <2> HAVE n = 1
  <2> DEFINE ps == ws \o two
  <2>0. ps \in Seq(S) /\ Len(ps) = 3 /\ \A i \in 1 .. 3 : ps[i] = IF i <= 1 THEN ws[i] ELSE two[i - 1]
    <3> HIDE DEF two
    <3>1. /\ ws \o two \in Seq(S) /\ Len(ws \o two) = Len(ws) + Len(two)
          /\ \A i \in 1 .. Len(ws) + Len(two) : (ws \o two)[i] = IF i <= Len(ws) THEN ws[i] ELSE two[i - Len(ws)]
      BY <1>3, <1>5, ConcatProperties
    <3>2. Len(ws) = 1 /\ Len(ws) + Len(two) = 3
      BY <1>1, <1>5
    <3> QED BY <3>1, <3>2
  <2> HIDE DEF ps, two
  <2>1. DOMAIN ps = 1 .. 3
    BY <2>0, LenProperties
  <2>2. ps[1] = ws[1] /\ ps[2] = none /\ ps[3] = none
    BY <1>5, <2>0
  <2>3. DOMAIN ws = {1} /\ 1 .. 3 = {1, 2, 3}
    BY <1>1
  <2>4. Pads(ps, ws)
    BY <2>1, <2>2, <2>3 DEF Pads, none
  <2> QED BY <1>2, <2>2, <2>4 DEF ps
<1> QED BY <1>6, <1>7 DEF ws, n, none, two

\* Batches.
LEMMA BatchOutcome ==
  ASSUME NEW c, IsProjection(c), c.call \in BatchCalls
  PROVE  Outcome(c)
<1> DEFINE m == c.machine
           ws == MatricesOf(c)
           len == LengthOf(c)
           res == Answer(c)
           none == NoMatrix(ws[1].kind, ws[1].cols)
           ps == IF c.call = "batch2" THEN Append(ws, none) ELSE IF c.call = "batch1" THEN ws \o <<none, none>> ELSE ws
           n == Len(c.kinds)
<1>1. AreMatrices(ws) /\ n \in 1 .. 3 /\ DOMAIN ws = 1 .. n /\ \A k \in 1 .. n : ws[k].kind = c.kinds[k]
  BY ProjectionMatrices
<1>2. /\ c.call \in {"batch3", "kbatch3"} => n = 3
      /\ c.call = "batch2" => n = 2
      /\ c.call = "batch1" => n = 1
  BY DEF IsProjection
<1>3. Pads(ps, ws)
  <2>1. Pads(ws, ws)
    BY DEF Pads
  <2> QED BY <1>2, <2>1, Padded
<1>4. /\ c.call = "batch2" => ps[3].kind = ws[1].kind
      /\ c.call = "batch1" => ps[2].kind = ws[1].kind /\ ps[3].kind = ws[1].kind
  BY <1>2, Padded
<1>5. res = matvec_quant3_batch_into(m, ps, len)
  <2> HIDE DEF ws, len, m
  <2> QED BY Zenon DEF Answer, Result, BatchCalls, matvec_quant_batch_into, matvec_quant2_batch_into, matvec_kquant3_batch_into,
             m, ws, len
<1>6. len \in Nat
  <2>1. c.cols * c.tokens \in Nat
    BY NextProduct DEF IsProjection
  <2> QED BY <2>1 DEF LengthOf
<1> HIDE DEF ps, ws, len, m, res, n
<1>7. BatchOf(m, ws, ps, len, res)
  BY <1>1, <1>3, <1>5, <1>6, PaddedBatch
<1>8. \A k \in DOMAIN ws : ps[k] = ws[k]
  BY <1>3 DEF Pads
<1>9. res.ok => c.fault = "none" /\ WholeBlocks(ws) /\ MatrixOutputs(m, ws, res.out, c.tokens)
  <2> HAVE res.ok
  <2>1. Fits(ws, ws[1].cols) /\ len % ws[1].cols = 0 /\ MatrixOutputs(m, ws, res.out, len \div ws[1].cols)
    BY <1>7 DEF BatchOf
  <2>2. c.fault = "none"
    BY <2>1, FaultsAreSeen DEF Fits, ws, len
  <2>3. len \div ws[1].cols = c.tokens
    BY <2>2, SoundMatrices DEF ws, len
  <2> QED BY <2>1, <2>2, <2>3 DEF Fits
<1>10. c.fault = "none" /\ WholeBlocks(ws) /\ ~res.ok => Mixes(c)
  <2> HAVE c.fault = "none" /\ WholeBlocks(ws) /\ ~res.ok
  <2>1. SameCols(ws, ws[1].cols) /\ EnoughBytes(ws) /\ len % ws[1].cols = 0 /\ ws[1].cols # 0
    BY SoundMatrices DEF ws, len, IsProjection
  <2>2. m.arch = "wasm" /\ is_mixed_kquant3(ps[1].kind, ps[2].kind, ps[3].kind)
    BY <1>7, <2>1 DEF BatchOf, Fits
  <2>3. c.call # "batch1"
    <3>1. c.call = "batch1" => 1 \in DOMAIN ws /\ n = 1
      BY <1>1, <1>2
    <3> QED BY <1>4, <1>8, <2>2, <3>1 DEF is_mixed_kquant3
  <2>4. CASE c.call = "batch2"
    <3>1. n = 2 /\ 1 \in 1 .. n /\ 2 \in 1 .. n
      BY <1>2, <2>4
    <3>2. ps[1].kind = c.kinds[1] /\ ps[2].kind = c.kinds[2] /\ ps[3].kind = c.kinds[1]
      BY <1>1, <1>4, <1>8, <2>4, <3>1
    <3> QED BY <2>2, <2>4, <3>1, <3>2 DEF Mixes, m, n
  <2>5. CASE c.call \in {"batch3", "kbatch3"}
    <3>1. n = 3 /\ 1 \in 1 .. n /\ 2 \in 1 .. n /\ 3 \in 1 .. n
      BY <1>2, <2>5
    <3>2. ps[1].kind = c.kinds[1] /\ ps[2].kind = c.kinds[2] /\ ps[3].kind = c.kinds[3]
      BY <1>1, <1>8, <3>1
    <3> QED BY <2>2, <2>5, <3>1, <3>2 DEF Mixes, m, n
  <2> QED BY <2>3, <2>4, <2>5 DEF BatchCalls
<1> QED BY <1>9, <1>10, Zenon DEF Outcome, m, ws, res

\* An accepted projection, fused, batched or in turn, leaves in each output
\* exactly what its matrix by itself gives each vector, or what Metal gives for
\* it, every row read within the matrix's bytes; and a call of whole blocks
\* without a fault is accepted unless it mixes K-quants where the caller has its
\* own way to do those: for every kind, size, batch and machine.
THEOREM ProjectionsAreTheirMatrices ==
  ASSUME NEW c, IsProjection(c)
  PROVE  Agrees(c)
<1> DEFINE m == c.machine
           ws == MatricesOf(c)
           res == Answer(c)
           rows == 0 .. c.tokens - 1
           whole == \A k \in DOMAIN ws : ws[k].cols # 0 /\ ws[k].cols % block_size(ws[k].kind) = 0
<1>1. Outcome(c)
  BY SingleOutcome, BatchOutcome
<1>2. IsMachine(m) /\ c.tokens \in Nat /\ DOMAIN ws = 1 .. Len(c.kinds) /\ Len(ws) = Len(c.kinds)
  BY ProjectionMatrices DEF IsProjection
<1>3. AreMatrices(ws)
  BY ProjectionMatrices
<1> HIDE DEF m, ws
<1>4. \A k \in DOMAIN ws : IsMatrix(ws[k])
  BY <1>3 DEF AreMatrices
<1>5. whole <=> WholeBlocks(ws)
  <2>1. \A k \in DOMAIN ws : row_bytes(ws[k].kind, ws[k].cols) # 0 <=> ws[k].cols # 0 /\ ws[k].cols % block_size(ws[k].kind) = 0
    <3> TAKE k \in DOMAIN ws
    <3> DEFINE kind == ws[k].kind
               cols == ws[k].cols
    <3>1. kind \in DOMAIN BlockBytes /\ cols \in Nat
      BY <1>4 DEF IsMatrix
    <3> HIDE DEF kind, cols
    <3>2. row_bytes(kind, cols) # 0 <=> cols # 0 /\ cols % block_size(kind) = 0
      BY <3>1, RowBytes
    <3> QED BY <3>2 DEF kind, cols
  <2> QED BY <2>1, Zenon DEF WholeBlocks
<1>6. res.ok => /\ c.fault = "none" /\ WholeBlocks(ws)
                /\ \A k \in DOMAIN ws :
                     \/ res.out[k] = Outputs(m, ws[k], c.tokens)
                     \/ m.metal # {} /\ res.out[k] = MetalOutputs(ws[k], c.tokens)
  BY <1>1, Zenon DEF Outcome, MatrixOutputs, m, ws
<1>7. c.fault = "none" /\ WholeBlocks(ws) /\ ~res.ok => Mixes(c)
  BY <1>1, Zenon DEF Outcome, ws
<1> HIDE DEF res, whole, rows
<1>8. res.ok => \A k \in DOMAIN ws :
                  /\ \/ res.out[k] = UNION {Alone(m, ws[k], t) : t \in rows}
                     \/ m.metal # {} /\ res.out[k] = UNION {AloneOnMetal(ws[k], t) : t \in rows}
                  /\ \A e \in res.out[k] : e[2].at + row_bytes(ws[k].kind, ws[k].cols) <= ws[k].bytes
  <2> SUFFICES ASSUME res.ok, NEW k \in DOMAIN ws
               PROVE  /\ \/ res.out[k] = UNION {Alone(m, ws[k], t) : t \in rows}
                         \/ m.metal # {} /\ res.out[k] = UNION {AloneOnMetal(ws[k], t) : t \in rows}
                      /\ \A e \in res.out[k] : e[2].at + row_bytes(ws[k].kind, ws[k].cols) <= ws[k].bytes
    OBVIOUS
  <2> DEFINE w == ws[k]
  <2>1. IsMatrix(w)
    BY <1>4
  <2>2. \/ res.out[k] = Outputs(m, w, c.tokens)
        \/ m.metal # {} /\ res.out[k] = MetalOutputs(w, c.tokens)
    BY <1>6
  <2>3. w.bytes >= BytesOf(w)
    <3>1. ~(Short(c, k) \/ Wide(c, k))
      BY <1>6 DEF Short, Wide
    <3> QED BY <1>2, <3>1, BytesSuffice DEF ws
  <2> HIDE DEF w
  <2>4. UNION {Alone(m, w, t) : t \in rows} = Outputs(m, w, c.tokens)
    BY <1>2, <2>1, OutputsAlone DEF rows
  <2>5. UNION {AloneOnMetal(w, t) : t \in rows} = MetalOutputs(w, c.tokens)
    BY DEF MetalOutputs, rows
  <2>6. ASSUME NEW e \in res.out[k]
        PROVE  e[2].at + row_bytes(w.kind, w.cols) <= w.bytes
    <3>1. e \in Outputs(m, w, c.tokens) \/ e \in MetalOutputs(w, c.tokens)
      BY <2>2, <2>6
    <3>2. PICK r \in 0 .. w.rows - 1 : e[2].at = r * row_bytes(w.kind, w.cols)
      BY <1>2, <2>1, <3>1, OutputsAreRows
    <3>3. r * row_bytes(w.kind, w.cols) + row_bytes(w.kind, w.cols) <= BytesOf(w)
      BY <2>1, RowsLie
    <3>4. row_bytes(w.kind, w.cols) \in Nat /\ w.rows \in Nat /\ w.bytes \in Int
      BY <2>1, RowBytes DEF IsMatrix
    <3> DEFINE a == e[2].at
               b == row_bytes(w.kind, w.cols)
               t == BytesOf(w)
    <3>5. a \in Nat /\ b \in Nat /\ t \in Nat /\ w.bytes \in Int /\ a + b <= t /\ t <= w.bytes
      <4>1. a \in Nat /\ b \in Nat /\ t \in Nat
        BY <3>2, <3>4, NextProduct DEF BytesOf
      <4>2. a + b <= t
        BY <3>2, <3>3
      <4> HIDE DEF a, b, t
      <4> QED BY <2>3, <3>4, <4>1, <4>2 DEF t
    <3> HIDE DEF a, b, t
    <3>6. a + b <= w.bytes
      BY <3>5
    <3> QED BY <3>6 DEF a, b
  <2> QED BY <2>2, <2>4, <2>5, <2>6 DEF w
<1>9. \A k \in DOMAIN ws : Checked(m, ws[k]).ok <=> ~(c.fault \in {"bytes", "width"} /\ k = Len(ws))
  <2> TAKE k \in DOMAIN ws
  <2> DEFINE w == ws[k]
  <2>1. w.bytes \in Int /\ BytesOf(w) \in Nat
    <3> HIDE DEF w
    <3>1. IsMatrix(w)
      BY <1>4 DEF w
    <3>2. row_bytes(w.kind, w.cols) \in Nat
      BY <3>1, RowBytes DEF IsMatrix
    <3> QED BY <3>1, <3>2, NextProduct DEF IsMatrix, BytesOf
  <2>2. w.bytes >= BytesOf(w) <=> ~(Short(c, k) \/ Wide(c, k))
    BY <1>2, BytesSuffice DEF ws
  <2>3. Checked(m, w).ok <=> w.bytes >= BytesOf(w)
    <3> HIDE DEF w
    <3>1. w.bytes < BytesOf(w) <=> ~(w.bytes >= BytesOf(w))
      BY <2>1
    <3>2. \A out : Done(out).ok /\ ~Refused.ok
      BY DoneIs
    <3> QED BY <3>1, <3>2, Zenon DEF Checked, matvec_k, matvec_small
  <2> QED BY <1>2, <2>2, <2>3 DEF Short, Wide
<1> QED BY <1>5, <1>6, <1>7, <1>8, <1>9, Zenon
        DEF Agrees, Answer, MatricesOf, LengthOf, m, ws, res, rows, whole

-----------------------------------------------------------------------------
(* The specification. *)

\* The calls of attention that are checked are calls.
LEMMA AttentionCallsAreCalls ==
  ASSUME NEW g \in CallGroups, NEW c \in CallsOf(g)
  PROVE  IsCall(c)
<1>1. PICK start \in Starts, b \in Batches, slots \in Slots, pattern \in Patterns, parallel \in BOOLEAN :
        c = Filled(g[1], g[2], start, b, slots, pattern, parallel)
  BY DEF CallsOf
<1>2. Intact(c) /\ Finite(c)
  BY DEF CallsOf
<1>3. g[1] \in Nat \X (1 .. MAX_KV_MUL) /\ g[2] \in Nat
  BY CallsAssumption DEF CallGroups
<1>4. g[1][1] \in Nat /\ g[1][2] \in 1 .. MAX_KV_MUL /\ MAX_KV_MUL \in Nat
  BY <1>3, TilesAssumption
<1>5. start \in Nat /\ b \in Nat \ {0} /\ slots \in Nat \ {0}
  BY CallsAssumption
<1>6. /\ c.n_kv_heads = g[1][1] /\ c.kv_mul = g[1][2] /\ c.slot_count = slots /\ c.sliding_window = g[2]
      /\ c.start_pos = start /\ c.b = b /\ c.parallel = parallel
  BY <1>1 DEF Filled
<1> QED BY <1>2, <1>3, <1>4, <1>5, <1>6 DEF IsCall

MachinesOf(A, S, T, M) == [arch : A, simd : S, threads : T, metal : M]

LEMMA AreMachines ==
  ASSUME NEW A, A \subseteq Targets, NEW S, S \subseteq BOOLEAN, NEW T, T \subseteq Nat,
         NEW M, M \subseteq SUBSET MetalCalls
  PROVE  \A m \in MachinesOf(A, S, T, M) : IsMachine(m)
BY DEF MachinesOf, IsMachine

\* The projections that are checked are projections.
LEMMA ProjectionCallsAreProjections ==
  ASSUME NEW call \in Fusions, NEW c \in ProjectionsOf(call)
  PROVE  IsProjection(c)
<1> DEFINE fair == [call : {call}, machine : Machines, kinds : KindsOf(call), rows : Heights, cols : Widths,
                    tokens : IF call \in BatchCalls THEN VectorCounts ELSE {1}, fault : {"none"}]
           x86 == [arch |-> "x86", simd |-> TRUE, threads |-> 2, metal |-> {}]
           foul == [call : {call}, machine : {x86}, kinds : KindsOf(call), rows : {<<2, 1, 3>>}, cols : {256},
                    tokens : {1}, fault : Faults \ {"none"}]
<1>1. c \in fair \/ c \in foul
  BY DEF ProjectionsOf
<1>2. \A m \in Machines \cup {x86} : IsMachine(m)
  <2>1. \A m \in Machines : IsMachine(m)
    <3> DEFINE real == [arch : {"arm", "x86"}, simd : BOOLEAN, threads : {1, 2}, metal : {{}}]
               other == [arch : {"other", "wasm"}, simd : {FALSE}, threads : {2}, metal : {{}}]
               calls == {{"q4k"}, {"q6k"}, {"q4k3", "q6k2", "q4k_q4k_q6k"}, {"q4k", "q4k2", "q6k3"}}
               apple == [arch : {"arm"}, simd : {TRUE}, threads : {2}, metal : calls]
    <3>1. calls \subseteq SUBSET MetalCalls
      BY DEF MetalCalls
    <3>2. real = MachinesOf({"arm", "x86"}, BOOLEAN, {1, 2}, {{}})
      BY DEF MachinesOf
    <3>3. other = MachinesOf({"other", "wasm"}, {FALSE}, {2}, {{}})
      BY DEF MachinesOf
    <3>4. apple = MachinesOf({"arm"}, {TRUE}, {2}, calls)
      BY DEF MachinesOf
    <3>5. {1, 2} \subseteq Nat /\ {2} \subseteq Nat /\ {{}} \subseteq SUBSET MetalCalls
          /\ {FALSE} \subseteq BOOLEAN /\ {TRUE} \subseteq BOOLEAN
          /\ {"arm", "x86"} \subseteq Targets /\ {"other", "wasm"} \subseteq Targets /\ {"arm"} \subseteq Targets
      BY DEF Targets
    <3> HIDE DEF real, other, apple, calls
    <3>6. \A m \in real : IsMachine(m)
      BY <3>2, <3>5, AreMachines
    <3>7. \A m \in other : IsMachine(m)
      BY <3>3, <3>5, AreMachines
    <3>8. \A m \in apple : IsMachine(m)
      BY <3>1, <3>4, <3>5, AreMachines
    <3>9. Machines = real \cup other \cup apple
      BY DEF Machines, real, other, apple, calls
    <3> QED BY <3>6, <3>7, <3>8, <3>9
  <2>2. IsMachine(x86)
    BY DEF IsMachine, Targets
  <2> QED BY <2>1, <2>2
<1>3. ASSUME NEW kinds \in KindsOf(call)
      PROVE  /\ kinds \in Seq(DOMAIN BlockBytes)
             /\ \/ call \in {"fused3", "kquant3", "batch3", "kbatch3"} /\ Len(kinds) = 3
                \/ call \in {"fused2", "batch2"} /\ Len(kinds) = 2
                \/ call = "batch1" /\ Len(kinds) = 1
                \/ call \in {"q4k", "q5k", "q6k"} /\ Len(kinds) \in {2, 3}
  <2>1. \A n \in Nat : \A f \in [1 .. n -> DOMAIN BlockBytes] : f \in Seq(DOMAIN BlockBytes) /\ Len(f) = n
    <3> TAKE n \in Nat
    <3> TAKE f \in [1 .. n -> DOMAIN BlockBytes]
    <3>1. f \in Seq(DOMAIN BlockBytes)
      BY SeqDef
    <3> QED BY <3>1, LenProperties
  <2>2. \A n \in Nat : [1 .. n -> MatrixKinds] \subseteq [1 .. n -> DOMAIN BlockBytes]
    BY ProjectionsAssumption
  <2>3. [1 .. 3 -> MatrixKinds \cap KQuants] \subseteq [1 .. 3 -> DOMAIN BlockBytes]
    BY ProjectionsAssumption
  <2>4. CASE call \in {"q4k", "q5k", "q6k"}
    <3>1. "Q4K" \in DOMAIN BlockBytes /\ "Q5K" \in DOMAIN BlockBytes /\ "Q6K" \in DOMAIN BlockBytes
      BY DEF BlockBytes
    <3>2. /\ call = "q4k" => KindsOf(call) = {<<"Q4K", "Q4K">>, <<"Q4K", "Q4K", "Q4K">>}
          /\ call = "q5k" => KindsOf(call) = {<<"Q5K", "Q5K">>, <<"Q5K", "Q5K", "Q5K">>}
          /\ call = "q6k" => KindsOf(call) = {<<"Q6K", "Q6K">>, <<"Q6K", "Q6K", "Q6K">>}
      BY DEF KindsOf, PairCalls
    <3>3. PICK kind \in {"Q4K", "Q5K", "Q6K"} : kinds = <<kind, kind>> \/ kinds = <<kind, kind, kind>>
      BY <1>3, <2>4, <3>2
    <3>4. kind \in DOMAIN BlockBytes
      <4> QED BY <3>1
    <3>5. /\ <<kind, kind>> \in Seq(DOMAIN BlockBytes) /\ Len(<<kind, kind>>) = 2
          /\ <<kind, kind, kind>> \in Seq(DOMAIN BlockBytes) /\ Len(<<kind, kind, kind>>) = 3
      BY <3>4
    <3>6. kinds \in Seq(DOMAIN BlockBytes) /\ Len(kinds) \in {2, 3}
      BY <3>3, <3>5
    <3> QED BY <2>4, <3>6
  <2>5. CASE call \in {"kquant3", "kbatch3"}
    <3>1. KindsOf(call) = [1 .. 3 -> MatrixKinds \cap KQuants]
      BY <2>5 DEF KindsOf, PairCalls
    <3> QED BY <1>3, <2>1, <2>3, <2>5, <3>1
  <2>6. CASE call = "batch1"
    <3>1. KindsOf(call) = [1 .. 1 -> MatrixKinds]
      BY <2>6 DEF KindsOf, PairCalls
    <3> QED BY <1>3, <2>1, <2>2, <2>6, <3>1
  <2>7. CASE call \in {"fused2", "batch2"}
    <3>1. kinds \in [1 .. 2 -> MatrixKinds]
      BY <1>3, <2>7 DEF KindsOf, PairCalls
    <3> QED BY <2>1, <2>2, <2>7, <3>1
  <2>8. CASE call \in {"fused3", "batch3"}
    <3>1. kinds \in [1 .. 3 -> MatrixKinds]
      BY <1>3, <2>8 DEF KindsOf, PairCalls
    <3> QED BY <2>1, <2>2, <2>8, <3>1
  <2> QED BY <2>4, <2>5, <2>6, <2>7, <2>8 DEF Fusions
<1> HIDE DEF x86
<1>4. CASE c \in fair
  <2>1. /\ c.call = call /\ c.machine \in Machines /\ c.kinds \in KindsOf(call) /\ c.rows \in Heights
        /\ c.cols \in Widths /\ c.tokens \in (IF call \in BatchCalls THEN VectorCounts ELSE {1}) /\ c.fault = "none"
    BY <1>4
  <2>2. IsMachine(c.machine)
    BY <1>2, <2>1
  <2>3. \A k \in 1 .. 3 : c.rows[k] \in Nat
    <3>1. c.rows \in Nat \X Nat \X Nat
      BY <2>1, ProjectionsAssumption
    <3>2. c.rows[1] \in Nat /\ c.rows[2] \in Nat /\ c.rows[3] \in Nat
      BY <3>1
    <3>3. 1 .. 3 = {1, 2, 3}
      OBVIOUS
    <3> QED BY <3>2, <3>3
  <2>4. c.cols \in Nat \ {0} /\ c.tokens \in Nat /\ (call \notin BatchCalls => c.tokens = 1)
    <3>1. c.cols \in Nat \ {0} /\ (call \in BatchCalls => c.tokens \in VectorCounts) /\ (call \notin BatchCalls => c.tokens = 1)
      BY <2>1, ProjectionsAssumption
    <3>2. \A t \in VectorCounts : t \in Nat
      BY ProjectionsAssumption
    <3> QED BY <3>1, <3>2
  <2>5. /\ c.kinds \in Seq(DOMAIN BlockBytes)
        /\ \/ c.call \in {"fused3", "kquant3", "batch3", "kbatch3"} /\ Len(c.kinds) = 3
           \/ c.call \in {"fused2", "batch2"} /\ Len(c.kinds) = 2
           \/ c.call = "batch1" /\ Len(c.kinds) = 1
           \/ c.call \in {"q4k", "q5k", "q6k"} /\ Len(c.kinds) \in {2, 3}
    BY <1>3, <2>1
  <2> QED BY <2>1, <2>2, <2>3, <2>4, <2>5 DEF IsProjection, Faults
<1>5. CASE c \in foul
  <2>1. /\ c.call = call /\ c.machine = x86 /\ c.kinds \in KindsOf(call) /\ c.rows = <<2, 1, 3>>
        /\ c.cols = 256 /\ c.tokens = 1 /\ c.fault \in Faults
    BY <1>5
  <2>2. IsMachine(c.machine) /\ c.machine.metal = {}
    BY <1>2, <2>1 DEF x86
  <2>3. \A k \in 1 .. 3 : c.rows[k] \in Nat /\ c.rows[k] # 0
    BY <2>1
  <2>4. /\ c.kinds \in Seq(DOMAIN BlockBytes)
        /\ \/ c.call \in {"fused3", "kquant3", "batch3", "kbatch3"} /\ Len(c.kinds) = 3
           \/ c.call \in {"fused2", "batch2"} /\ Len(c.kinds) = 2
           \/ c.call = "batch1" /\ Len(c.kinds) = 1
           \/ c.call \in {"q4k", "q5k", "q6k"} /\ Len(c.kinds) \in {2, 3}
    BY <1>3, <2>1
  <2>5. \A k \in DOMAIN c.kinds : c.cols % block_size(c.kinds[k]) = 0
    BY <2>1 DEF block_size
  <2> QED BY <2>1, <2>2, <2>3, <2>4, <2>5 DEF IsProjection
<1> QED BY <1>1, <1>4, <1>5

-----------------------------------------------------------------------------
(* Forward passes: what a layer reads and writes of a cache. *)

Depth(m) == Len(m.layers)

\* A model a forward pass is made for.
IsModel(m) ==
  /\ Depth(m) \in Nat /\ DOMAIN m.layers = 1 .. Depth(m)
  /\ m.storage \in Nat \ {0} /\ m.sliding_window \in Nat
  /\ m.arch = "qwen35" => \A l \in 1 .. Depth(m) : m.layers[l].kind \in {"linear", "attention"}
  /\ m.arch = "nemotron_h" =>
       \A l \in 1 .. Depth(m) : m.layers[l].kind \in {"mamba2", "attention", "experts", "dense"}

\* A cache of m: rows and recurrent state for each layer.
IsCache(m, c) ==
  /\ c = [k |-> c.k, v |-> c.v, storage_len |-> m.storage, conv |-> c.conv, ssm |-> c.ssm]
  /\ c.k = [n \in 1 .. Depth(m) |-> c.k[n]] /\ \A n \in 1 .. Depth(m) : DOMAIN c.k[n] = 0 .. m.storage - 1
  /\ c.v = [n \in 1 .. Depth(m) |-> c.v[n]] /\ \A n \in 1 .. Depth(m) : DOMAIN c.v[n] = 0 .. m.storage - 1
  /\ c.conv = [n \in 1 .. Depth(m) |-> c.conv[n]]
  /\ c.ssm = [n \in 1 .. Depth(m) |-> c.ssm[n]]

SameRows(n, c, d)  == c.k[n] = d.k[n] /\ c.v[n] = d.v[n]
SameState(n, c, d) == c.conv[n] = d.conv[n] /\ c.ssm[n] = d.ssm[n]

\* Caches are the same if their layers are.
LEMMA SameCache ==
  ASSUME NEW m, NEW c, NEW d, IsCache(m, c), IsCache(m, d),
         \A n \in 1 .. Depth(m) : SameRows(n, c, d) /\ SameState(n, c, d)
  PROVE  c = d
<1>1. c.k = d.k /\ c.v = d.v /\ c.conv = d.conv /\ c.ssm = d.ssm
  <2>1. c.k = d.k
    BY DEF IsCache, SameRows
  <2>2. c.v = d.v
    BY DEF IsCache, SameRows
  <2>3. c.conv = d.conv
    BY DEF IsCache, SameState
  <2>4. c.ssm = d.ssm
    BY DEF IsCache, SameState
  <2> QED BY <2>1, <2>2, <2>3, <2>4
<1> QED BY <1>1 DEF IsCache

\* The cache with the rows of position pos put in slot n.
Put(c, n, p, key, value) ==
  [k |-> [c.k EXCEPT ![n] = [c.k[n] EXCEPT ![p] = key]],
   v |-> [c.v EXCEPT ![n] = [c.v[n] EXCEPT ![p] = value]],
   storage_len |-> c.storage_len, conv |-> c.conv, ssm |-> c.ssm]

\* Storing a key and a value puts both in the position's slot.
LEMMA StandardWriteIs ==
  ASSUME NEW m, NEW c, IsCache(m, c), NEW n, NEW pos, NEW key, NEW value
  PROVE  Standard!write_v(Standard!write_k(c, n, pos, key), n, pos, value)
           = Put(c, n, pos % m.storage, key, value)
<1>1. c = [k |-> c.k, v |-> c.v, storage_len |-> m.storage, conv |-> c.conv, ssm |-> c.ssm]
  BY DEF IsCache
<1>2. Standard!write_k(c, n, pos, key) =
        [k |-> [c.k EXCEPT ![n] = [c.k[n] EXCEPT ![pos % m.storage] = key]], v |-> c.v,
         storage_len |-> m.storage, conv |-> c.conv, ssm |-> c.ssm]
  BY <1>1 DEF Standard!write_k
<1> QED BY <1>1, <1>2 DEF Standard!write_v, Put

\* So it does in the hybrid decoders.
LEMMA HybridWriteIs ==
  ASSUME NEW m, NEW c, IsCache(m, c), NEW n, NEW pos, NEW key, NEW value
  PROVE  Hybrid!write_v(Hybrid!write_k(c, n, pos, key), n, pos, value)
           = Put(c, n, pos % m.storage, key, value)
<1>1. c = [k |-> c.k, v |-> c.v, storage_len |-> m.storage, conv |-> c.conv, ssm |-> c.ssm]
  BY DEF IsCache
<1>2. Hybrid!write_k(c, n, pos, key) =
        [k |-> [c.k EXCEPT ![n] = [c.k[n] EXCEPT ![pos % m.storage] = key]], v |-> c.v,
         storage_len |-> m.storage, conv |-> c.conv, ssm |-> c.ssm]
  BY <1>1 DEF Hybrid!write_k
<1> QED BY <1>1, <1>2 DEF Hybrid!write_v, Put

\* It keeps the cache a cache and every other row.
LEMMA PutIsCache ==
  ASSUME NEW m, NEW c, IsCache(m, c), NEW n \in 1 .. Depth(m), NEW p \in 0 .. m.storage - 1, NEW key, NEW value
  PROVE  /\ IsCache(m, Put(c, n, p, key, value))
         /\ \A i \in 1 .. Depth(m) : i # n => SameRows(i, Put(c, n, p, key, value), c)
         /\ \A i \in 1 .. Depth(m) : SameState(i, Put(c, n, p, key, value), c)
         /\ \A q \in 0 .. m.storage - 1 :
              /\ Put(c, n, p, key, value).k[n][q] = IF q = p THEN key ELSE c.k[n][q]
              /\ Put(c, n, p, key, value).v[n][q] = IF q = p THEN value ELSE c.v[n][q]
<1> DEFINE put == Put(c, n, p, key, value)
           k == [c.k EXCEPT ![n] = [c.k[n] EXCEPT ![p] = key]]
           v == [c.v EXCEPT ![n] = [c.v[n] EXCEPT ![p] = value]]
<1>1. put = [k |-> k, v |-> v, storage_len |-> m.storage, conv |-> c.conv, ssm |-> c.ssm]
  <2>1. c.storage_len = m.storage
    BY DEF IsCache
  <2> QED BY <2>1 DEF Put
<1>2. /\ k = [i \in 1 .. Depth(m) |-> k[i]] /\ \A i \in 1 .. Depth(m) : i # n => k[i] = c.k[i]
      /\ k[n] = [c.k[n] EXCEPT ![p] = key]
  BY DEF IsCache
<1>3. /\ v = [i \in 1 .. Depth(m) |-> v[i]] /\ \A i \in 1 .. Depth(m) : i # n => v[i] = c.v[i]
      /\ v[n] = [c.v[n] EXCEPT ![p] = value]
  BY DEF IsCache
<1> HIDE DEF put, k, v
<1>4. put.k = k /\ put.v = v /\ put.conv = c.conv /\ put.ssm = c.ssm /\ put.storage_len = m.storage
  BY <1>1
<1>5. DOMAIN c.k[n] = 0 .. m.storage - 1 /\ DOMAIN c.v[n] = 0 .. m.storage - 1
  BY DEF IsCache
<1>6. \A i \in 1 .. Depth(m) : DOMAIN k[i] = 0 .. m.storage - 1 /\ DOMAIN v[i] = 0 .. m.storage - 1
  BY <1>2, <1>3, <1>5 DEF IsCache
<1>7. IsCache(m, put)
  BY <1>1, <1>2, <1>3, <1>4, <1>6 DEF IsCache
<1>8. \A q \in 0 .. m.storage - 1 :
        /\ k[n][q] = IF q = p THEN key ELSE c.k[n][q]
        /\ v[n][q] = IF q = p THEN value ELSE c.v[n][q]
  BY <1>2, <1>3, <1>5
<1> QED BY <1>2, <1>3, <1>4, <1>7, <1>8 DEF SameRows, SameState, put

-----------------------------------------------------------------------------
(* Where a layer keeps its rows or its state. *)

\* The n-th layer of a kind has an index no layer before it has.
LEMMA CountIs ==
  ASSUME NEW m, IsModel(m), NEW kinds, NEW l \in 1 .. Depth(m), m.layers[l].kind \in kinds
  PROVE  /\ Hybrid!Count(m, kinds, l) \in 1 .. l
         /\ \A i \in 1 .. l - 1 : Hybrid!Count(m, kinds, i) # Hybrid!Count(m, kinds, l)
<1> DEFINE Of(i) == {j \in 1 .. i : m.layers[j].kind \in kinds}
<1>0. Depth(m) \in Nat /\ l \in Nat
  BY DEF IsModel
<1>1. ASSUME NEW i \in 1 .. l
      PROVE  IsFiniteSet(Of(i)) /\ Cardinality(Of(i)) \in Nat /\ Cardinality(Of(i)) <= i
  <2>0. 1 \in Int /\ i \in Int /\ i \in Nat /\ i >= 1
    BY <1>0
  <2>4. IsFiniteSet(1 .. i) /\ Cardinality(1 .. i) = IF 1 > i THEN 0 ELSE i - 1 + 1
    BY <2>0, FS_Interval
  <2>1. IsFiniteSet(1 .. i) /\ Cardinality(1 .. i) = i
    BY <2>0, <2>4
  <2>2. Of(i) \in SUBSET (1 .. i)
    OBVIOUS
  <2> HIDE DEF Of
  <2>3. IsFiniteSet(Of(i)) /\ Cardinality(Of(i)) <= Cardinality(1 .. i)
    BY <2>1, <2>2, FS_Subset
  <2> QED BY <2>1, <2>3, FS_CardinalityType
<1>2. l \in 1 .. l /\ l \in Of(l) /\ Of(l) # {}
  BY <1>0
<1>3. Cardinality(Of(l)) # 0
  <2> HIDE DEF Of
  <2> QED BY <1>1, <1>2, FS_EmptySet
<1>4. ASSUME NEW i \in 1 .. l - 1
      PROVE  Cardinality(Of(i)) # Cardinality(Of(l))
  <2>1. i \in 1 .. l /\ Of(i) \in SUBSET Of(l) /\ l \notin Of(i)
    BY <1>0
  <2> HIDE DEF Of
  <2> QED BY <1>1, <1>2, <2>1, FS_Subset
<1>5. Cardinality(Of(l)) \in 1 .. l
  <2> HIDE DEF Of
  <2> QED BY <1>0, <1>1, <1>2, <1>3
<1>7. \A S : Hybrid!Cardinality(S) = Cardinality(S)
  BY Zenon DEF Hybrid!Cardinality, Cardinality
<1>6. \A i : Hybrid!Count(m, kinds, i) = Cardinality(Of(i))
  BY <1>7, Zenon DEF Hybrid!Count
<1> HIDE DEF Of
<1> QED BY <1>4, <1>5, <1>6

\* The slot of a layer's rows, and the index of its recurrent state; 0: none.
RowsAt(m, l) ==
  IF m.arch = "standard" THEN l
  ELSE IF m.layers[l].kind = "attention" THEN Hybrid!kv_slot(m, l) ELSE 0
StateAt(m, l) ==
  IF m.arch # "standard" /\ m.layers[l].kind \in {"linear", "mamba2"} THEN Hybrid!recurrent_index(m, l) ELSE 0

\* No two layers share rows or state.
LEMMA LayersKeepApart ==
  ASSUME NEW m, IsModel(m), NEW l \in 1 .. Depth(m)
  PROVE  /\ RowsAt(m, l) \in 0 .. Depth(m) /\ StateAt(m, l) \in 0 .. Depth(m)
         /\ \A i \in 1 .. l - 1 : RowsAt(m, i) = RowsAt(m, l) => RowsAt(m, l) = 0
         /\ \A i \in 1 .. l - 1 : StateAt(m, i) = StateAt(m, l) => StateAt(m, l) = 0
         /\ RowsAt(m, l) # 0 <=> m.arch = "standard" \/ m.layers[l].kind = "attention"
         /\ StateAt(m, l) # 0 <=> m.arch # "standard" /\ m.layers[l].kind \in {"linear", "mamba2"}
<1>0. Depth(m) \in Nat
  BY DEF IsModel
<1>1. m.layers[l].kind = "attention" =>
        /\ Hybrid!kv_slot(m, l) \in 1 .. l
        /\ \A i \in 1 .. l - 1 : Hybrid!kv_slot(m, i) # Hybrid!kv_slot(m, l)
  <2>1. "attention" \in {"attention"}
    OBVIOUS
  <2> QED BY <2>1, CountIs DEF Hybrid!kv_slot
<1>2. m.layers[l].kind \in {"linear", "mamba2"} =>
        /\ Hybrid!recurrent_index(m, l) \in 1 .. l
        /\ \A i \in 1 .. l - 1 : Hybrid!recurrent_index(m, i) # Hybrid!recurrent_index(m, l)
  BY CountIs DEF Hybrid!recurrent_index
<1>3. RowsAt(m, l) \in 0 .. Depth(m) /\ StateAt(m, l) \in 0 .. Depth(m)
      /\ (RowsAt(m, l) # 0 <=> m.arch = "standard" \/ m.layers[l].kind = "attention")
      /\ (StateAt(m, l) # 0 <=> m.arch # "standard" /\ m.layers[l].kind \in {"linear", "mamba2"})
  BY <1>0, <1>1, <1>2 DEF RowsAt, StateAt
<1>4. ASSUME NEW i \in 1 .. l - 1, RowsAt(m, i) = RowsAt(m, l)
      PROVE  RowsAt(m, l) = 0
  BY <1>0, <1>1, <1>4 DEF RowsAt
<1>5. ASSUME NEW i \in 1 .. l - 1, StateAt(m, i) = StateAt(m, l)
      PROVE  StateAt(m, l) = 0
  BY <1>0, <1>2, <1>5 DEF StateAt
<1> QED BY <1>3, <1>4, <1>5

\* A token attends what its slots hold.
LEMMA AttentionOfSlots ==
  ASSUME NEW m, IsModel(m), NEW c, NEW d, IsCache(m, c), IsCache(m, d), NEW n, NEW q,
         NEW first \in Nat, NEW pos \in Nat,
         \A p \in first .. pos : /\ c.k[n][p % m.storage] = d.k[n][p % m.storage]
                                 /\ c.v[n][p % m.storage] = d.v[n][p % m.storage]
  PROVE  Standard!attention(c, n, q, first, pos) = Standard!attention(d, n, q, first, pos)
<1> DEFINE Row(e, i) == Standard!T("row", 0, <<e.k[n][(first + i - 1) % m.storage], e.v[n][(first + i - 1) % m.storage]>>)
           rows(e) == [i \in 1 .. pos - first + 1 |-> Row(e, i)]
<1>1. \A i \in 1 .. pos - first + 1 : Row(c, i) = Row(d, i)
  <2> TAKE i \in 1 .. pos - first + 1
  <2>1. first + i - 1 \in first .. pos
    OBVIOUS
  <2> QED BY <2>1
<1>2. c.storage_len = m.storage /\ d.storage_len = m.storage
  BY DEF IsCache
<1>3. /\ Standard!attention(c, n, q, first, pos) = Standard!T("attention", n, <<q>> \o rows(c))
      /\ Standard!attention(d, n, q, first, pos) = Standard!T("attention", n, <<q>> \o rows(d))
  BY <1>2 DEF Standard!attention
<1> HIDE DEF Row
<1>4. rows(c) = rows(d)
  BY <1>1
<1> QED BY <1>3, <1>4

\* Attention is the same in both decoders.
LEMMA HybridAttention ==
  ASSUME NEW c, NEW n, NEW q, NEW first, NEW pos
  PROVE  Hybrid!attention(c, n, q, first, pos) = Standard!attention(c, n, q, first, pos)
BY DEF Hybrid!attention, Standard!attention, Hybrid!T, Standard!T

-----------------------------------------------------------------------------
(* A layer in three parts: what goes in, the mixing with the cache, and what *)
(* becomes of what comes out.                                                *)

Key(m, l, pos, x) ==
  IF m.arch = "standard"
  THEN Standard!rope(pos, Standard!ApplyIf(m.layers[l].k_norm, "attn_k_norm", l,
         Standard!add_bias_if_present(m.layers[l], "bk", l,
           Standard!Apply("wk", l, Standard!Apply("attn_norm", l, x)))))
  ELSE IF m.arch = "qwen35"
  THEN Hybrid!rope(pos, Hybrid!ApplyIf(m.layers[l].norms, "k_norm", l,
         Hybrid!Apply("k", l, Hybrid!Apply("attn_norm", l, x))))
  ELSE Hybrid!Apply("wk", l, Hybrid!Apply("attn_norm", l, x))

Value(m, l, x) ==
  IF m.arch = "standard"
  THEN Standard!add_bias_if_present(m.layers[l], "bv", l,
         Standard!Apply("wv", l, Standard!Apply("attn_norm", l, x)))
  ELSE Hybrid!Apply(IF m.arch = "qwen35" THEN "v" ELSE "wv", l, Hybrid!Apply("attn_norm", l, x))

QueryRow(m, l, pos, x) ==
  IF m.arch = "standard"
  THEN Standard!rope(pos, Standard!ApplyIf(m.layers[l].q_norm, "attn_q_norm", l,
         Standard!add_bias_if_present(m.layers[l], "bq", l,
           Standard!Apply("wq", l, Standard!Apply("attn_norm", l, x)))))
  ELSE IF m.arch = "qwen35"
  THEN Hybrid!rope(pos, Hybrid!ApplyIf(m.layers[l].norms, "q_norm", l,
         Hybrid!T("q_half", l, <<Hybrid!Apply("q_gate", l, Hybrid!Apply("attn_norm", l, x))>>)))
  ELSE Hybrid!Apply("wq", l, Hybrid!Apply("attn_norm", l, x))

FirstAttended(m, pos) ==
  IF m.arch = "standard" THEN Standard!attention_start_pos(pos, m.sliding_window) ELSE 0

\* The input of a recurrent layer, and what goes into its state beside it.
Projected(m, l, x) ==
  IF m.arch = "qwen35" THEN Hybrid!Apply("qkv", l, Hybrid!Apply("attn_norm", l, x))
  ELSE Hybrid!T("xbc", l, <<Hybrid!Apply("in_proj", l, Hybrid!Apply("attn_norm", l, x))>>)
Coefficients(m, l, x) ==
  IF m.arch = "qwen35"
  THEN <<Hybrid!Apply("alpha", l, Hybrid!Apply("attn_norm", l, x)),
         Hybrid!Apply("beta", l, Hybrid!Apply("attn_norm", l, x))>>
  ELSE <<Hybrid!T("dt", l, <<Hybrid!Apply("in_proj", l, Hybrid!Apply("attn_norm", l, x))>>)>>

\* What a layer has its token read and leave in the cache.
Mixer(m, l, pos, x, c) ==
  IF RowsAt(m, l) # 0
  THEN LET after == Put(c, RowsAt(m, l), pos % m.storage, Key(m, l, pos, x), Value(m, l, x))
       IN  [cache |-> after,
            y     |-> Standard!attention(after, RowsAt(m, l), QueryRow(m, l, pos, x), FirstAttended(m, pos), pos)]
  ELSE IF StateAt(m, l) # 0 THEN Hybrid!Recur(l, StateAt(m, l), c, Projected(m, l, x), Coefficients(m, l, x))
  ELSE [cache |-> c, y |-> <<>>]

QwenProj(m, l, x, y) ==
  LET xn == Hybrid!Apply("attn_norm", l, x)
  IN  Hybrid!Apply("out", l,
        IF m.layers[l].kind = "linear" THEN Hybrid!qwen35_gated(l, Hybrid!Apply("gate", l, xn), y)
        ELSE Hybrid!T("sigmoid_mul", 0, <<y, Hybrid!T("gate_half", l, <<Hybrid!Apply("q_gate", l, xn)>>)>>))

QwenFinish(m, l, x, y) == Hybrid!Qwen35Ffn(l, Hybrid!Add(x, QwenProj(m, l, x, y)))

NemotronProj(m, l, x, y) ==
  LET xn == Hybrid!Apply("attn_norm", l, x)
      kind == m.layers[l].kind
  IN  IF kind = "mamba2"
      THEN Hybrid!Apply("out_proj", l, Hybrid!Apply("norm", l,
             Hybrid!silu_mul(Hybrid!T("z", l, <<Hybrid!Apply("in_proj", l, xn)>>), y)))
      ELSE IF kind = "attention"
      THEN Hybrid!add_bias_if_present(m.layers[l], "bo", l, Hybrid!Apply("wo", l, y))
      ELSE IF kind = "experts" THEN Hybrid!nemotron_moe_ffn_into(l, xn)
      ELSE Hybrid!NemotronDense(m, l, xn)

NemotronFinish(m, l, x, y) == Hybrid!Add(x, NemotronProj(m, l, x, y))

StandardFinish(m, l, x, y) ==
  LET x2  == Standard!Add(x, Standard!Apply("wo", l, y))
      xn2 == Standard!Apply("ffn_norm", l, x2)
  IN  Standard!Add(x2, IF m.layers[l].moe THEN Standard!routed_moe_ffn_into(l, xn2) ELSE Standard!DenseFfn(l, xn2))

Finish(m, l, x, y) ==
  IF m.arch = "standard" THEN StandardFinish(m, l, x, y)
  ELSE IF m.arch = "qwen35" THEN QwenFinish(m, l, x, y)
  ELSE NemotronFinish(m, l, x, y)

\* The decoders that have a batch.
HasBatch(m) == m.arch \in {"standard", "qwen35", "nemotron_h"}

OneLayer(m, l, pos, s) ==
  IF m.arch = "standard" THEN Standard!DecodeLayer(m, l, pos, s)
  ELSE IF m.arch = "qwen35" THEN Hybrid!Qwen35Layer(m, l, pos, s)
  ELSE Hybrid!NemotronLayer(m, l, pos, s)

\* A layer is its mixer, then what finishes the row.
LEMMA LayerIs ==
  ASSUME NEW m, IsModel(m), HasBatch(m), NEW l \in 1 .. Depth(m), NEW pos \in Nat, NEW s, IsCache(m, s.cache)
  PROVE  OneLayer(m, l, pos, s) =
           [x |-> Finish(m, l, s.x, Mixer(m, l, pos, s.x, s.cache).y),
            cache |-> Mixer(m, l, pos, s.x, s.cache).cache]
<1> DEFINE c == s.cache
           x == s.x
           n == RowsAt(m, l)
           r == StateAt(m, l)
           kind == m.layers[l].kind
           after == Put(c, n, pos % m.storage, Key(m, l, pos, x), Value(m, l, x))
           y == Standard!attention(after, n, QueryRow(m, l, pos, x), FirstAttended(m, pos), pos)
<1>1. /\ n # 0 <=> m.arch = "standard" \/ kind = "attention"
      /\ r # 0 <=> m.arch # "standard" /\ kind \in {"linear", "mamba2"}
  BY LayersKeepApart
<1>2. n # 0 => Mixer(m, l, pos, x, c) = [cache |-> after, y |-> y]
  BY DEF Mixer
<1>3. n = 0 /\ r # 0 => Mixer(m, l, pos, x, c) = Hybrid!Recur(l, r, c, Projected(m, l, x), Coefficients(m, l, x))
  BY DEF Mixer
<1>4. n = 0 /\ r = 0 => Mixer(m, l, pos, x, c).cache = c
  BY DEF Mixer
<1>5. n # 0 => /\ Standard!write_v(Standard!write_k(c, n, pos, Key(m, l, pos, x)), n, pos, Value(m, l, x)) = after
               /\ Hybrid!write_v(Hybrid!write_k(c, n, pos, Key(m, l, pos, x)), n, pos, Value(m, l, x)) = after
  BY StandardWriteIs, HybridWriteIs
<1>6. Hybrid!attention(after, n, QueryRow(m, l, pos, x), FirstAttended(m, pos), pos) = y
  BY HybridAttention
<1>7. CASE m.arch = "standard"
  <2>1. n = l
    BY <1>7 DEF RowsAt
  <2>2. Standard!DecodeLayer(m, l, pos, s) = [x |-> StandardFinish(m, l, x, y), cache |-> after]
    <3> HIDE DEF after, n
    <3> QED BY <1>1, <1>5, <1>7, <2>1
       DEF Standard!DecodeLayer, Standard!apply_qk_norm_if_present, Standard!apply_model_rope_prepared,
           Key, Value, QueryRow, FirstAttended, StandardFinish
  <2> QED BY <1>1, <1>2, <1>7, <2>2 DEF OneLayer, Finish
<1>8. CASE m.arch = "qwen35" /\ kind = "attention"
  <2>1. n = Hybrid!kv_slot(m, l)
    BY <1>8 DEF RowsAt
  <2>2. Hybrid!Qwen35Layer(m, l, pos, s) = [x |-> QwenFinish(m, l, x, y), cache |-> after]
    <3> HIDE DEF after, n, y
    <3> QED BY <1>1, <1>5, <1>6, <1>8, <2>1
       DEF Hybrid!Qwen35Layer, Hybrid!qwen35_attention_step, Hybrid!qwen35_split_q_gate,
           Key, Value, QueryRow, FirstAttended, QwenFinish, QwenProj
  <2> QED BY <1>1, <1>2, <1>8, <2>2 DEF OneLayer, Finish
<1>9. CASE m.arch = "qwen35" /\ kind = "linear"
  <2>1. r = Hybrid!recurrent_index(m, l)
    BY <1>9 DEF StateAt
  <2>2. Hybrid!Qwen35Layer(m, l, pos, s) =
          [x |-> QwenFinish(m, l, x, Hybrid!Recur(l, r, c, Projected(m, l, x), Coefficients(m, l, x)).y),
           cache |-> Hybrid!Recur(l, r, c, Projected(m, l, x), Coefficients(m, l, x)).cache]
    <3> HIDE DEF r
    <3> QED BY <1>9, <2>1 DEF Hybrid!Qwen35Layer, Hybrid!qwen35_linear_step, Projected, Coefficients, QwenFinish, QwenProj
  <2> QED BY <1>1, <1>3, <1>9, <2>2 DEF OneLayer, Finish
<1>10. CASE m.arch = "nemotron_h" /\ kind = "attention"
  <2>1. n = Hybrid!kv_slot(m, l)
    BY <1>10 DEF RowsAt
  <2>2. Hybrid!NemotronLayer(m, l, pos, s) = [x |-> NemotronFinish(m, l, x, y), cache |-> after]
    <3> HIDE DEF after, n, y
    <3> QED BY <1>1, <1>5, <1>6, <1>10, <2>1
       DEF Hybrid!NemotronLayer, Hybrid!NemotronMixer, Hybrid!NemotronAttention,
           Key, Value, QueryRow, FirstAttended, NemotronFinish, NemotronProj
  <2> QED BY <1>1, <1>2, <1>10, <2>2 DEF OneLayer, Finish
<1>11. CASE m.arch = "nemotron_h" /\ kind = "mamba2"
  <2>1. r = Hybrid!recurrent_index(m, l)
    BY <1>11 DEF StateAt
  <2>2. Hybrid!NemotronLayer(m, l, pos, s) =
          [x |-> NemotronFinish(m, l, x, Hybrid!Recur(l, r, c, Projected(m, l, x), Coefficients(m, l, x)).y),
           cache |-> Hybrid!Recur(l, r, c, Projected(m, l, x), Coefficients(m, l, x)).cache]
    <3> HIDE DEF r
    <3> QED BY <1>11, <2>1
       DEF Hybrid!NemotronLayer, Hybrid!NemotronMixer, Hybrid!nemotron_mamba2_step, Hybrid!nemotron_mamba2_core,
           Projected, Coefficients, NemotronFinish, NemotronProj
  <2> QED BY <1>1, <1>3, <1>11, <2>2 DEF OneLayer, Finish
<1>12. CASE m.arch = "nemotron_h" /\ kind \in {"experts", "dense"}
  <2>1. \A z : Hybrid!NemotronLayer(m, l, pos, s) = [x |-> NemotronFinish(m, l, x, z), cache |-> c]
    BY <1>12 DEF Hybrid!NemotronLayer, Hybrid!NemotronMixer, NemotronFinish, NemotronProj
  <2> QED BY <1>1, <1>4, <1>12, <2>1 DEF OneLayer, Finish
<1> QED BY <1>7, <1>8, <1>9, <1>10, <1>11, <1>12 DEF HasBatch, IsModel

-----------------------------------------------------------------------------
(* A layer mixes its token with its own rows or state only. *)

\* What layer l reads is the same in two caches; what it does not own is.
SameCells(m, l, c, d) ==
  /\ RowsAt(m, l) # 0 => SameRows(RowsAt(m, l), c, d)
  /\ StateAt(m, l) # 0 => SameState(StateAt(m, l), c, d)
SameElsewhere(m, l, c, d) ==
  \A n \in 1 .. Depth(m) :
    /\ n # RowsAt(m, l) => SameRows(n, c, d)
    /\ n # StateAt(m, l) => SameState(n, c, d)

\* A recurrent step advances one state and leaves the rest of the cache.
LEMMA RecurIs ==
  ASSUME NEW m, NEW c, IsCache(m, c), NEW l, NEW n \in 1 .. Depth(m), NEW projected, NEW coefficients
  PROVE  LET of   == <<c.ssm[n], Hybrid!T("conv_silu", l, c.conv[n] \o <<projected>>)>> \o coefficients
             d    == Hybrid!Recur(l, n, c, projected, coefficients).cache
         IN  /\ IsCache(m, d)
             /\ \A i \in 1 .. Depth(m) : SameRows(i, d, c)
             /\ \A i \in 1 .. Depth(m) : i # n => SameState(i, d, c)
             /\ d.conv[n] = Hybrid!Shift(c.conv[n], projected)
             /\ d.ssm[n] = Hybrid!T("state", l, of)
             /\ Hybrid!Recur(l, n, c, projected, coefficients).y = Hybrid!T("read", l, of)
<1> DEFINE of    == <<c.ssm[n], Hybrid!T("conv_silu", l, c.conv[n] \o <<projected>>)>> \o coefficients
           conv  == [c.conv EXCEPT ![n] = Hybrid!Shift(c.conv[n], projected)]
           ssm   == [c.ssm EXCEPT ![n] = Hybrid!T("state", l, of)]
           d     == Hybrid!Recur(l, n, c, projected, coefficients).cache
<1>1. c = [k |-> c.k, v |-> c.v, storage_len |-> m.storage, conv |-> c.conv, ssm |-> c.ssm]
  BY DEF IsCache
<1>2. /\ d = [c EXCEPT !.conv[n] = Hybrid!Shift(@, projected), !.ssm[n] = Hybrid!T("state", l, of)]
      /\ Hybrid!Recur(l, n, c, projected, coefficients).y = Hybrid!T("read", l, of)
  BY DEF Hybrid!Recur
<1> HIDE DEF of
<1> DEFINE shifted == Hybrid!Shift(c.conv[n], projected)
           advanced == Hybrid!T("state", l, of)
<1>8. d = [[c EXCEPT !.conv[n] = shifted] EXCEPT !.ssm[n] = advanced]
  BY <1>2
<1> HIDE DEF shifted, advanced, d
<1>9. [c EXCEPT !.conv[n] = shifted] =
        [k |-> c.k, v |-> c.v, storage_len |-> m.storage, conv |-> [c.conv EXCEPT ![n] = shifted], ssm |-> c.ssm]
  BY <1>1
<1>10. d = [k |-> c.k, v |-> c.v, storage_len |-> m.storage, conv |-> [c.conv EXCEPT ![n] = shifted],
            ssm |-> [c.ssm EXCEPT ![n] = advanced]]
  BY <1>8, <1>9
<1>3. d = [k |-> c.k, v |-> c.v, storage_len |-> m.storage, conv |-> conv, ssm |-> ssm]
  BY <1>10 DEF shifted, advanced
<1>4. /\ conv = [i \in 1 .. Depth(m) |-> conv[i]] /\ \A i \in 1 .. Depth(m) : i # n => conv[i] = c.conv[i]
      /\ conv[n] = Hybrid!Shift(c.conv[n], projected)
  BY DEF IsCache
<1>5. /\ ssm = [i \in 1 .. Depth(m) |-> ssm[i]] /\ \A i \in 1 .. Depth(m) : i # n => ssm[i] = c.ssm[i]
      /\ ssm[n] = Hybrid!T("state", l, of)
  BY DEF IsCache
<1> HIDE DEF conv, ssm
<1>6. d.k = c.k /\ d.v = c.v /\ d.conv = conv /\ d.ssm = ssm
  BY <1>3
<1>7. IsCache(m, d)
  BY <1>3, <1>4, <1>5, <1>6 DEF IsCache
<1> QED BY <1>2, <1>4, <1>5, <1>6, <1>7 DEF SameRows, SameState, d, of

\* A mixer reads and writes its own layer's rows and state, and nothing else.
LEMMA MixerKeeps ==
  ASSUME NEW m, IsModel(m), NEW l \in 1 .. Depth(m), NEW pos \in Nat, NEW x, NEW c, IsCache(m, c)
  PROVE  LET d == Mixer(m, l, pos, x, c).cache
         IN  /\ IsCache(m, d)
             /\ SameElsewhere(m, l, d, c)
             /\ \A i \in 1 .. Depth(m) : i # l => SameCells(m, i, d, c)
<1> DEFINE n == RowsAt(m, l)
           r == StateAt(m, l)
           d == Mixer(m, l, pos, x, c).cache
<1>1. n \in 0 .. Depth(m) /\ r \in 0 .. Depth(m) /\ pos % m.storage \in 0 .. m.storage - 1
  BY LayersKeepApart DEF IsModel
<1>2. n = 0 \/ r = 0
  BY LayersKeepApart DEF IsModel
<1> HIDE DEF d
<1>3. IsCache(m, d) /\ (\A i \in 1 .. Depth(m) : i # n => SameRows(i, d, c))
      /\ (\A i \in 1 .. Depth(m) : i # r => SameState(i, d, c))
  <2> HIDE DEF n, r
  <2>1. CASE n # 0
    <3>1. n \in 1 .. Depth(m)
      BY <1>1, <2>1 DEF IsModel
    <3>2. d = Put(c, n, pos % m.storage, Key(m, l, pos, x), Value(m, l, x))
      BY <2>1 DEF Mixer, d, n
    <3> QED BY <1>1, <3>1, <3>2, PutIsCache
  <2>2. CASE n = 0 /\ r # 0
    <3>1. r \in 1 .. Depth(m)
      BY <1>1, <2>2 DEF IsModel
    <3>2. d = Hybrid!Recur(l, r, c, Projected(m, l, x), Coefficients(m, l, x)).cache
      BY <2>2 DEF Mixer, d, n, r
    <3> QED BY <3>1, <3>2, RecurIs, Zenon
  <2>3. CASE n = 0 /\ r = 0
    <3>1. d = c
      BY <2>3 DEF Mixer, d, n, r
    <3> QED BY <3>1 DEF SameRows, SameState
  <2> QED BY <2>1, <2>2, <2>3
<1>4. SameElsewhere(m, l, d, c)
  BY <1>3 DEF SameElsewhere
<1>5. ASSUME NEW i \in 1 .. Depth(m), i # l
      PROVE  SameCells(m, i, d, c)
  <2>1. /\ RowsAt(m, i) # 0 => RowsAt(m, i) \in 1 .. Depth(m) /\ RowsAt(m, i) # n
        /\ StateAt(m, i) # 0 => StateAt(m, i) \in 1 .. Depth(m) /\ StateAt(m, i) # r
    BY <1>5, LayersKeepApart DEF IsModel
  <2> QED BY <1>3, <2>1 DEF SameCells
<1> QED BY <1>3, <1>4, <1>5 DEF d

\* The first attended position is one, and not after the last.
LEMMA FirstIsPosition ==
  ASSUME NEW m, IsModel(m), NEW pos \in Nat
  PROVE  FirstAttended(m, pos) \in Nat
BY DEF IsModel, FirstAttended, Standard!attention_start_pos

\* What it gets and leaves there depends on these alone.
LEMMA MixesIsLocal ==
  ASSUME NEW m, IsModel(m), NEW l \in 1 .. Depth(m), NEW pos \in Nat, NEW x,
         NEW c, IsCache(m, c), NEW d, IsCache(m, d), SameCells(m, l, c, d)
  PROVE  /\ Mixer(m, l, pos, x, c).y = Mixer(m, l, pos, x, d).y
         /\ SameCells(m, l, Mixer(m, l, pos, x, c).cache, Mixer(m, l, pos, x, d).cache)
<1> DEFINE n == RowsAt(m, l)
           r == StateAt(m, l)
           p == pos % m.storage
           key == Key(m, l, pos, x)
           value == Value(m, l, x)
           in == Projected(m, l, x)
           by == Coefficients(m, l, x)
           q == QueryRow(m, l, pos, x)
<1>1. n \in 0 .. Depth(m) /\ r \in 0 .. Depth(m) /\ p \in 0 .. m.storage - 1 /\ (n = 0 \/ r = 0)
  <2>1. m.storage \in Nat \ {0} /\ p \in 0 .. m.storage - 1
    BY DEF IsModel
  <2>2. n \in 0 .. Depth(m) /\ r \in 0 .. Depth(m)
    BY LayersKeepApart
  <2>3. n = 0 \/ r = 0
    BY LayersKeepApart
  <2> QED BY <2>1, <2>2, <2>3
<1>2. CASE n # 0
  <2>0. n \in 1 .. Depth(m)
    BY <1>1, <1>2 DEF IsModel
  <2>1. \A e : Mixer(m, l, pos, x, e) =
          [cache |-> Put(e, n, p, key, value),
           y |-> Standard!attention(Put(e, n, p, key, value), n, q, FirstAttended(m, pos), pos)]
    BY <1>2, Zenon DEF Mixer
  <2>2. c.k[n] = d.k[n] /\ c.v[n] = d.v[n]
    BY <1>2 DEF SameCells, SameRows
  <2> HIDE DEF n, r, p, key, value, q
  <2>3. /\ IsCache(m, Put(c, n, p, key, value)) /\ IsCache(m, Put(d, n, p, key, value))
        /\ SameRows(n, Put(c, n, p, key, value), Put(d, n, p, key, value))
    <3>1. n \in DOMAIN c.k /\ n \in DOMAIN c.v /\ n \in DOMAIN d.k /\ n \in DOMAIN d.v
      BY <2>0 DEF IsCache
    <3> QED BY <1>1, <2>0, <2>2, <3>1, PutIsCache DEF SameRows, Put
  <2>4. Standard!attention(Put(c, n, p, key, value), n, q, FirstAttended(m, pos), pos)
          = Standard!attention(Put(d, n, p, key, value), n, q, FirstAttended(m, pos), pos)
    BY <2>3, FirstIsPosition, AttentionOfSlots DEF SameRows
  <2>5. Mixer(m, l, pos, x, c).y = Mixer(m, l, pos, x, d).y
    BY <2>1, <2>4
  <2>6. SameRows(n, Mixer(m, l, pos, x, c).cache, Mixer(m, l, pos, x, d).cache)
    BY <2>1, <2>3
  <2>7. n = RowsAt(m, l) /\ StateAt(m, l) = 0
    BY <1>1, <2>0 DEF n, r
  <2> QED BY <2>5, <2>6, <2>7 DEF SameCells
<1>3. CASE n = 0 /\ r # 0
  <2>0. r \in 1 .. Depth(m)
    BY <1>1, <1>3 DEF IsModel
  <2>1. \A e : Mixer(m, l, pos, x, e) = Hybrid!Recur(l, r, e, in, by)
    BY <1>3, Zenon DEF Mixer
  <2>2. c.conv[r] = d.conv[r] /\ c.ssm[r] = d.ssm[r]
    BY <1>3 DEF SameCells, SameState
  <2> HIDE DEF n, r, in, by
  <2>3. \A e : IsCache(m, e) =>
          /\ Hybrid!Recur(l, r, e, in, by).cache.conv[r] = Hybrid!Shift(e.conv[r], in)
          /\ Hybrid!Recur(l, r, e, in, by).cache.ssm[r]
               = Hybrid!T("state", l, <<e.ssm[r], Hybrid!T("conv_silu", l, e.conv[r] \o <<in>>)>> \o by)
          /\ Hybrid!Recur(l, r, e, in, by).y
               = Hybrid!T("read", l, <<e.ssm[r], Hybrid!T("conv_silu", l, e.conv[r] \o <<in>>)>> \o by)
    <3> TAKE e
    <3> HAVE IsCache(m, e)
    <3> QED BY <2>0, RecurIs
  <2>4. /\ Hybrid!Recur(l, r, c, in, by).y = Hybrid!Recur(l, r, d, in, by).y
        /\ SameState(r, Hybrid!Recur(l, r, c, in, by).cache, Hybrid!Recur(l, r, d, in, by).cache)
    BY <2>2, <2>3 DEF SameState
  <2>5. RowsAt(m, l) = 0 /\ StateAt(m, l) = r
    BY <1>3 DEF n, r
  <2> QED BY <2>1, <2>4, <2>5 DEF SameCells
<1>4. CASE n = 0 /\ r = 0
  <2>1. \A e : Mixer(m, l, pos, x, e) = [cache |-> e, y |-> <<>>]
    BY <1>4, Zenon DEF Mixer
  <2> QED BY <1>4, <2>1 DEF SameCells
<1> QED BY <1>2, <1>3, <1>4

-----------------------------------------------------------------------------
(* Everything is done in turn: layers, tokens, chunks. *)

OneBatchLayer(m, l, start, s) ==
  IF m.arch = "standard" THEN Standard!BatchLayer(m, l, start, s)
  ELSE IF m.arch = "qwen35" THEN Hybrid!Qwen35BatchLayer(m, l, start, s)
  ELSE Hybrid!NemotronBatchLayer(m, l, start, s)

\* What goes on from a mixer, and the step a batch takes for one token of it.
Gated(m, l, x, y) ==
  IF m.layers[l].kind = "mamba2"
  THEN Hybrid!Apply("norm", l, Hybrid!silu_mul(
         Hybrid!T("z", l, <<Hybrid!Apply("in_proj", l, Hybrid!Apply("attn_norm", l, x))>>), y))
  ELSE IF m.arch = "qwen35" /\ m.layers[l].kind = "attention"
  THEN Hybrid!T("sigmoid_mul", 0,
         <<y, Hybrid!T("gate_half", l, <<Hybrid!Apply("q_gate", l, Hybrid!Apply("attn_norm", l, x))>>)>>)
  ELSE y
OrderStep(m, l, pos, x, c) ==
  IF m.layers[l].kind = "attention"
  THEN LET slot   == Hybrid!kv_slot(m, l)
           stored == Hybrid!write_v(Hybrid!write_k(c, slot, pos, Key(m, l, pos, x)), slot, pos, Value(m, l, x))
       IN  [cache |-> stored, y |-> Gated(m, l, x, Hybrid!attention(stored, slot, QueryRow(m, l, pos, x), 0, pos))]
  ELSE LET step == Hybrid!Recur(l, Hybrid!recurrent_index(m, l), c, Projected(m, l, x), Coefficients(m, l, x))
       IN  [cache |-> step.cache, y |-> Gated(m, l, x, step.y)]

\* TurnOf i of what is done: layer i, or token i of tokens ts or of rows xs in
\* layer l, or chunk i.
TurnOf(of, m, i, before) ==
  CASE of.do = "layers"  -> OneLayer(m, i, of.pos, before)
    [] of.do = "batch"   -> OneBatchLayer(m, i, of.pos, before)
    [] of.do = "rows"    -> Mixer(m, of.l, of.pos + i - 1, of.xs[i], before.cache)
    [] of.do = "order"   -> OrderStep(m, of.l, of.pos + i - 1, of.xs[i], before.cache)
    [] of.do = "tokens"  -> forward_token_into(m, of.ts[i], of.pos + i - 1, before.cache)
    [] of.do = "prefill" -> forward_prefill_token(m, of.ts[i], of.pos + i - 1, before)
    [] of.do = "chunks"  ->
         PrefillChunk(m, Len(of.ts) > 2 /\ Batchable(m), Chunk(of.ts, of.ubatch, i),
                      of.pos + ChunkEnd(of.ts, of.ubatch, i - 1), before)

Turns(of, m, from, n, f) == [i \in 0 .. n |-> IF i = 0 THEN from ELSE TurnOf(of, m, i, f[i - 1])]
After(of, m, from, n) == CHOOSE f : f = Turns(of, m, from, n, f)

\* What is done in turns exists, and is what each turn makes of the one before.
LEMMA AfterIs ==
  ASSUME NEW of, NEW m, NEW from, NEW n \in Nat
  PROVE  /\ After(of, m, from, n) = Turns(of, m, from, n, After(of, m, from, n))
         /\ After(of, m, from, n)[0] = from
         /\ \A i \in 1 .. n : After(of, m, from, n)[i] = TurnOf(of, m, i, After(of, m, from, n)[i - 1])
         /\ From0(After(of, m, from, n), n)
<1> DEFINE Good == {k \in 0 .. n : \E f : f = Turns(of, m, from, k, f)}
<1>1. ASSUME NEW k \in 0 .. n, \A j \in 0 .. k - 1 : j \in Good
      PROVE  k \in Good
  <2>1. CASE k = 0
    <3>1. [i \in 0 .. 0 |-> from] = Turns(of, m, from, 0, [i \in 0 .. 0 |-> from])
      BY SMT DEF Turns
    <3> QED BY <2>1, <3>1
  <2>2. CASE k # 0
    <3>1. k - 1 \in 0 .. k - 1 /\ k - 1 \in 0 .. n
      BY <2>2
    <3>2. PICK g : g = Turns(of, m, from, k - 1, g)
      BY <1>1, <3>1
    <3> DEFINE f == [i \in 0 .. k |-> IF i = k THEN TurnOf(of, m, k, g[k - 1]) ELSE g[i]]
    <3>3. \A i \in 0 .. k - 1 : g[i] = IF i = 0 THEN from ELSE TurnOf(of, m, i, g[i - 1])
      BY <3>2 DEF Turns
    <3>4. \A i \in 0 .. k : f[i] = IF i = 0 THEN from ELSE TurnOf(of, m, i, f[i - 1])
      <4> TAKE i \in 0 .. k
      <4>1. CASE i = k
        <5>1. f[i] = TurnOf(of, m, k, g[k - 1]) /\ f[k - 1] = g[k - 1]
          BY <2>2, <3>1, <4>1
        <5> QED BY <2>2, <4>1, <5>1
      <4>2. CASE i = 0
        BY <2>2, <3>3, <4>2
      <4>3. CASE i \in 1 .. k - 1
        <5>1. f[i] = g[i] /\ f[i - 1] = g[i - 1]
          BY <4>3
        <5> QED BY <3>3, <4>3, <5>1
      <4> QED BY <4>1, <4>2, <4>3
    <3>5. f = [i \in 0 .. k |-> f[i]]
      OBVIOUS
    <3> HIDE DEF f
    <3>6. f = Turns(of, m, from, k, f)
      BY <3>4, <3>5 DEF Turns
    <3> QED BY <3>6
  <2> QED BY <2>1, <2>2
<1> HIDE DEF Good
<1>2. n \in Good
  BY <1>1, FromBelow
<1>3. \E f : f = Turns(of, m, from, n, f)
  BY <1>2 DEF Good
<1>4. After(of, m, from, n) = Turns(of, m, from, n, After(of, m, from, n))
  BY <1>3 DEF After
<1> DEFINE f == After(of, m, from, n)
           turn(i) == IF i = 0 THEN from ELSE TurnOf(of, m, i, f[i - 1])
<1>5. f = [i \in 0 .. n |-> turn(i)]
  BY <1>4, Zenon DEF Turns
<1> HIDE DEF f, turn
<1>6. f = [i \in 0 .. n |-> f[i]] /\ \A i \in 0 .. n : f[i] = turn(i)
  BY <1>5
<1>7. /\ f[0] = from
      /\ \A i \in 1 .. n : f[i] = TurnOf(of, m, i, f[i - 1])
  <2>1. turn(0) = from /\ 0 \in 0 .. n
    BY DEF turn
  <2>2. ASSUME NEW i \in 1 .. n
        PROVE  i \in 0 .. n /\ turn(i) = TurnOf(of, m, i, f[i - 1])
    <3>1. i # 0
      OBVIOUS
    <3> QED BY <3>1 DEF turn
  <2> QED BY <1>6, <2>1, <2>2
<1> QED BY <1>4, <1>6, <1>7 DEF f, From0

\* There is one way to take the turns.
LEMMA TurnsAreAfter ==
  ASSUME NEW of, NEW m, NEW from, NEW n \in Nat, NEW f, f = Turns(of, m, from, n, f)
  PROVE  f = After(of, m, from, n)
<1> DEFINE g == After(of, m, from, n)
           turn(h, i) == IF i = 0 THEN from ELSE TurnOf(of, m, i, h[i - 1])
<1>5. \A h : Turns(of, m, from, n, h) = [i \in 0 .. n |-> turn(h, i)]
  BY Zenon DEF Turns
<1>6. g = Turns(of, m, from, n, g)
  BY AfterIs
<1> HIDE DEF g, turn
<1>1. f = [i \in 0 .. n |-> turn(f, i)] /\ g = [i \in 0 .. n |-> turn(g, i)]
  BY <1>5, <1>6
<1>2. /\ From0(f, n) /\ \A i \in 0 .. n : f[i] = turn(f, i)
      /\ From0(g, n) /\ \A i \in 0 .. n : g[i] = turn(g, i)
  BY <1>1 DEF From0
<1>3. f[0] = g[0]
  <2>1. turn(f, 0) = turn(g, 0) /\ 0 \in 0 .. n
    BY DEF turn
  <2> QED BY <1>2, <2>1
<1>4. Follows(f, g, n)
  <2> SUFFICES ASSUME NEW i \in 1 .. n, f[i - 1] = g[i - 1] PROVE f[i] = g[i]
    BY DEF Follows
  <2>1. turn(f, i) = turn(g, i)
    BY DEF turn
  <2> QED BY <1>2, <2>1
<1> QED BY <1>2, <1>3, <1>4, SameFromStart DEF g

-----------------------------------------------------------------------------
(* A token through the layers. *)

Through(m, token, pos, c) ==
  After([do |-> "layers", pos |-> pos], m, [x |-> Standard!row_into(token), cache |-> c], Depth(m))

\* The decoders look a token up in the same way,
LEMMA RowIs ==
  ASSUME NEW token
  PROVE  Hybrid!row_into(token) = Standard!row_into(token)
BY DEF Hybrid!row_into, Standard!row_into, Hybrid!Atom, Standard!Atom, Hybrid!T, Standard!T

LogitsOf(x) == Standard!Apply("output", 0, Standard!Apply("output_norm", 0, x))

\* and make the same logits of a row.
LEMMA LogitsAre ==
  ASSUME NEW x
  PROVE  Hybrid!Apply("output", 0, Hybrid!Apply("output_norm", 0, x)) = LogitsOf(x)
BY DEF LogitsOf, Hybrid!Apply, Standard!Apply, Hybrid!T, Standard!T

\* A step is what is left of the token after the last layer.
LEMMA ForwardIs ==
  ASSUME NEW m, IsModel(m), HasBatch(m), NEW token, NEW pos, NEW c
  PROVE  forward_token_into(m, token, pos, c) =
           [cache |-> Through(m, token, pos, c)[Depth(m)].cache,
            logits |-> LogitsOf(Through(m, token, pos, c)[Depth(m)].x), x |-> Through(m, token, pos, c)[Depth(m)].x]
<1> DEFINE of == [do |-> "layers", pos |-> pos]
           from == [x |-> Standard!row_into(token), cache |-> c]
           t == Through(m, token, pos, c)
<1>0. Depth(m) \in Nat
  BY DEF IsModel
<1>1. \A i, before : TurnOf(of, m, i, before) = OneLayer(m, i, pos, before)
  BY Zenon DEF TurnOf
<1>2. t = Turns(of, m, from, Depth(m), t)
  BY <1>0, AfterIs DEF Through
<1>3. \A f : f = Turns(of, m, from, Depth(m), f) => f = t
  BY <1>0, TurnsAreAfter DEF Through
<1> HIDE DEF t, of
<1>4. CASE m.arch = "standard"
  <2> DEFINE Steps(f) == [l \in 0 .. Len(m.layers) |->
                           IF l = 0 THEN [x |-> Standard!row_into(token), cache |-> c]
                           ELSE Standard!DecodeLayer(m, l, pos, f[l - 1])]
             s == CHOOSE f : f = Steps(f)
  <2>1. \A f : Steps(f) = Turns(of, m, from, Depth(m), f)
    BY <1>1, <1>4 DEF Turns, OneLayer, Depth
  <2>2. Standard!forward_into(m, token, pos, c) =
          [cache |-> s[Len(m.layers)].cache, logits |-> LogitsOf(s[Len(m.layers)].x), x |-> s[Len(m.layers)].x]
    BY Zenon DEF Standard!forward_into, Standard!DecodeLayers, LogitsOf
  <2> HIDE DEF Steps, from
  <2>3. s = Steps(s)
    BY <1>2, <2>1
  <2>4. s = t
    BY <1>3, <2>1, <2>3
  <2> QED BY <1>4, <2>2, <2>4 DEF forward_token_into, Depth, t
<1>5. CASE m.arch = "qwen35"
  <2> DEFINE Steps(f) == [l \in 0 .. Len(m.layers) |->
                           IF l = 0 THEN [x |-> Hybrid!row_into(token), cache |-> c]
                           ELSE Hybrid!Qwen35Layer(m, l, pos, f[l - 1])]
             s == CHOOSE f : f = Steps(f)
  <2>1. \A f : Steps(f) = Turns(of, m, from, Depth(m), f)
    BY <1>1, <1>5, RowIs DEF Turns, OneLayer, Depth
  <2>2. Hybrid!forward_qwen35_impl(m, token, pos, c) =
          [cache |-> s[Len(m.layers)].cache, x |-> s[Len(m.layers)].x, 
           logits |-> Hybrid!Apply("output", 0, Hybrid!Apply("output_norm", 0, s[Len(m.layers)].x))]
    BY Zenon DEF Hybrid!forward_qwen35_impl
  <2> HIDE DEF Steps, from
  <2>3. s = Steps(s)
    BY <1>2, <2>1
  <2>4. s = t
    BY <1>3, <2>1, <2>3
  <2> QED BY <1>5, <2>2, <2>4, LogitsAre DEF forward_token_into, Depth, t
<1>6. CASE m.arch = "nemotron_h"
  <2> DEFINE Steps(f) == [l \in 0 .. Len(m.layers) |->
                           IF l = 0 THEN [x |-> Hybrid!row_into(token), cache |-> c]
                           ELSE Hybrid!NemotronLayer(m, l, pos, f[l - 1])]
             s == CHOOSE f : f = Steps(f)
  <2>1. \A f : Steps(f) = Turns(of, m, from, Depth(m), f)
    BY <1>1, <1>6, RowIs DEF Turns, OneLayer, Depth
  <2>2. Hybrid!forward_nemotron_h_impl(m, token, pos, c) =
          [cache |-> s[Len(m.layers)].cache, x |-> s[Len(m.layers)].x, 
           logits |-> Hybrid!Apply("output", 0, Hybrid!Apply("output_norm", 0, s[Len(m.layers)].x))]
    BY Zenon DEF Hybrid!forward_nemotron_h_impl
  <2> HIDE DEF Steps, from
  <2>3. s = Steps(s)
    BY <1>2, <2>1
  <2>4. s = t
    BY <1>3, <2>1, <2>3
  <2> QED BY <1>6, <2>2, <2>4, LogitsAre DEF forward_token_into, Depth, t
<1> QED BY <1>4, <1>5, <1>6 DEF HasBatch

\* What no layer owns.
SameRest(m, c, d) ==
  \A n \in 1 .. Depth(m) :
    /\ (\A i \in 1 .. Depth(m) : RowsAt(m, i) # n) => SameRows(n, c, d)
    /\ (\A i \in 1 .. Depth(m) : StateAt(m, i) # n) => SameState(n, c, d)

\* A cache has nothing but the cells of layers and the rest no layer has.
LEMMA CellsAreAll ==
  ASSUME NEW m, NEW c, NEW d, IsCache(m, c), IsCache(m, d),
         \A i \in 1 .. Depth(m) : SameCells(m, i, c, d), SameRest(m, c, d)
  PROVE  c = d
<1>1. ASSUME NEW n \in 1 .. Depth(m)
      PROVE  n # 0
  OBVIOUS
<1>2. ASSUME NEW n \in 1 .. Depth(m)
      PROVE  SameRows(n, c, d) /\ SameState(n, c, d)
  BY <1>1 DEF SameCells, SameRest
<1> QED BY <1>2, SameCache

\* Having the same cells is an equivalence.
LEMMA SameTransitive ==
  ASSUME NEW m, NEW c, NEW d, NEW e
  PROVE  /\ \A i : SameCells(m, i, c, d) /\ SameCells(m, i, d, e) => SameCells(m, i, c, e)
         /\ SameRest(m, c, d) /\ SameRest(m, d, e) => SameRest(m, c, e)
         /\ \A i : SameCells(m, i, c, d) => SameCells(m, i, d, c)
         /\ SameRest(m, c, d) => SameRest(m, d, c)
         /\ \A i : SameCells(m, i, c, c)
         /\ SameRest(m, c, c)
         /\ \A l \in 1 .. Depth(m) : SameElsewhere(m, l, c, d) => SameRest(m, c, d)
BY DEF SameCells, SameRest, SameElsewhere, SameRows, SameState

\* Layer by layer a token changes the layer's cells and no other.
IsColumn(m, token, pos, c, s) ==
  /\ s[0] = [x |-> Standard!row_into(token), cache |-> c]
  /\ \A l \in 1 .. Depth(m) :
       s[l] = [x |-> Finish(m, l, s[l - 1].x, Mixer(m, l, pos, s[l - 1].x, s[l - 1].cache).y),
               cache |-> Mixer(m, l, pos, s[l - 1].x, s[l - 1].cache).cache]
  /\ \A l \in 0 .. Depth(m) :
       /\ IsCache(m, s[l].cache)
       /\ SameRest(m, s[l].cache, c)
       /\ \A i \in l + 1 .. Depth(m) : SameCells(m, i, s[l].cache, c)
  /\ \A l \in 1 .. Depth(m) : SameCells(m, l, s[l].cache, s[Depth(m)].cache)

\* A token's way through the layers is a column.
LEMMA ThroughLayers ==
  ASSUME NEW m, IsModel(m), HasBatch(m), NEW token, NEW pos \in Nat, NEW c, IsCache(m, c)
  PROVE  IsColumn(m, token, pos, c, Through(m, token, pos, c))
<1> DEFINE of == [do |-> "layers", pos |-> pos]
           s == Through(m, token, pos, c)
           mixed(l) == Mixer(m, l, pos, s[l - 1].x, s[l - 1].cache)
           Keeps(l) == /\ IsCache(m, s[l].cache)
                       /\ SameRest(m, s[l].cache, c)
                       /\ \A i \in l + 1 .. Depth(m) : SameCells(m, i, s[l].cache, c)
           Good == {l \in 0 .. Depth(m) : Keeps(l)}
<1>0. Depth(m) \in Nat
  BY DEF IsModel
<1>1. /\ s[0] = [x |-> Standard!row_into(token), cache |-> c]
      /\ \A l \in 1 .. Depth(m) : s[l] = OneLayer(m, l, pos, s[l - 1])
  <2>1. \A i, before : TurnOf(of, m, i, before) = OneLayer(m, i, pos, before)
    BY Zenon DEF TurnOf
  <2> HIDE DEF of
  <2> QED BY <1>0, <2>1, AfterIs DEF Through, of
<1> HIDE DEF s
<1>2. ASSUME NEW l \in 1 .. Depth(m), IsCache(m, s[l - 1].cache)
      PROVE  s[l] = [x |-> Finish(m, l, s[l - 1].x, mixed(l).y), cache |-> mixed(l).cache]
  BY <1>1, <1>2, LayerIs
<1>3. ASSUME NEW l \in 1 .. Depth(m), IsCache(m, s[l - 1].cache)
      PROVE  /\ IsCache(m, s[l].cache)
             /\ SameRest(m, s[l].cache, s[l - 1].cache)
             /\ \A i \in 1 .. Depth(m) : i # l => SameCells(m, i, s[l].cache, s[l - 1].cache)
  <2>1. s[l].cache = mixed(l).cache
    <3>1. s[l] = [x |-> Finish(m, l, s[l - 1].x, mixed(l).y), cache |-> mixed(l).cache]
      BY <1>2, <1>3
    <3> HIDE DEF mixed
    <3> QED BY <3>1
  <2>2. /\ IsCache(m, mixed(l).cache)
        /\ SameElsewhere(m, l, mixed(l).cache, s[l - 1].cache)
        /\ \A i \in 1 .. Depth(m) : i # l => SameCells(m, i, mixed(l).cache, s[l - 1].cache)
    BY <1>3, MixerKeeps, Zenon
  <2> HIDE DEF mixed
  <2> QED BY <2>1, <2>2, SameTransitive
<1>4. \A l \in 0 .. Depth(m) : Keeps(l)
  <2>1. ASSUME NEW l \in 0 .. Depth(m), \A j \in 0 .. l - 1 : j \in Good
        PROVE  l \in Good
    <3>1. CASE l = 0
      BY <1>1, <3>1, SameTransitive
    <3>2. CASE l # 0
      <4>1. l \in 1 .. Depth(m) /\ l - 1 \in 0 .. l - 1
        BY <1>0, <3>2
      <4>2. Keeps(l - 1)
        BY <2>1, <4>1
      <4>3. IsCache(m, s[l].cache) /\ SameRest(m, s[l].cache, c)
        BY <1>3, <4>1, <4>2, SameTransitive
      <4>4. ASSUME NEW i \in l + 1 .. Depth(m)
            PROVE  SameCells(m, i, s[l].cache, c)
        <5>1. i \in (l - 1) + 1 .. Depth(m) /\ i \in 1 .. Depth(m) /\ i # l
          BY <1>0
        <5>2. SameCells(m, i, s[l].cache, s[l - 1].cache) /\ SameCells(m, i, s[l - 1].cache, c)
          BY <1>3, <4>1, <4>2, <5>1
        <5> QED BY <5>2, SameTransitive
      <4> QED BY <4>3, <4>4
    <3> QED BY <3>1, <3>2
  <2> HIDE DEF Good
  <2>2. \A l \in 0 .. Depth(m) : l \in Good
    BY <1>0, <2>1, FromBelow
  <2> QED BY <2>2 DEF Good
<1>5. \A l \in 1 .. Depth(m) : IsCache(m, s[l - 1].cache)
  BY <1>0, <1>4
<1>6. ASSUME NEW l \in 1 .. Depth(m)
      PROVE  SameCells(m, l, s[l].cache, s[Depth(m)].cache)
  <2> DEFINE n == Depth(m) - l
             Kept == {k \in 0 .. n : SameCells(m, l, s[l].cache, s[l + k].cache)}
  <2>0. n \in Nat /\ l \in Nat /\ l + 0 = l /\ l + n = Depth(m)
    BY <1>0
  <2>1. ASSUME NEW k \in 0 .. n, \A j \in 0 .. k - 1 : j \in Kept
        PROVE  k \in Kept
    <3>1. CASE k = 0
      BY <2>0, <3>1, SameTransitive
    <3>2. CASE k # 0
      <4>1. k - 1 \in 0 .. k - 1 /\ l + k \in 1 .. Depth(m) /\ l # l + k /\ (l + k) - 1 = l + (k - 1)
        BY <1>0, <3>2
      <4>2. SameCells(m, l, s[l].cache, s[l + (k - 1)].cache)
        BY <2>1, <4>1
      <4>3. SameCells(m, l, s[l + k].cache, s[l + (k - 1)].cache)
        BY <1>3, <1>5, <4>1
      <4> QED BY <4>2, <4>3, SameTransitive
    <3> QED BY <3>1, <3>2
  <2> HIDE DEF Kept, n
  <2>2. n \in Kept
    BY <2>0, <2>1, FromBelow
  <2> QED BY <2>0, <2>2 DEF Kept
<1>7. \A l \in 1 .. Depth(m) :
        s[l] = [x |-> Finish(m, l, s[l - 1].x, mixed(l).y), cache |-> mixed(l).cache]
  BY <1>2, <1>5
<1> QED BY <1>1, <1>4, <1>6, <1>7 DEF s, IsColumn

-----------------------------------------------------------------------------
(* A batch goes through a layer token by token, whatever is done at once. *)

\* The length of a function on 1 .. n.
LEMMA LenIs ==
  ASSUME NEW n \in Nat, NEW f, DOMAIN f = 1 .. n, f = [t \in 1 .. n |-> f[t]]
  PROVE  Len(f) = n
<1> DEFINE S == {f[t] : t \in 1 .. n}
<1>1. f \in [1 .. n -> S]
  OBVIOUS
<1> HIDE DEF S
<1>2. f \in Seq(S)
  BY <1>1, IsASeq
<1> QED BY <1>1, <1>2, LenProperties

\* The tokens of a batch at layer l, each after the one before.
RowByRow(m, l, start, xs, c, b) ==
  After([do |-> "rows", l |-> l, pos |-> start, xs |-> xs], m, [cache |-> c], b)

InTurn(m, l, start, xs, c, b, d) ==
  /\ d[0] = [cache |-> c]
  /\ \A t \in 1 .. b : d[t] = Mixer(m, l, start + t - 1, xs[t], d[t - 1].cache)
  /\ \A t \in 0 .. b : IsCache(m, d[t].cache)
  /\ \A t \in 0 .. b : SameElsewhere(m, l, d[t].cache, c)

\* d is what the tokens of a batch of b get and leave in a layer.
Batching(m, l, start, b, xs, c, d) ==
  DOMAIN xs = 1 .. b /\ IsCache(m, c) /\ InTurn(m, l, start, xs, c, b, d)

\* Rows that go through a mixer one by one do so in turn.
LEMMA RowsInTurn ==
  ASSUME NEW m, IsModel(m), NEW l \in 1 .. Depth(m), NEW start \in Nat, NEW xs, NEW c, IsCache(m, c), NEW b \in Nat
  PROVE  InTurn(m, l, start, xs, c, b, RowByRow(m, l, start, xs, c, b))
<1> DEFINE of == [do |-> "rows", l |-> l, pos |-> start, xs |-> xs]
           d == RowByRow(m, l, start, xs, c, b)
           Good == {t \in 0 .. b : IsCache(m, d[t].cache) /\ SameElsewhere(m, l, d[t].cache, c)}
<1>1. /\ d[0] = [cache |-> c]
      /\ \A t \in 1 .. b : d[t] = Mixer(m, l, start + t - 1, xs[t], d[t - 1].cache)
  <2>1. \A t, before : TurnOf(of, m, t, before) = Mixer(m, l, start + t - 1, xs[t], before.cache)
    BY Zenon DEF TurnOf
  <2> HIDE DEF of
  <2> QED BY <2>1, AfterIs DEF RowByRow, of
<1> HIDE DEF d
<1>2. ASSUME NEW t \in 0 .. b, \A j \in 0 .. t - 1 : j \in Good
      PROVE  t \in Good
  <2>1. CASE t = 0
    BY <1>1, <2>1 DEF SameElsewhere, SameRows, SameState
  <2>2. CASE t # 0
    <3>1. t \in 1 .. b /\ t - 1 \in 0 .. t - 1 /\ start + t - 1 \in Nat
      BY <2>2
    <3>2. IsCache(m, d[t - 1].cache) /\ SameElsewhere(m, l, d[t - 1].cache, c)
      BY <1>2, <3>1
    <3>3. d[t] = Mixer(m, l, start + t - 1, xs[t], d[t - 1].cache)
      BY <1>1, <3>1
    <3>4. IsCache(m, d[t].cache) /\ SameElsewhere(m, l, d[t].cache, d[t - 1].cache)
      BY <3>1, <3>2, <3>3, MixerKeeps
    <3> QED BY <3>2, <3>4 DEF SameElsewhere, SameRows, SameState
  <2> QED BY <2>1, <2>2
<1> HIDE DEF Good
<1>3. \A t \in 0 .. b : t \in Good
  BY <1>2, FromBelow
<1> QED BY <1>1, <1>3 DEF Good, InTurn, d

\* The cells of positions before token t's are at the end what they were then.
Stays(l, start, b, d, t) ==
  \A p \in 0 .. start + t - 1 :
    d[b].cache.k[l][p] = d[t].cache.k[l][p] /\ d[b].cache.v[l][p] = d[t].cache.v[l][p]

\* The cells of positions that are not written again stay.
LEMMA RowsStay ==
  ASSUME NEW m, IsModel(m), m.arch = "standard", NEW l \in 1 .. Depth(m), NEW start \in Nat, NEW xs,
         NEW c, IsCache(m, c), NEW b \in Nat, start + b <= m.storage, NEW t \in 0 .. b,
         NEW d, InTurn(m, l, start, xs, c, b, d)
  PROVE  Stays(l, start, b, d, t)
<1> DEFINE Still(i) == \A p \in 0 .. start + t - 1 :
                        d[t + i].cache.k[l][p] = d[t].cache.k[l][p] /\ d[t + i].cache.v[l][p] = d[t].cache.v[l][p]
           n == b - t
           Kept == {i \in 0 .. n : Still(i)}
<1>0. n \in Nat /\ t + 0 = t /\ t + n = b /\ t \in Nat /\ m.storage \in Nat \ {0}
  BY DEF IsModel
<1>1. /\ \A i \in 1 .. b : d[i] = Mixer(m, l, start + i - 1, xs[i], d[i - 1].cache)
      /\ \A i \in 0 .. b : IsCache(m, d[i].cache)
  BY DEF InTurn
<1>2. ASSUME NEW i \in 0 .. n, \A j \in 0 .. i - 1 : j \in Kept
      PROVE  i \in Kept
  <2>1. CASE i = 0
    BY <1>0, <2>1
  <2>2. CASE i # 0
    <3> DEFINE pos == start + (t + i) - 1
               e == d[t + (i - 1)].cache
    <3>1. i - 1 \in 0 .. i - 1 /\ t + i \in 1 .. b /\ (t + i) - 1 = t + (i - 1) /\ t + (i - 1) \in 0 .. b
      BY <1>0, <2>2
    <3>2. pos \in Nat /\ pos \in 0 .. m.storage - 1 /\ pos % m.storage = pos /\ pos > start + t - 1
      BY <1>0, <2>2
    <3>3. Still(i - 1)
      BY <1>2, <3>1
    <3>4. d[t + i] = Mixer(m, l, pos, xs[t + i], e) /\ IsCache(m, e)
      BY <1>1, <3>1
    <3>5. RowsAt(m, l) = l /\ l # 0
      BY DEF RowsAt
    <3> HIDE DEF e, pos
    <3>9. d[t + i].cache = Put(e, l, pos % m.storage, Key(m, l, pos, xs[t + i]), Value(m, l, xs[t + i]))
      BY <3>4, <3>5 DEF Mixer
    <3>6. d[t + i].cache = Put(e, l, pos, Key(m, l, pos, xs[t + i]), Value(m, l, xs[t + i]))
      BY <3>2, <3>9
    <3>7. \A p \in 0 .. m.storage - 1 : p # pos =>
            d[t + i].cache.k[l][p] = e.k[l][p] /\ d[t + i].cache.v[l][p] = e.v[l][p]
      BY <3>2, <3>4, <3>6, PutIsCache
    <3>8. \A p \in 0 .. start + t - 1 : p \in 0 .. m.storage - 1 /\ p # pos
      BY <1>0, <3>2
    <3> QED BY <3>3, <3>7, <3>8 DEF e
  <2> QED BY <2>1, <2>2
<1> HIDE DEF Kept, n
<1>3. n \in Kept
  BY <1>0, <1>2, FromBelow
<1> QED BY <1>0, <1>3 DEF Kept, Stays

\* A batch fits if no row is overwritten before its last reader.
RingHolds(m, start, b) == m.arch = "standard" /\ b \in 2 .. m.storage => start + b <= m.storage

\* The layers a standard batch takes.
Bald(layer) == ~layer.moe /\ ~layer.q_norm /\ ~layer.k_norm

LayerOfRows(m, l, xs, b, d) ==
  [xs |-> [t \in 1 .. b |-> Finish(m, l, xs[t], d[t].y)], cache |-> d[b].cache]

\* The batch layer of the standard decoder: its rows are stored before any of
\* them attends, or row by row when the batch is longer than the storage.
LEMMA StandardBatchLayer ==
  ASSUME NEW m, IsModel(m), m.arch = "standard", NEW l \in 1 .. Depth(m), Bald(m.layers[l]),
         NEW start \in Nat, NEW b \in Nat \ {0}, RingHolds(m, start, b),
         NEW s,
         NEW d, Batching(m, l, start, b, s.xs, s.cache, d)
  PROVE  Standard!BatchLayer(m, l, start, s) = LayerOfRows(m, l, s.xs, b, d)
<1> DOMAIN s.xs = 1 .. b /\ IsCache(m, s.cache) /\ InTurn(m, l, start, s.xs, s.cache, b, d)
  BY DEF Batching
<1> DEFINE xns == [t \in DOMAIN s.xs |-> Standard!Apply("attn_norm", l, s.xs[t])]
           At(t) == start + t - 1
           c == s.cache
           Steps(f) == [t \in 0 .. Len(xns) |->
                         IF t = 0 THEN c ELSE Standard!BatchStore(m, l, xns[t], start + t - 1, f[t - 1])]
           stored == CHOOSE f : f = Steps(f)
           w == [t \in 0 .. b |-> d[t].cache]
           seen(t) == IF Len(xns) <= c.storage_len THEN stored[Len(xns)] ELSE stored[t]
<1>1. Len(xns) = b
  BY LenIs
<1>2. RowsAt(m, l) = l /\ l # 0
  BY DEF RowsAt
<1>3. \A t \in 1 .. b : t \in DOMAIN s.xs /\ xns[t] = Standard!Apply("attn_norm", l, s.xs[t]) /\ At(t) \in Nat
  OBVIOUS
<1> HIDE DEF xns
<1>4. ASSUME NEW t \in 1 .. b
      PROVE  /\ IsCache(m, d[t - 1].cache)
             /\ d[t].cache = Put(d[t - 1].cache, l, At(t) % m.storage, Key(m, l, At(t), s.xs[t]), Value(m, l, s.xs[t]))
             /\ d[t].y = Standard!attention(d[t].cache, l, QueryRow(m, l, At(t), s.xs[t]), FirstAttended(m, At(t)), At(t))
  <2>1. t - 1 \in 0 .. b /\ IsCache(m, d[t - 1].cache) /\ d[t] = Mixer(m, l, At(t), s.xs[t], d[t - 1].cache)
    BY DEF InTurn
  <2> HIDE DEF At
  <2> QED BY <1>2, <2>1 DEF Mixer
<1>5. ASSUME NEW t \in 1 .. b
      PROVE  Standard!BatchStore(m, l, xns[t], At(t), d[t - 1].cache) = d[t].cache
  <2>1. Key(m, l, At(t), s.xs[t]) =
          Standard!rope(At(t), Standard!add_bias_if_present(m.layers[l], "bk", l, Standard!Apply("wk", l, xns[t])))
    BY <1>3 DEF Key, Bald, Standard!ApplyIf
  <2>2. Value(m, l, s.xs[t]) = Standard!add_bias_if_present(m.layers[l], "bv", l, Standard!Apply("wv", l, xns[t]))
    BY <1>3 DEF Value
  <2> HIDE DEF At
  <2> QED BY <1>4, <2>1, <2>2, StandardWriteIs DEF Standard!BatchStore
<1>6. ASSUME NEW t \in 1 .. b
      PROVE  Standard!BatchQuery(m, l, xns[t], At(t)) = QueryRow(m, l, At(t), s.xs[t])
  BY <1>3 DEF Standard!BatchQuery, QueryRow, Bald, Standard!ApplyIf
<1>7. stored = w
  <2>1. Steps(w) = w
    <3>1. d[0].cache = c
      BY DEF InTurn
    <3>2. ASSUME NEW t \in 0 .. b
          PROVE  w[t] = IF t = 0 THEN c ELSE Standard!BatchStore(m, l, xns[t], At(t), w[t - 1])
      <4>1. CASE t = 0
        BY <3>1, <4>1
      <4>2. CASE t \in 1 .. b
        <5>1. t # 0 /\ w[t] = d[t].cache /\ w[t - 1] = d[t - 1].cache
          BY <4>2
        <5> QED BY <1>5, <4>2, <5>1
      <4> QED BY <4>1, <4>2
    <3>3. w = [t \in 0 .. b |-> w[t]]
      OBVIOUS
    <3> HIDE DEF w
    <3> QED BY <1>1, <3>2, <3>3
  <2> HIDE DEF w
  <2>2. stored = Steps(stored)
    BY <2>1
  <2>3. stored[0] = w[0] /\ From0(stored, b) /\ From0(w, b) /\ Follows(stored, w, b)
    <3> DEFINE turn(f, t) == IF t = 0 THEN c ELSE Standard!BatchStore(m, l, xns[t], start + t - 1, f[t - 1])
    <3>1. \A f : Steps(f) = [t \in 0 .. b |-> turn(f, t)]
      BY <1>1, Zenon
    <3> HIDE DEF turn, Steps, stored
    <3>2. /\ From0(stored, b) /\ \A t \in 0 .. b : stored[t] = turn(stored, t)
          /\ From0(w, b) /\ \A t \in 0 .. b : w[t] = turn(w, t)
      BY <2>1, <2>2, <3>1 DEF From0
    <3>3. turn(stored, 0) = turn(w, 0) /\ 0 \in 0 .. b
      BY DEF turn
    <3>4. ASSUME NEW t \in 1 .. b, stored[t - 1] = w[t - 1]
          PROVE  stored[t] = w[t]
      <4>1. turn(stored, t) = turn(w, t)
        BY <3>4 DEF turn
      <4> QED BY <3>2, <4>1
    <3> QED BY <3>2, <3>3, <3>4 DEF Follows
  <2> QED BY <2>3, SameFromStart
<1>8. Standard!BatchAttention(m, l, xns, start, c) =
        [cache |-> stored[Len(xns)],
         out |-> [t \in 1 .. Len(xns) |->
           Standard!attention(seen(t), l, Standard!BatchQuery(m, l, xns[t], start + t - 1),
                              Standard!attention_start_pos(start + t - 1, m.sliding_window), start + t - 1)]]
  BY Zenon DEF Standard!BatchAttention
<1> HIDE DEF stored
<1>9. ASSUME NEW t \in 1 .. b
      PROVE  Standard!attention(seen(t), l, QueryRow(m, l, At(t), s.xs[t]), FirstAttended(m, At(t)), At(t)) = d[t].y
  <2>0. c.storage_len = m.storage /\ w[b] = d[b].cache /\ w[t] = d[t].cache
    BY DEF IsCache
  <2> HIDE DEF w
  <2>1. CASE seen(t) = d[t].cache
    BY <1>4, <2>1
  <2>2. CASE seen(t) # d[t].cache
    <3>1. b \in 2 .. m.storage
      BY <1>1, <1>7, <2>0, <2>2 DEF IsModel
    <3>2. start + b <= m.storage /\ seen(t) = d[b].cache
      BY <1>1, <1>7, <2>0, <3>1 DEF RingHolds
    <3>3. IsCache(m, d[b].cache) /\ IsCache(m, d[t].cache)
      BY DEF InTurn
    <3>4. \A p \in 0 .. start + t - 1 :
            d[b].cache.k[l][p] = d[t].cache.k[l][p] /\ d[b].cache.v[l][p] = d[t].cache.v[l][p]
      <4>1. t \in 0 .. b /\ b \in Nat
        OBVIOUS
      <4>2. start + b <= m.storage
        BY <3>2
      <4>3. Stays(l, start, b, d, t)
        BY <4>1, <4>2, RowsStay
      <4> QED BY <4>3 DEF Stays
    <3>5. \A p \in FirstAttended(m, At(t)) .. At(t) :
            /\ d[b].cache.k[l][p % m.storage] = d[t].cache.k[l][p % m.storage]
            /\ d[b].cache.v[l][p % m.storage] = d[t].cache.v[l][p % m.storage]
      <4> TAKE p \in FirstAttended(m, At(t)) .. At(t)
      <4>1. FirstAttended(m, At(t)) \in Nat /\ m.storage \in Nat \ {0}
        BY <1>3, FirstIsPosition DEF IsModel
      <4>3. p \in Nat /\ p <= start + t - 1 /\ t <= b /\ start \in Nat /\ t \in Nat /\ b \in Nat /\ m.storage \in Nat
        BY <4>1
      <4>4. start + b <= m.storage
        BY <3>2
      <4>5. p \in 0 .. m.storage - 1
        BY <4>3, <4>4
      <4>6. p % m.storage = p
        <5>1. \A n \in Nat \ {0} : \A q \in 0 .. n - 1 : q % n = q
          OBVIOUS
        <5> QED BY <4>1, <4>5, <5>1, Zenon
      <4>2. p \in 0 .. start + t - 1 /\ p % m.storage = p
        BY <4>3, <4>6
      <4> QED BY <3>4, <4>2
    <3>6. FirstAttended(m, At(t)) \in Nat /\ At(t) \in Nat
      BY <1>3, FirstIsPosition
    <3> HIDE DEF At, seen
    <3>7. Standard!attention(d[b].cache, l, QueryRow(m, l, At(t), s.xs[t]), FirstAttended(m, At(t)), At(t))
            = Standard!attention(d[t].cache, l, QueryRow(m, l, At(t), s.xs[t]), FirstAttended(m, At(t)), At(t))
      BY <3>3, <3>5, <3>6, AttentionOfSlots
    <3> QED BY <1>4, <3>2, <3>7
  <2> QED BY <2>1, <2>2
<1> DEFINE mixed == Standard!BatchAttention(m, l, xns, start, c)
<1>10. /\ mixed.cache = d[b].cache
       /\ \A t \in 1 .. b : mixed.out[t] = d[t].y
  <2>1. mixed.cache = stored[b]
    BY <1>1, <1>8
  <2>2. ASSUME NEW t \in 1 .. b
        PROVE  mixed.out[t] = d[t].y
    <3>1. mixed.out[t] =
            Standard!attention(seen(t), l, Standard!BatchQuery(m, l, xns[t], At(t)),
                               Standard!attention_start_pos(At(t), m.sliding_window), At(t))
      BY <1>1, <1>8
    <3>2. FirstAttended(m, At(t)) = Standard!attention_start_pos(At(t), m.sliding_window)
      BY DEF FirstAttended
    <3> HIDE DEF mixed, seen, At
    <3> QED BY <1>6, <1>9, <3>1, <3>2
  <2> QED BY <1>7, <2>1, <2>2
<1> HIDE DEF mixed
<1> DEFINE x2s == [t \in DOMAIN s.xs |-> Standard!Add(s.xs[t], Standard!Apply("wo", l, mixed.out[t]))]
<1>11. Standard!BatchLayer(m, l, start, s) =
         [xs |-> [t \in DOMAIN x2s |-> Standard!Add(x2s[t], Standard!DenseFfn(l, Standard!Apply("ffn_norm", l, x2s[t])))],
          cache |-> mixed.cache]
  BY Zenon DEF Standard!BatchLayer, mixed, xns
<1>12. \A t \in 1 .. b : x2s[t] = Standard!Add(s.xs[t], Standard!Apply("wo", l, d[t].y))
  BY <1>10
<1>13. DOMAIN x2s = 1 .. b
  OBVIOUS
<1> HIDE DEF x2s
<1>14. \A t \in 1 .. b :
         Standard!Add(x2s[t], Standard!DenseFfn(l, Standard!Apply("ffn_norm", l, x2s[t])))
           = Finish(m, l, s.xs[t], d[t].y)
  BY <1>12 DEF Finish, StandardFinish, Bald
<1> QED BY <1>10, <1>11, <1>13, <1>14 DEF LayerOfRows

-----------------------------------------------------------------------------
(* A hybrid batch keeps token order. *)

Mixing == {"linear", "mamba2", "attention"}
IsHybrid(m) == m.arch \in {"qwen35", "nemotron_h"}

InTokenOrder(m, l, start, xs, c, b) ==
  After([do |-> "order", l |-> l, pos |-> start, xs |-> xs], m, [cache |-> c], b)

\* A step of the ordered part of a hybrid batch is a mixer up to its projection.
LEMMA OrderStepIs ==
  ASSUME NEW m, IsModel(m), IsHybrid(m), NEW l \in 1 .. Depth(m), m.layers[l].kind \in Mixing,
         NEW pos \in Nat, NEW x, NEW c, IsCache(m, c)
  PROVE  OrderStep(m, l, pos, x, c) =
           [cache |-> Mixer(m, l, pos, x, c).cache, y |-> Gated(m, l, x, Mixer(m, l, pos, x, c).y)]
<1> DEFINE n == RowsAt(m, l)
           r == StateAt(m, l)
           kind == m.layers[l].kind
<1>0. m.arch # "standard"
  BY DEF IsHybrid
<1>1. /\ n # 0 <=> kind = "attention"
      /\ r # 0 <=> kind \in {"linear", "mamba2"}
  BY <1>0, LayersKeepApart
<1>2. CASE kind = "attention"
  <2>1. n = Hybrid!kv_slot(m, l)
    BY <1>0, <1>2 DEF RowsAt
  <2>2. Hybrid!write_v(Hybrid!write_k(c, n, pos, Key(m, l, pos, x)), n, pos, Value(m, l, x))
          = Put(c, n, pos % m.storage, Key(m, l, pos, x), Value(m, l, x))
    BY HybridWriteIs
  <2>3. FirstAttended(m, pos) = 0
    BY <1>0 DEF FirstAttended
  <2>4. Mixer(m, l, pos, x, c) =
          [cache |-> Put(c, n, pos % m.storage, Key(m, l, pos, x), Value(m, l, x)),
           y |-> Standard!attention(Put(c, n, pos % m.storage, Key(m, l, pos, x), Value(m, l, x)), n,
                                    QueryRow(m, l, pos, x), 0, pos)]
    BY <1>1, <1>2, <2>3 DEF Mixer
  <2> HIDE DEF n
  <2> QED BY <1>2, <2>1, <2>2, <2>4, HybridAttention DEF OrderStep
<1>3. CASE kind # "attention"
  <2>1. n = 0 /\ r # 0
    BY <1>1, <1>3 DEF Mixing
  <2>2. r = Hybrid!recurrent_index(m, l)
    BY <2>1 DEF StateAt
  <2>3. Mixer(m, l, pos, x, c) = Hybrid!Recur(l, r, c, Projected(m, l, x), Coefficients(m, l, x))
    BY <2>1 DEF Mixer
  <2> HIDE DEF n, r
  <2> QED BY <1>3, <2>2, <2>3 DEF OrderStep
<1> QED BY <1>2, <1>3

\* So the ordered part ends with the cache of the mixers in turn.
LEMMA OrderIs ==
  ASSUME NEW m, IsModel(m), IsHybrid(m), NEW l \in 1 .. Depth(m), m.layers[l].kind \in Mixing,
         NEW start \in Nat, NEW xs, NEW c, IsCache(m, c), NEW b \in Nat,
         NEW d, InTurn(m, l, start, xs, c, b, d)
  PROVE  /\ InTokenOrder(m, l, start, xs, c, b)[b].cache = d[b].cache
         /\ \A t \in 1 .. b : InTokenOrder(m, l, start, xs, c, b)[t].y = Gated(m, l, xs[t], d[t].y)
<1> DEFINE of == [do |-> "order", l |-> l, pos |-> start, xs |-> xs]
           f == InTokenOrder(m, l, start, xs, c, b)
           Good == {t \in 0 .. b : f[t].cache = d[t].cache}
<1>1. f[0] = [cache |-> c] /\ \A t \in 1 .. b : f[t] = OrderStep(m, l, start + t - 1, xs[t], f[t - 1].cache)
  <2>1. \A t, before : TurnOf(of, m, t, before) = OrderStep(m, l, start + t - 1, xs[t], before.cache)
    BY Zenon DEF TurnOf
  <2> HIDE DEF of
  <2> QED BY <2>1, AfterIs DEF InTokenOrder, of
<1> HIDE DEF f
<1>2. ASSUME NEW t \in 1 .. b, f[t - 1].cache = d[t - 1].cache
      PROVE  f[t] = [cache |-> d[t].cache, y |-> Gated(m, l, xs[t], d[t].y)]
  <2>1. t - 1 \in 0 .. b /\ start + t - 1 \in Nat
    OBVIOUS
  <2>2. IsCache(m, d[t - 1].cache) /\ d[t] = Mixer(m, l, start + t - 1, xs[t], d[t - 1].cache)
    BY <2>1 DEF InTurn
  <2>3. f[t] = OrderStep(m, l, start + t - 1, xs[t], d[t - 1].cache)
    BY <1>1, <1>2
  <2> QED BY <2>1, <2>2, <2>3, OrderStepIs
<1>3. ASSUME NEW t \in 0 .. b, \A j \in 0 .. t - 1 : j \in Good
      PROVE  t \in Good
  <2>1. CASE t = 0
    BY <1>1, <2>1 DEF InTurn
  <2>2. CASE t # 0
    <3>1. t \in 1 .. b /\ t - 1 \in 0 .. t - 1
      BY <2>2
    <3>2. f[t - 1].cache = d[t - 1].cache
      BY <1>3, <3>1
    <3>3. f[t] = [cache |-> d[t].cache, y |-> Gated(m, l, xs[t], d[t].y)]
      BY <1>2, <3>1, <3>2
    <3> QED BY <3>3
  <2> QED BY <2>1, <2>2
<1> HIDE DEF Good
<1>4. \A t \in 0 .. b : t \in Good
  BY <1>3, FromBelow
<1>5. \A t \in 0 .. b : f[t].cache = d[t].cache
  BY <1>4 DEF Good
<1>6. ASSUME NEW t \in 1 .. b
      PROVE  f[t].y = Gated(m, l, xs[t], d[t].y)
  <2>1. f[t - 1].cache = d[t - 1].cache
    BY <1>5
  <2>2. f[t] = [cache |-> d[t].cache, y |-> Gated(m, l, xs[t], d[t].y)]
    BY <1>2, <2>1
  <2> QED BY <2>2
<1>7. f[b].cache = d[b].cache
  BY <1>5
<1> QED BY <1>6, <1>7 DEF f

\* All tokens of a hybrid batch through the mixer of a layer.
ProjOf(m, l, x, y) == IF m.arch = "qwen35" THEN QwenProj(m, l, x, y) ELSE NemotronProj(m, l, x, y)
BatchProjs(m, l, xs, b, d) ==
  [cache |-> d[b].cache, projs |-> [t \in 1 .. b |-> ProjOf(m, l, xs[t], d[t].y)]]

\* A turn of the ordered part is a step of it.
LEMMA TurnOfOrder ==
  ASSUME NEW m, NEW l, NEW start, NEW xs, NEW t, NEW before
  PROVE  TurnOf([do |-> "order", l |-> l, pos |-> start, xs |-> xs], m, t, before)
           = OrderStep(m, l, start + t - 1, xs[t], before.cache)
<1> DEFINE of == [do |-> "order", l |-> l, pos |-> start, xs |-> xs]
<1>1. of.do = "order" /\ of.l = l /\ of.pos = start /\ of.xs = xs
  OBVIOUS
<1> HIDE DEF of
<1>2. TurnOf(of, m, t, before) = OrderStep(m, l, start + t - 1, xs[t], before.cache)
  BY <1>1, Zenon DEF TurnOf
<1> QED BY <1>2 DEF of

AreRows(f, name, l, xs, b) ==
  DOMAIN f = 1 .. b /\ Len(f) = b /\ \A t \in 1 .. b : f[t] = Hybrid!Apply(name, l, xs[t])

\* A matrix applied to all rows at once.
LEMMA RowsAre ==
  ASSUME NEW name, NEW l, NEW b \in Nat \ {0}, NEW xs, DOMAIN xs = 1 .. b
  PROVE  AreRows(Hybrid!Rows(name, l, xs), name, l, xs, b)
<1> DEFINE f == [t \in DOMAIN xs |-> Hybrid!Apply(name, l, xs[t])]
<1>1. Hybrid!Rows(name, l, xs) = f
  BY DEF Hybrid!Rows
<1>2. DOMAIN f = 1 .. b /\ f = [t \in 1 .. b |-> f[t]]
  OBVIOUS
<1>3. \A t \in 1 .. b : f[t] = Hybrid!Apply(name, l, xs[t])
  OBVIOUS
<1> HIDE DEF f
<1>4. Len(f) = b
  BY <1>2, LenIs
<1> QED BY <1>1, <1>2, <1>3, <1>4 DEF AreRows

\* The four mixers of the hybrid batches that touch the cache: each is its rows
\* in turn.
LEMMA QwenLinearBatch ==
  ASSUME NEW m, IsModel(m), m.arch = "qwen35", NEW l \in 1 .. Depth(m), m.layers[l].kind = "linear",
         NEW start \in Nat, NEW b \in Nat \ {0}, NEW xs, NEW c,
         NEW d, Batching(m, l, start, b, xs, c, d)
  PROVE  Hybrid!Qwen35BatchLinear(m, l, Hybrid!Rows("attn_norm", l, xs), c) = BatchProjs(m, l, xs, b, d)
<1> DOMAIN xs = 1 .. b /\ IsCache(m, c) /\ InTurn(m, l, start, xs, c, b, d)
  BY DEF Batching
<1> DEFINE xns == Hybrid!Rows("attn_norm", l, xs)
<1>1. /\ Len(xns) = b /\ DOMAIN xns = 1 .. b
      /\ \A t \in 1 .. b : xns[t] = Hybrid!Apply("attn_norm", l, xs[t])
  <2>1. AreRows(xns, "attn_norm", l, xs, b)
    BY RowsAre
  <2> QED BY <2>1 DEF AreRows
<1> DEFINE qkv == Hybrid!Rows("qkv", l, xns)
           gate == Hybrid!Rows("gate", l, xns)
           alpha == Hybrid!Rows("alpha", l, xns)
           beta == Hybrid!Rows("beta", l, xns)
           step(t, e) ==
             Hybrid!Recur(l, Hybrid!recurrent_index(m, l), e, qkv[t], <<alpha[t], beta[t]>>)
           Steps(f) == [t \in 0 .. Len(xns) |-> IF t = 0 THEN [cache |-> c] ELSE step(t, f[t - 1].cache)]
           order == CHOOSE f : f = Steps(f)
           mixed == Hybrid!InTokenOrder(Len(xns), c, step)
           of == [do |-> "order", l |-> l, pos |-> start, xs |-> xs]
           hidden == [t \in DOMAIN xns |-> Hybrid!silu_mul(gate[t], Hybrid!Apply("norm", l, mixed.ys[t]))]
<1>2. Hybrid!Qwen35BatchLinear(m, l, xns, c) = [cache |-> mixed.cache, projs |-> Hybrid!Rows("out", l, hidden)]
  BY Zenon DEF Hybrid!Qwen35BatchLinear
<1>3. mixed = [cache |-> order[Len(xns)].cache, ys |-> [t \in 1 .. Len(xns) |-> order[t].y]]
  BY Zenon DEF Hybrid!InTokenOrder
<1> HIDE DEF mixed, xns
<1>4. /\ \A t \in 1 .. b : qkv[t] = Hybrid!Apply("qkv", l, Hybrid!Apply("attn_norm", l, xs[t]))
      /\ \A t \in 1 .. b : alpha[t] = Hybrid!Apply("alpha", l, Hybrid!Apply("attn_norm", l, xs[t]))
      /\ \A t \in 1 .. b : beta[t] = Hybrid!Apply("beta", l, Hybrid!Apply("attn_norm", l, xs[t]))
      /\ \A t \in 1 .. b : gate[t] = Hybrid!Apply("gate", l, Hybrid!Apply("attn_norm", l, xs[t]))
  <2>1. \A name : \A t \in 1 .. b :
          Hybrid!Rows(name, l, xns)[t] = Hybrid!Apply(name, l, Hybrid!Apply("attn_norm", l, xs[t]))
    BY <1>1 DEF Hybrid!Rows
  <2> QED BY <2>1
<1> HIDE DEF qkv, alpha, beta, gate
<1>5. \A t \in 1 .. b : \A e : step(t, e) = OrderStep(m, l, start + t - 1, xs[t], e)
  <2> TAKE t \in 1 .. b
  <2> TAKE e
  <2>1. \A y : Gated(m, l, xs[t], y) = y
    BY DEF Gated
  <2> DEFINE recur == Hybrid!Recur(l, Hybrid!recurrent_index(m, l), e, Projected(m, l, xs[t]), Coefficients(m, l, xs[t]))
  <2>2. step(t, e) = recur /\ recur = [cache |-> recur.cache, y |-> recur.y]
    <3>1. recur = [cache |-> recur.cache, y |-> recur.y]
      BY DEF Hybrid!Recur
    <3>2. step(t, e) = recur
      BY <1>4 DEF Projected, Coefficients
    <3> QED BY <3>1, <3>2
  <2>4. OrderStep(m, l, start + t - 1, xs[t], e) = [cache |-> recur.cache, y |-> Gated(m, l, xs[t], recur.y)]
    BY DEF OrderStep
  <2> HIDE DEF step, recur
  <2> QED BY <2>1, <2>2, <2>4
<1> HIDE DEF step
<1>6. \A f : Steps(f) = Turns(of, m, [cache |-> c], b, f)
  BY <1>1, <1>5, TurnOfOrder DEF Turns
<1> HIDE DEF Steps, of
<1>7. order = InTokenOrder(m, l, start, xs, c, b)
  <2> DEFINE g == InTokenOrder(m, l, start, xs, c, b)
  <2>1. g = Turns(of, m, [cache |-> c], b, g)
    BY AfterIs DEF InTokenOrder, of
  <2> HIDE DEF g
  <2>2. order = Steps(order)
    BY <1>6, <2>1
  <2> HIDE DEF order
  <2> QED BY <1>6, <2>2, TurnsAreAfter DEF InTokenOrder, of
<1> HIDE DEF order
<1>8. /\ mixed.cache = d[b].cache
      /\ DOMAIN mixed.ys = 1 .. b /\ \A t \in 1 .. b : mixed.ys[t] = d[t].y
  <2>1. m.layers[l].kind \in Mixing /\ IsHybrid(m) /\ b \in Nat
    BY DEF Mixing, IsHybrid
  <2>2. \A t \in 1 .. b : Gated(m, l, xs[t], d[t].y) = d[t].y
    BY DEF Gated
  <2>3. order[b].cache = d[b].cache /\ \A t \in 1 .. b : order[t].y = Gated(m, l, xs[t], d[t].y)
    BY <1>7, <2>1, OrderIs, SMTT(30)
  <2> QED BY <1>3, <1>1, <2>2, <2>3
<1>9. Hybrid!Rows("out", l, hidden) = [t \in 1 .. b |-> ProjOf(m, l, xs[t], d[t].y)]
  <2>1. DOMAIN hidden = 1 .. b
    BY <1>1
  <2>2. \A t \in 1 .. b : Hybrid!Apply("out", l, hidden[t]) = ProjOf(m, l, xs[t], d[t].y)
    BY <1>1, <1>4, <1>8 DEF ProjOf, QwenProj, Hybrid!qwen35_gated
  <2> HIDE DEF hidden
  <2> QED BY <2>1, <2>2 DEF Hybrid!Rows
<1> QED BY <1>2, <1>8, <1>9 DEF BatchProjs, xns

\* Attention of Qwen3.5.
LEMMA QwenAttentionBatch ==
  ASSUME NEW m, IsModel(m), m.arch = "qwen35", NEW l \in 1 .. Depth(m), m.layers[l].kind = "attention",
         NEW start \in Nat, NEW b \in Nat \ {0}, NEW xs, NEW c,
         NEW d, Batching(m, l, start, b, xs, c, d)
  PROVE  Hybrid!Qwen35BatchAttention(m, l, start, Hybrid!Rows("attn_norm", l, xs), c) = BatchProjs(m, l, xs, b, d)
<1> DOMAIN xs = 1 .. b /\ IsCache(m, c) /\ InTurn(m, l, start, xs, c, b, d)
  BY DEF Batching
<1> DEFINE xns == Hybrid!Rows("attn_norm", l, xs)
<1>1. /\ Len(xns) = b /\ DOMAIN xns = 1 .. b
      /\ \A t \in 1 .. b : xns[t] = Hybrid!Apply("attn_norm", l, xs[t])
  <2>1. AreRows(xns, "attn_norm", l, xs, b)
    BY RowsAre
  <2> QED BY <2>1 DEF AreRows
<1> DEFINE joint == Hybrid!Rows("q_gate", l, xns)
           ks == Hybrid!Rows("k", l, xns)
           vs == Hybrid!Rows("v", l, xns)
           slot == Hybrid!kv_slot(m, l)
           normed(name, x) == Hybrid!ApplyIf(m.layers[l].norms, name, l, x)
           step(t, e) ==
             LET pos == start + t - 1
                 stored == Hybrid!write_v(
                   Hybrid!write_k(e, slot, pos, Hybrid!rope(pos, normed("k_norm", ks[t]))), slot, pos, vs[t])
                 q == Hybrid!rope(pos, normed("q_norm", Hybrid!T("q_half", l, <<joint[t]>>)))
             IN  [cache |-> stored,
                  y |-> Hybrid!T("sigmoid_mul", 0,
                    <<Hybrid!attention(stored, slot, q, 0, pos), Hybrid!T("gate_half", l, <<joint[t]>>)>>)]
           Steps(f) == [t \in 0 .. Len(xns) |-> IF t = 0 THEN [cache |-> c] ELSE step(t, f[t - 1].cache)]
           order == CHOOSE f : f = Steps(f)
           mixed == Hybrid!InTokenOrder(Len(xns), c, step)
           of == [do |-> "order", l |-> l, pos |-> start, xs |-> xs]
<1>2. Hybrid!Qwen35BatchAttention(m, l, start, xns, c) = [cache |-> mixed.cache, projs |-> Hybrid!Rows("out", l, mixed.ys)]
  BY Zenon DEF Hybrid!Qwen35BatchAttention
<1>3. mixed = [cache |-> order[Len(xns)].cache, ys |-> [t \in 1 .. Len(xns) |-> order[t].y]]
  BY Zenon DEF Hybrid!InTokenOrder
<1> HIDE DEF mixed, xns
<1>4. /\ \A t \in 1 .. b : joint[t] = Hybrid!Apply("q_gate", l, Hybrid!Apply("attn_norm", l, xs[t]))
      /\ \A t \in 1 .. b : ks[t] = Hybrid!Apply("k", l, Hybrid!Apply("attn_norm", l, xs[t]))
      /\ \A t \in 1 .. b : vs[t] = Hybrid!Apply("v", l, Hybrid!Apply("attn_norm", l, xs[t]))
  <2>1. \A name : \A t \in 1 .. b :
          Hybrid!Rows(name, l, xns)[t] = Hybrid!Apply(name, l, Hybrid!Apply("attn_norm", l, xs[t]))
    BY <1>1 DEF Hybrid!Rows
  <2> QED BY <2>1
<1> HIDE DEF joint, ks, vs
<1>5. \A t \in 1 .. b : \A e : step(t, e) = OrderStep(m, l, start + t - 1, xs[t], e)
  <2> TAKE t \in 1 .. b
  <2> TAKE e
  <2> DEFINE pos == start + t - 1
             after == Hybrid!write_v(Hybrid!write_k(e, slot, pos, Key(m, l, pos, xs[t])), slot, pos, Value(m, l, xs[t]))
             y == Hybrid!attention(after, slot, QueryRow(m, l, pos, xs[t]), 0, pos)
  <2>1. /\ Hybrid!rope(pos, normed("k_norm", ks[t])) = Key(m, l, pos, xs[t])
        /\ vs[t] = Value(m, l, xs[t])
        /\ Hybrid!rope(pos, normed("q_norm", Hybrid!T("q_half", l, <<joint[t]>>))) = QueryRow(m, l, pos, xs[t])
    BY <1>4 DEF Key, Value, QueryRow
  <2>2. OrderStep(m, l, pos, xs[t], e) = [cache |-> after, y |-> Gated(m, l, xs[t], y)]
    BY DEF OrderStep
  <2>3. Gated(m, l, xs[t], y) = Hybrid!T("sigmoid_mul", 0, <<y, Hybrid!T("gate_half", l, <<joint[t]>>)>>)
    BY <1>4 DEF Gated
  <2>4. step(t, e) = [cache |-> after, y |-> Hybrid!T("sigmoid_mul", 0, <<y, Hybrid!T("gate_half", l, <<joint[t]>>)>>)]
    BY <2>1
  <2> QED BY <2>2, <2>3, <2>4
<1> HIDE DEF step
<1>6. \A f : Steps(f) = Turns(of, m, [cache |-> c], b, f)
  BY <1>1, <1>5, TurnOfOrder DEF Turns
<1> HIDE DEF Steps, of
<1>7. order = InTokenOrder(m, l, start, xs, c, b)
  <2> DEFINE g == InTokenOrder(m, l, start, xs, c, b)
  <2>1. g = Turns(of, m, [cache |-> c], b, g)
    BY AfterIs DEF InTokenOrder, of
  <2> HIDE DEF g
  <2>2. order = Steps(order)
    BY <1>6, <2>1
  <2> HIDE DEF order
  <2> QED BY <1>6, <2>2, TurnsAreAfter DEF InTokenOrder, of
<1> HIDE DEF order
<1>8. /\ mixed.cache = d[b].cache
      /\ DOMAIN mixed.ys = 1 .. b /\ \A t \in 1 .. b : mixed.ys[t] = Hybrid!T("sigmoid_mul", 0, <<d[t].y, Hybrid!T("gate_half", l, <<Hybrid!Apply("q_gate", l, Hybrid!Apply("attn_norm", l, xs[t]))>>)>>)
  <2>1. m.layers[l].kind \in Mixing /\ IsHybrid(m) /\ b \in Nat
    BY DEF Mixing, IsHybrid
  <2>2. \A t \in 1 .. b : Gated(m, l, xs[t], d[t].y) = Hybrid!T("sigmoid_mul", 0, <<d[t].y, Hybrid!T("gate_half", l, <<Hybrid!Apply("q_gate", l, Hybrid!Apply("attn_norm", l, xs[t]))>>)>>)
    BY DEF Gated
  <2>3. order[b].cache = d[b].cache /\ \A t \in 1 .. b : order[t].y = Gated(m, l, xs[t], d[t].y)
    BY <1>7, <2>1, OrderIs, SMTT(30)
  <2> QED BY <1>3, <1>1, <2>2, <2>3
<1>9. Hybrid!Rows("out", l, mixed.ys) = [t \in 1 .. b |-> ProjOf(m, l, xs[t], d[t].y)]
  <2>1. \A t \in 1 .. b : Hybrid!Apply("out", l, mixed.ys[t]) = ProjOf(m, l, xs[t], d[t].y)
    BY <1>8 DEF ProjOf, QwenProj
  <2> QED BY <1>8, <2>1 DEF Hybrid!Rows
<1> QED BY <1>2, <1>8, <1>9 DEF BatchProjs, xns

\* Mamba-2 of Nemotron-H.
LEMMA NemotronMambaBatch ==
  ASSUME NEW m, IsModel(m), m.arch = "nemotron_h", NEW l \in 1 .. Depth(m), m.layers[l].kind = "mamba2",
         NEW start \in Nat, NEW b \in Nat \ {0}, NEW xs, NEW c,
         NEW d, Batching(m, l, start, b, xs, c, d)
  PROVE  Hybrid!NemotronBatchMamba2(m, l, Hybrid!Rows("attn_norm", l, xs), c) = BatchProjs(m, l, xs, b, d)
<1> DOMAIN xs = 1 .. b /\ IsCache(m, c) /\ InTurn(m, l, start, xs, c, b, d)
  BY DEF Batching
<1> DEFINE xns == Hybrid!Rows("attn_norm", l, xs)
<1>1. /\ Len(xns) = b /\ DOMAIN xns = 1 .. b
      /\ \A t \in 1 .. b : xns[t] = Hybrid!Apply("attn_norm", l, xs[t])
  <2>1. AreRows(xns, "attn_norm", l, xs, b)
    BY RowsAre
  <2> QED BY <2>1 DEF AreRows
<1> DEFINE projected == Hybrid!Rows("in_proj", l, xns)
           step(t, e) ==
             Hybrid!nemotron_mamba2_core(m, l, projected[t], e)
           Steps(f) == [t \in 0 .. Len(xns) |-> IF t = 0 THEN [cache |-> c] ELSE step(t, f[t - 1].cache)]
           order == CHOOSE f : f = Steps(f)
           mixed == Hybrid!InTokenOrder(Len(xns), c, step)
           of == [do |-> "order", l |-> l, pos |-> start, xs |-> xs]
<1>2. Hybrid!NemotronBatchMamba2(m, l, xns, c) = [cache |-> mixed.cache, projs |-> Hybrid!Rows("out_proj", l, mixed.ys)]
  BY Zenon DEF Hybrid!NemotronBatchMamba2
<1>3. mixed = [cache |-> order[Len(xns)].cache, ys |-> [t \in 1 .. Len(xns) |-> order[t].y]]
  BY Zenon DEF Hybrid!InTokenOrder
<1> HIDE DEF mixed, xns
<1>4. \A t \in 1 .. b : projected[t] = Hybrid!Apply("in_proj", l, Hybrid!Apply("attn_norm", l, xs[t]))
  <2>1. \A name : \A t \in 1 .. b :
          Hybrid!Rows(name, l, xns)[t] = Hybrid!Apply(name, l, Hybrid!Apply("attn_norm", l, xs[t]))
    BY <1>1 DEF Hybrid!Rows
  <2> QED BY <2>1
<1> HIDE DEF projected
<1>5. \A t \in 1 .. b : \A e : step(t, e) = OrderStep(m, l, start + t - 1, xs[t], e)
  <2> TAKE t \in 1 .. b
  <2> TAKE e
  <2>1. \A y : Gated(m, l, xs[t], y) = Hybrid!Apply("norm", l, Hybrid!silu_mul(Hybrid!T("z", l, <<Hybrid!Apply("in_proj", l, Hybrid!Apply("attn_norm", l, xs[t]))>>), y))
    BY DEF Gated
  <2> DEFINE recur == Hybrid!Recur(l, Hybrid!recurrent_index(m, l), e, Projected(m, l, xs[t]), Coefficients(m, l, xs[t]))
  <2>2. step(t, e) = [cache |-> recur.cache, y |-> Hybrid!Apply("norm", l, Hybrid!silu_mul(Hybrid!T("z", l, <<Hybrid!Apply("in_proj", l, Hybrid!Apply("attn_norm", l, xs[t]))>>), recur.y))]
    BY <1>4 DEF Projected, Coefficients, Hybrid!nemotron_mamba2_core
  <2>4. OrderStep(m, l, start + t - 1, xs[t], e) = [cache |-> recur.cache, y |-> Gated(m, l, xs[t], recur.y)]
    BY DEF OrderStep
  <2> HIDE DEF step, recur
  <2> QED BY <2>1, <2>2, <2>4
<1> HIDE DEF step
<1>6. \A f : Steps(f) = Turns(of, m, [cache |-> c], b, f)
  BY <1>1, <1>5, TurnOfOrder DEF Turns
<1> HIDE DEF Steps, of
<1>7. order = InTokenOrder(m, l, start, xs, c, b)
  <2> DEFINE g == InTokenOrder(m, l, start, xs, c, b)
  <2>1. g = Turns(of, m, [cache |-> c], b, g)
    BY AfterIs DEF InTokenOrder, of
  <2> HIDE DEF g
  <2>2. order = Steps(order)
    BY <1>6, <2>1
  <2> HIDE DEF order
  <2> QED BY <1>6, <2>2, TurnsAreAfter DEF InTokenOrder, of
<1> HIDE DEF order
<1>8. /\ mixed.cache = d[b].cache
      /\ DOMAIN mixed.ys = 1 .. b /\ \A t \in 1 .. b : mixed.ys[t] = Hybrid!Apply("norm", l, Hybrid!silu_mul(Hybrid!T("z", l, <<Hybrid!Apply("in_proj", l, Hybrid!Apply("attn_norm", l, xs[t]))>>), d[t].y))
  <2>1. m.layers[l].kind \in Mixing /\ IsHybrid(m) /\ b \in Nat
    BY DEF Mixing, IsHybrid
  <2>2. \A t \in 1 .. b : Gated(m, l, xs[t], d[t].y) = Hybrid!Apply("norm", l, Hybrid!silu_mul(Hybrid!T("z", l, <<Hybrid!Apply("in_proj", l, Hybrid!Apply("attn_norm", l, xs[t]))>>), d[t].y))
    BY DEF Gated
  <2>3. order[b].cache = d[b].cache /\ \A t \in 1 .. b : order[t].y = Gated(m, l, xs[t], d[t].y)
    BY <1>7, <2>1, OrderIs, SMTT(30)
  <2> QED BY <1>3, <1>1, <2>2, <2>3
<1>9. Hybrid!Rows("out_proj", l, mixed.ys) = [t \in 1 .. b |-> ProjOf(m, l, xs[t], d[t].y)]
  <2>1. \A t \in 1 .. b : Hybrid!Apply("out_proj", l, mixed.ys[t]) = ProjOf(m, l, xs[t], d[t].y)
    BY <1>8 DEF ProjOf, NemotronProj
  <2> QED BY <1>8, <2>1 DEF Hybrid!Rows
<1> QED BY <1>2, <1>8, <1>9 DEF BatchProjs, xns

\* Attention of Nemotron-H.
LEMMA NemotronAttentionBatch ==
  ASSUME NEW m, IsModel(m), m.arch = "nemotron_h", NEW l \in 1 .. Depth(m), m.layers[l].kind = "attention",
         NEW start \in Nat, NEW b \in Nat \ {0}, NEW xs, NEW c,
         NEW d, Batching(m, l, start, b, xs, c, d)
  PROVE  Hybrid!NemotronBatchAttention(m, l, start, Hybrid!Rows("attn_norm", l, xs), c) = BatchProjs(m, l, xs, b, d)
<1> DOMAIN xs = 1 .. b /\ IsCache(m, c) /\ InTurn(m, l, start, xs, c, b, d)
  BY DEF Batching
<1> DEFINE xns == Hybrid!Rows("attn_norm", l, xs)
<1>1. /\ Len(xns) = b /\ DOMAIN xns = 1 .. b
      /\ \A t \in 1 .. b : xns[t] = Hybrid!Apply("attn_norm", l, xs[t])
  <2>1. AreRows(xns, "attn_norm", l, xs, b)
    BY RowsAre
  <2> QED BY <2>1 DEF AreRows
<1> DEFINE qs == Hybrid!Rows("wq", l, xns)
           ks == Hybrid!Rows("wk", l, xns)
           vs == Hybrid!Rows("wv", l, xns)
           slot == Hybrid!kv_slot(m, l)
           step(t, e) ==
             LET pos == start + t - 1
                 stored == Hybrid!write_v(Hybrid!write_k(e, slot, pos, ks[t]), slot, pos, vs[t])
             IN  [cache |-> stored, y |-> Hybrid!attention(stored, slot, qs[t], 0, pos)]
           Steps(f) == [t \in 0 .. Len(xns) |-> IF t = 0 THEN [cache |-> c] ELSE step(t, f[t - 1].cache)]
           order == CHOOSE f : f = Steps(f)
           mixed == Hybrid!InTokenOrder(Len(xns), c, step)
           of == [do |-> "order", l |-> l, pos |-> start, xs |-> xs]
           wos == Hybrid!Rows("wo", l, mixed.ys)
           biased == [t \in DOMAIN xns |-> Hybrid!add_bias_if_present(m.layers[l], "bo", l, wos[t])]
<1>2. Hybrid!NemotronBatchAttention(m, l, start, xns, c) = [cache |-> mixed.cache, projs |-> biased]
  BY Zenon DEF Hybrid!NemotronBatchAttention
<1>3. mixed = [cache |-> order[Len(xns)].cache, ys |-> [t \in 1 .. Len(xns) |-> order[t].y]]
  BY Zenon DEF Hybrid!InTokenOrder
<1> HIDE DEF mixed, xns
<1>4. /\ \A t \in 1 .. b : qs[t] = Hybrid!Apply("wq", l, Hybrid!Apply("attn_norm", l, xs[t]))
      /\ \A t \in 1 .. b : ks[t] = Hybrid!Apply("wk", l, Hybrid!Apply("attn_norm", l, xs[t]))
      /\ \A t \in 1 .. b : vs[t] = Hybrid!Apply("wv", l, Hybrid!Apply("attn_norm", l, xs[t]))
  <2>1. \A name : \A t \in 1 .. b :
          Hybrid!Rows(name, l, xns)[t] = Hybrid!Apply(name, l, Hybrid!Apply("attn_norm", l, xs[t]))
    BY <1>1 DEF Hybrid!Rows
  <2> QED BY <2>1
<1> HIDE DEF qs, ks, vs
<1>5. \A t \in 1 .. b : \A e : step(t, e) = OrderStep(m, l, start + t - 1, xs[t], e)
  <2> TAKE t \in 1 .. b
  <2> TAKE e
  <2> DEFINE pos == start + t - 1
             after == Hybrid!write_v(Hybrid!write_k(e, slot, pos, Key(m, l, pos, xs[t])), slot, pos, Value(m, l, xs[t]))
             y == Hybrid!attention(after, slot, QueryRow(m, l, pos, xs[t]), 0, pos)
  <2>1. /\ ks[t] = Key(m, l, pos, xs[t])
        /\ vs[t] = Value(m, l, xs[t])
        /\ qs[t] = QueryRow(m, l, pos, xs[t])
    BY <1>4 DEF Key, Value, QueryRow
  <2>2. OrderStep(m, l, pos, xs[t], e) = [cache |-> after, y |-> Gated(m, l, xs[t], y)]
    BY DEF OrderStep
  <2>3. Gated(m, l, xs[t], y) = y
    BY <1>4 DEF Gated
  <2>4. step(t, e) = [cache |-> after, y |-> y]
    BY <2>1
  <2> QED BY <2>2, <2>3, <2>4
<1> HIDE DEF step
<1>6. \A f : Steps(f) = Turns(of, m, [cache |-> c], b, f)
  BY <1>1, <1>5, TurnOfOrder DEF Turns
<1> HIDE DEF Steps, of
<1>7. order = InTokenOrder(m, l, start, xs, c, b)
  <2> DEFINE g == InTokenOrder(m, l, start, xs, c, b)
  <2>1. g = Turns(of, m, [cache |-> c], b, g)
    BY AfterIs DEF InTokenOrder, of
  <2> HIDE DEF g
  <2>2. order = Steps(order)
    BY <1>6, <2>1
  <2> HIDE DEF order
  <2> QED BY <1>6, <2>2, TurnsAreAfter DEF InTokenOrder, of
<1> HIDE DEF order
<1>8. /\ mixed.cache = d[b].cache
      /\ DOMAIN mixed.ys = 1 .. b /\ \A t \in 1 .. b : mixed.ys[t] = d[t].y
  <2>1. m.layers[l].kind \in Mixing /\ IsHybrid(m) /\ b \in Nat
    BY DEF Mixing, IsHybrid
  <2>2. \A t \in 1 .. b : Gated(m, l, xs[t], d[t].y) = d[t].y
    BY DEF Gated
  <2>3. order[b].cache = d[b].cache /\ \A t \in 1 .. b : order[t].y = Gated(m, l, xs[t], d[t].y)
    BY <1>7, <2>1, OrderIs, SMTT(30)
  <2> QED BY <1>3, <1>1, <2>2, <2>3
<1>9. biased = [t \in 1 .. b |-> ProjOf(m, l, xs[t], d[t].y)]
  <2>1. \A t \in 1 .. b : wos[t] = Hybrid!Apply("wo", l, d[t].y)
    BY <1>8 DEF Hybrid!Rows
  <2> HIDE DEF wos
  <2>2. \A t \in 1 .. b :
          Hybrid!add_bias_if_present(m.layers[l], "bo", l, wos[t]) = ProjOf(m, l, xs[t], d[t].y)
    BY <2>1 DEF ProjOf, NemotronProj
  <2> QED BY <1>1, <2>2
<1> QED BY <1>2, <1>8, <1>9 DEF BatchProjs, xns

\* A batch layer of Qwen3.5 is its rows in turn.
LEMMA QwenBatchLayer ==
  ASSUME NEW m, IsModel(m), m.arch = "qwen35", NEW l \in 1 .. Depth(m),
         NEW start \in Nat, NEW b \in Nat \ {0}, NEW s,
         NEW d, Batching(m, l, start, b, s.xs, s.cache, d)
  PROVE  Hybrid!Qwen35BatchLayer(m, l, start, s) = LayerOfRows(m, l, s.xs, b, d)
<1> DOMAIN s.xs = 1 .. b /\ IsCache(m, s.cache) /\ InTurn(m, l, start, s.xs, s.cache, b, d)
  BY DEF Batching
<1> DEFINE in == s.xs
           c == s.cache
           xns == Hybrid!Rows("attn_norm", l, in)
           linear == m.layers[l].kind = "linear"
           mixed == IF linear THEN Hybrid!Qwen35BatchLinear(m, l, xns, c)
                    ELSE Hybrid!Qwen35BatchAttention(m, l, start, xns, c)
           xs == [t \in DOMAIN xns |-> Hybrid!Add(in[t], mixed.projs[t])]
           xn2s == Hybrid!Rows("post_attn_norm", l, xs)
           gates == Hybrid!Rows("ffn_gate", l, xn2s)
           ups == Hybrid!Rows("ffn_up", l, xn2s)
           hidden == [t \in DOMAIN xns |-> Hybrid!silu_mul(gates[t], ups[t])]
           downs == Hybrid!Rows("ffn_down", l, hidden)
<1>1. Hybrid!Qwen35BatchLayer(m, l, start, s) =
        [xs |-> [t \in DOMAIN xns |-> Hybrid!Add(xs[t], downs[t])], cache |-> mixed.cache]
  BY Zenon DEF Hybrid!Qwen35BatchLayer
<1>2. DOMAIN xns = 1 .. b
  <2>1. AreRows(xns, "attn_norm", l, in, b)
    BY RowsAre
  <2> QED BY <2>1 DEF AreRows
<1>3. mixed = BatchProjs(m, l, in, b, d)
  <2>1. CASE linear
    <3>1. Hybrid!Qwen35BatchLinear(m, l, xns, c) = BatchProjs(m, l, in, b, d)
      BY <2>1, QwenLinearBatch
    <3> QED BY <2>1, <3>1
  <2>2. CASE ~linear
    <3>1. m.layers[l].kind = "attention"
      BY <2>2 DEF IsModel
    <3>2. Hybrid!Qwen35BatchAttention(m, l, start, xns, c) = BatchProjs(m, l, in, b, d)
      BY <3>1, QwenAttentionBatch
    <3> QED BY <2>2, <3>2
  <2> QED BY <2>1, <2>2
<1> HIDE DEF mixed, xns, c
<1>4. mixed.cache = d[b].cache /\ \A t \in 1 .. b : mixed.projs[t] = QwenProj(m, l, in[t], d[t].y)
  BY <1>3 DEF BatchProjs, ProjOf
<1>5. DOMAIN xs = 1 .. b /\ \A t \in 1 .. b : xs[t] = Hybrid!Add(in[t], QwenProj(m, l, in[t], d[t].y))
  BY <1>2, <1>4
<1> HIDE DEF xs, in
<1>6. \A t \in 1 .. b : Hybrid!Add(xs[t], downs[t]) = Hybrid!Qwen35Ffn(l, xs[t])
  <2>1. DOMAIN xn2s = 1 .. b /\ \A t \in 1 .. b : xn2s[t] = Hybrid!Apply("post_attn_norm", l, xs[t])
    BY <1>5 DEF Hybrid!Rows
  <2> HIDE DEF xn2s
  <2>2. \A t \in 1 .. b : gates[t] = Hybrid!Apply("ffn_gate", l, xn2s[t]) /\ ups[t] = Hybrid!Apply("ffn_up", l, xn2s[t])
    BY <2>1 DEF Hybrid!Rows
  <2> HIDE DEF gates, ups
  <2>3. \A t \in 1 .. b : downs[t] = Hybrid!Apply("ffn_down", l, Hybrid!silu_mul(gates[t], ups[t]))
    BY <1>2 DEF Hybrid!Rows
  <2> HIDE DEF downs
  <2> QED BY <2>1, <2>2, <2>3 DEF Hybrid!Qwen35Ffn
<1> HIDE DEF downs
<1>7. \A t \in 1 .. b : Hybrid!Add(xs[t], downs[t]) = Finish(m, l, in[t], d[t].y)
  BY <1>5, <1>6 DEF Finish, QwenFinish
<1> QED BY <1>1, <1>2, <1>4, <1>7 DEF LayerOfRows, in

\* Every mixer of a Nemotron-H batch is its rows in turn,
LEMMA NemotronBatchMixerIs ==
  ASSUME NEW m, IsModel(m), m.arch = "nemotron_h", NEW l \in 1 .. Depth(m),
         NEW start \in Nat, NEW b \in Nat \ {0}, NEW xs, NEW c,
         NEW d, Batching(m, l, start, b, xs, c, d)
  PROVE  Hybrid!NemotronBatchMixer(m, l, start, Hybrid!Rows("attn_norm", l, xs), c) = BatchProjs(m, l, xs, b, d)
<1> DOMAIN xs = 1 .. b /\ IsCache(m, c) /\ InTurn(m, l, start, xs, c, b, d)
  BY DEF Batching
<1> DEFINE xns == Hybrid!Rows("attn_norm", l, xs)
           kind == m.layers[l].kind
           mixed == Hybrid!NemotronBatchMixer(m, l, start, xns, c)
<1>1. DOMAIN xns = 1 .. b /\ \A t \in 1 .. b : xns[t] = Hybrid!Apply("attn_norm", l, xs[t])
  <2>1. AreRows(xns, "attn_norm", l, xs, b)
    BY RowsAre
  <2> QED BY <2>1 DEF AreRows
<1>2. CASE kind = "mamba2"
  <2>1. Hybrid!NemotronBatchMamba2(m, l, xns, c) = BatchProjs(m, l, xs, b, d)
    BY <1>2, NemotronMambaBatch
  <2>2. mixed = Hybrid!NemotronBatchMamba2(m, l, xns, c)
    BY <1>2 DEF Hybrid!NemotronBatchMixer
  <2> QED BY <2>1, <2>2
<1>3. CASE kind = "attention"
  <2>1. Hybrid!NemotronBatchAttention(m, l, start, xns, c) = BatchProjs(m, l, xs, b, d)
    BY <1>3, NemotronAttentionBatch
  <2>2. mixed = Hybrid!NemotronBatchAttention(m, l, start, xns, c)
    BY <1>3 DEF Hybrid!NemotronBatchMixer
  <2> QED BY <2>1, <2>2
<1>4. ASSUME kind \in {"experts", "dense"}
      PROVE  d[b].cache = c
  <2>1. RowsAt(m, l) = 0 /\ StateAt(m, l) = 0
    BY <1>4, LayersKeepApart
  <2>2. b \in 0 .. b
    OBVIOUS
  <2>3. IsCache(m, d[b].cache) /\ SameElsewhere(m, l, d[b].cache, c)
    BY <2>2 DEF InTurn
  <2>4. \A n \in 1 .. Depth(m) : SameRows(n, d[b].cache, c) /\ SameState(n, d[b].cache, c)
    BY <2>1, <2>3 DEF SameElsewhere
  <2> QED BY <2>3, <2>4, SameCache
<1> HIDE DEF xns
<1>5. CASE kind = "experts"
  <2>1. mixed = [cache |-> c, projs |-> [t \in 1 .. b |-> Hybrid!nemotron_moe_ffn_into(l, xns[t])]]
    BY <1>1, <1>5 DEF Hybrid!NemotronBatchMixer
  <2>2. \A t \in 1 .. b : Hybrid!nemotron_moe_ffn_into(l, xns[t]) = ProjOf(m, l, xs[t], d[t].y)
    BY <1>1, <1>5 DEF ProjOf, NemotronProj
  <2> HIDE DEF mixed
  <2> QED BY <1>4, <1>5, <2>1, <2>2 DEF BatchProjs, mixed, xns
<1>6. CASE kind = "dense"
  <2> DEFINE ups == Hybrid!Rows("up", l, xns)
             act == [t \in DOMAIN xns |-> Hybrid!relu2(Hybrid!add_bias_if_present(m.layers[l], "up_bias", l, ups[t]))]
             downs == Hybrid!Rows("down", l, act)
             out == [t \in DOMAIN xns |-> Hybrid!add_bias_if_present(m.layers[l], "down_bias", l, downs[t])]
  <2>1. mixed = [cache |-> c, projs |-> out]
    BY <1>6, Zenon DEF Hybrid!NemotronBatchMixer, Hybrid!NemotronBatchDense
  <2>2. \A t \in 1 .. b : ups[t] = Hybrid!Apply("up", l, xns[t])
    BY <1>1 DEF Hybrid!Rows
  <2> HIDE DEF ups
  <2>3. \A t \in 1 .. b : downs[t] = Hybrid!Apply("down", l,
          Hybrid!relu2(Hybrid!add_bias_if_present(m.layers[l], "up_bias", l, ups[t])))
    BY <1>1 DEF Hybrid!Rows
  <2> HIDE DEF downs
  <2>4. \A t \in 1 .. b :
          Hybrid!add_bias_if_present(m.layers[l], "down_bias", l, downs[t]) = Hybrid!NemotronDense(m, l, xns[t])
    BY <2>2, <2>3 DEF Hybrid!NemotronDense
  <2>5. out = [t \in 1 .. b |-> Hybrid!NemotronDense(m, l, xns[t])]
    BY <1>1, <2>4
  <2>6. \A t \in 1 .. b : Hybrid!NemotronDense(m, l, xns[t]) = ProjOf(m, l, xs[t], d[t].y)
    BY <1>1, <1>6 DEF ProjOf, NemotronProj
  <2> HIDE DEF mixed, out
  <2> QED BY <1>4, <1>6, <2>1, <2>5, <2>6 DEF BatchProjs, mixed, xns
<1>7. kind \in {"mamba2", "attention", "experts", "dense"}
  BY DEF IsModel
<1> QED BY <1>2, <1>3, <1>5, <1>6, <1>7 DEF xns

\* and so is a layer.
LEMMA NemotronBatchLayerIs ==
  ASSUME NEW m, IsModel(m), m.arch = "nemotron_h", NEW l \in 1 .. Depth(m),
         NEW start \in Nat, NEW b \in Nat \ {0}, NEW s,
         NEW d, Batching(m, l, start, b, s.xs, s.cache, d)
  PROVE  Hybrid!NemotronBatchLayer(m, l, start, s) = LayerOfRows(m, l, s.xs, b, d)
<1> DOMAIN s.xs = 1 .. b /\ IsCache(m, s.cache) /\ InTurn(m, l, start, s.xs, s.cache, b, d)
  BY DEF Batching
<1> DEFINE mixed == Hybrid!NemotronBatchMixer(m, l, start, Hybrid!Rows("attn_norm", l, s.xs), s.cache)
<1>1. mixed = BatchProjs(m, l, s.xs, b, d)
  BY NemotronBatchMixerIs
<1>2. Hybrid!NemotronBatchLayer(m, l, start, s) =
        [xs |-> [t \in DOMAIN s.xs |-> Hybrid!Add(s.xs[t], mixed.projs[t])], cache |-> mixed.cache]
  BY Zenon DEF Hybrid!NemotronBatchLayer
<1> HIDE DEF mixed
<1>3. mixed.cache = d[b].cache /\ \A t \in 1 .. b : mixed.projs[t] = NemotronProj(m, l, s.xs[t], d[t].y)
  BY <1>1 DEF BatchProjs, ProjOf
<1>4. \A t \in 1 .. b : Hybrid!Add(s.xs[t], mixed.projs[t]) = Finish(m, l, s.xs[t], d[t].y)
  BY <1>3 DEF Finish, NemotronFinish
<1> QED BY <1>2, <1>3, <1>4 DEF LayerOfRows

\* A batch a decoder takes, where rows are kept until the last reader.
BatchFits(m, start, b) ==
  /\ HasBatch(m)
  /\ m.arch = "standard" => \A l \in 1 .. Depth(m) : Bald(m.layers[l])
  /\ RingHolds(m, start, b)

\* And so in every architecture that has batches.
LEMMA BatchLayerIs ==
  ASSUME NEW m, IsModel(m), NEW l \in 1 .. Depth(m), NEW start \in Nat, NEW b \in Nat \ {0}, BatchFits(m, start, b),
         NEW s,
         NEW d, Batching(m, l, start, b, s.xs, s.cache, d)
  PROVE  OneBatchLayer(m, l, start, s) = LayerOfRows(m, l, s.xs, b, d)
<1>1. CASE m.arch = "standard"
  <2>1. Bald(m.layers[l]) /\ RingHolds(m, start, b)
    BY <1>1 DEF BatchFits
  <2>2. Standard!BatchLayer(m, l, start, s) = LayerOfRows(m, l, s.xs, b, d)
    BY <1>1, <2>1, StandardBatchLayer
  <2> QED BY <1>1, <2>2 DEF OneBatchLayer
<1>2. CASE m.arch = "qwen35"
  <2>1. Hybrid!Qwen35BatchLayer(m, l, start, s) = LayerOfRows(m, l, s.xs, b, d)
    BY <1>2, QwenBatchLayer
  <2> QED BY <1>2, <2>1 DEF OneBatchLayer
<1>3. CASE m.arch = "nemotron_h"
  <2>1. Hybrid!NemotronBatchLayer(m, l, start, s) = LayerOfRows(m, l, s.xs, b, d)
    BY <1>3, NemotronBatchLayerIs
  <2> QED BY <1>3, <2>1 DEF OneBatchLayer
<1> QED BY <1>1, <1>2, <1>3 DEF BatchFits, HasBatch

-----------------------------------------------------------------------------
(* A batch is its tokens one after the other. *)

\* Elsewhere are all other layers.
LEMMA ElsewhereIsOther ==
  ASSUME NEW m, IsModel(m), NEW l \in 1 .. Depth(m), NEW d, NEW c, SameElsewhere(m, l, d, c)
  PROVE  \A i \in 1 .. Depth(m) : i # l => SameCells(m, i, d, c)
<1> SUFFICES ASSUME NEW i \in 1 .. Depth(m), i # l PROVE SameCells(m, i, d, c)
  OBVIOUS
<1>1. /\ RowsAt(m, i) # 0 => RowsAt(m, i) \in 1 .. Depth(m) /\ RowsAt(m, i) # RowsAt(m, l)
      /\ StateAt(m, i) # 0 => StateAt(m, i) \in 1 .. Depth(m) /\ StateAt(m, i) # StateAt(m, l)
  BY LayersKeepApart DEF IsModel
<1> QED BY <1>1 DEF SameCells, SameElsewhere

\* The tokens, each through all the layers, and the layers of token t.
Stepped(m, ts, start, c, n) == After([do |-> "tokens", ts |-> ts, pos |-> start], m, [cache |-> c], n)
Column(m, ts, start, a, t) == Through(m, ts[t], start + t - 1, a[t - 1].cache)

\* Each token with the cache the one before left.
IsWalk(m, ts, start, n, a) ==
  \A t \in 1 .. n : a[t] = forward_token_into(m, ts[t], start + t - 1, a[t - 1].cache)

\* Token by token, each starts from the cache the one before left.
LEMMA WalkIs ==
  ASSUME NEW m, NEW ts, NEW start, NEW c, NEW n \in Nat
  PROVE  /\ Stepped(m, ts, start, c, n)[0] = [cache |-> c]
         /\ IsWalk(m, ts, start, n, Stepped(m, ts, start, c, n))
<1> DEFINE of == [do |-> "tokens", ts |-> ts, pos |-> start]
<1>1. of.do = "tokens" /\ of.ts = ts /\ of.pos = start
  OBVIOUS
<1> HIDE DEF of
<1>2. \A t, before : TurnOf(of, m, t, before) = forward_token_into(m, ts[t], start + t - 1, before.cache)
  BY <1>1, Zenon DEF TurnOf
<1> QED BY <1>2, AfterIs DEF Stepped, IsWalk, of

IsStepped(m, ts, start, c, n, a) ==
  /\ a[0] = [cache |-> c]
  /\ \A t \in 0 .. n : IsCache(m, a[t].cache) /\ SameRest(m, a[t].cache, c)
  /\ \A t \in 1 .. n :
       a[t] = [cache |-> Column(m, ts, start, a, t)[Depth(m)].cache,
               logits |-> LogitsOf(Column(m, ts, start, a, t)[Depth(m)].x),
               x |-> Column(m, ts, start, a, t)[Depth(m)].x]
  /\ \A t \in 1 .. n : IsColumn(m, ts[t], start + t - 1, a[t - 1].cache, Column(m, ts, start, a, t))

\* Each token is a column that starts where the one before ended.
LEMMA SteppedIs ==
  ASSUME NEW m, IsModel(m), HasBatch(m), NEW ts, NEW start \in Nat, NEW c, IsCache(m, c), NEW n \in Nat
  PROVE  IsStepped(m, ts, start, c, n, Stepped(m, ts, start, c, n))
<1> DEFINE a == Stepped(m, ts, start, c, n)
           s(t) == Column(m, ts, start, a, t)
           Good == {t \in 0 .. n : IsCache(m, a[t].cache) /\ SameRest(m, a[t].cache, c)}
<1>1. /\ a[0] = [cache |-> c]
      /\ \A t \in 1 .. n : a[t] = forward_token_into(m, ts[t], start + t - 1, a[t - 1].cache)
  BY WalkIs DEF IsWalk
<1> HIDE DEF a
<1>2. ASSUME NEW t \in 1 .. n
      PROVE  a[t] = [cache |-> s(t)[Depth(m)].cache, logits |-> LogitsOf(s(t)[Depth(m)].x), x |-> s(t)[Depth(m)].x]
  BY <1>1, ForwardIs DEF Column
<1>3. ASSUME NEW t \in 1 .. n, t - 1 \in Good
      PROVE  /\ IsColumn(m, ts[t], start + t - 1, a[t - 1].cache, s(t))
             /\ t \in Good
  <2>1. start + t - 1 \in Nat /\ IsCache(m, a[t - 1].cache) /\ SameRest(m, a[t - 1].cache, c)
    BY <1>3
  <2>2. IsColumn(m, ts[t], start + t - 1, a[t - 1].cache, s(t))
    BY <2>1, ThroughLayers DEF Column
  <2>3. a[t].cache = s(t)[Depth(m)].cache
    <3>1. a[t] = [cache |-> s(t)[Depth(m)].cache, logits |-> LogitsOf(s(t)[Depth(m)].x), x |-> s(t)[Depth(m)].x]
      BY <1>2
    <3> HIDE DEF s
    <3> QED BY <3>1
  <2> HIDE DEF s
  <2>4. Depth(m) \in 0 .. Depth(m)
    BY DEF IsModel
  <2>5. IsCache(m, a[t].cache) /\ SameRest(m, a[t].cache, a[t - 1].cache)
    BY <2>2, <2>3, <2>4 DEF IsColumn
  <2> QED BY <2>1, <2>2, <2>5, SameTransitive
<1>4. \A t \in 0 .. n : t \in Good
  <2>1. ASSUME NEW t \in 0 .. n, \A j \in 0 .. t - 1 : j \in Good
        PROVE  t \in Good
    <3>1. CASE t = 0
      <4>1. a[0].cache = c
        BY <1>1
      <4> QED BY <3>1, <4>1, SameTransitive
    <3>2. CASE t # 0
      <4>1. t \in 1 .. n /\ t - 1 \in 0 .. t - 1
        BY <3>2
      <4> HIDE DEF Good
      <4> QED BY <1>3, <2>1, <4>1
    <3> QED BY <3>1, <3>2
  <2> HIDE DEF Good
  <2> QED BY <2>1, FromBelow
<1>5. \A t \in 1 .. n : t - 1 \in Good
  <2> HIDE DEF Good
  <2> QED BY <1>4
<1>6. \A t \in 1 .. n : IsColumn(m, ts[t], start + t - 1, a[t - 1].cache, s(t))
  BY <1>3, <1>5
<1>7. \A t \in 0 .. n : IsCache(m, a[t].cache) /\ SameRest(m, a[t].cache, c)
  BY <1>4
<1> HIDE DEF Good
<1> QED BY <1>1, <1>2, <1>6, <1>7 DEF IsStepped, a

\* A layer takes a token of a batch as the layer of that token alone does.
LEMMA RowsAreColumns ==
  ASSUME NEW m, IsModel(m), NEW l \in 1 .. Depth(m), NEW ts, NEW start \in Nat, NEW c, NEW b \in Nat,
         NEW a, IsStepped(m, ts, start, c, b, a),
         NEW xs, \A t \in 1 .. b : xs[t] = Column(m, ts, start, a, t)[l - 1].x,
         NEW from, SameCells(m, l, from, c), NEW d, InTurn(m, l, start, xs, from, b, d)
  PROVE  /\ \A t \in 1 .. b : Finish(m, l, xs[t], d[t].y) = Column(m, ts, start, a, t)[l].x
         /\ SameCells(m, l, d[b].cache, a[b].cache)
<1> DEFINE s(t) == Column(m, ts, start, a, t)
           Good == {t \in 0 .. b : SameCells(m, l, d[t].cache, a[t].cache)}
<1>1. SameCells(m, l, d[0].cache, a[0].cache)
  BY DEF InTurn, IsStepped
<1>2. ASSUME NEW t \in 1 .. b, SameCells(m, l, d[t - 1].cache, a[t - 1].cache)
      PROVE  /\ SameCells(m, l, d[t].cache, a[t].cache)
             /\ Finish(m, l, xs[t], d[t].y) = s(t)[l].x
  <2> DEFINE pos == start + t - 1
             alone == Mixer(m, l, pos, s(t)[l - 1].x, s(t)[l - 1].cache)
  <2>1. /\ IsColumn(m, ts[t], pos, a[t - 1].cache, s(t))
        /\ a[t].cache = s(t)[Depth(m)].cache
    <3>1. a[t] = [cache |-> s(t)[Depth(m)].cache, logits |-> LogitsOf(s(t)[Depth(m)].x), x |-> s(t)[Depth(m)].x]
      BY DEF IsStepped
    <3>2. IsColumn(m, ts[t], pos, a[t - 1].cache, s(t))
      BY DEF IsStepped
    <3> HIDE DEF s
    <3> QED BY <3>1, <3>2
  <2>2. xs[t] = s(t)[l - 1].x
    OBVIOUS
  <2>3. t - 1 \in 0 .. b /\ pos \in Nat /\ l - 1 \in 0 .. Depth(m) /\ l \in (l - 1) + 1 .. Depth(m) /\ Depth(m) \in Nat
    BY DEF IsModel
  <2>4. IsCache(m, d[t - 1].cache) /\ d[t] = Mixer(m, l, pos, xs[t], d[t - 1].cache)
    BY <2>3 DEF InTurn
  <2> HIDE DEF s
  <2>5. /\ s(t)[l] = [x |-> Finish(m, l, s(t)[l - 1].x, alone.y), cache |-> alone.cache]
        /\ IsCache(m, s(t)[l - 1].cache)
        /\ SameCells(m, l, s(t)[l - 1].cache, a[t - 1].cache)
        /\ SameCells(m, l, s(t)[l].cache, s(t)[Depth(m)].cache)
    BY <2>1, <2>3 DEF IsColumn
  <2> HIDE DEF pos
  <2>6. SameCells(m, l, d[t - 1].cache, s(t)[l - 1].cache)
    <3>1. SameCells(m, l, a[t - 1].cache, s(t)[l - 1].cache)
      BY <2>5, SameTransitive
    <3> QED BY <1>2, <3>1 DEF SameCells, SameRows, SameState
  <2>7. d[t].y = alone.y /\ SameCells(m, l, d[t].cache, alone.cache)
    BY <2>2, <2>3, <2>4, <2>5, <2>6, MixesIsLocal
  <2> HIDE DEF alone
  <2>8. s(t)[l].cache = alone.cache /\ s(t)[l].x = Finish(m, l, xs[t], d[t].y)
    BY <2>2, <2>5, <2>7
  <2> QED BY <2>1, <2>5, <2>7, <2>8, SameTransitive
<1>3. ASSUME NEW t \in 0 .. b, \A j \in 0 .. t - 1 : j \in Good
      PROVE  t \in Good
  <2>1. CASE t = 0
    BY <1>1, <2>1
  <2>2. CASE t # 0
    <3>1. t \in 1 .. b /\ t - 1 \in 0 .. t - 1
      BY <2>2
    <3> QED BY <1>2, <1>3, <3>1
  <2> QED BY <2>1, <2>2
<1> HIDE DEF Good
<1>4. \A t \in 0 .. b : t \in Good
  BY <1>3, FromBelow
<1>5. \A t \in 0 .. b : SameCells(m, l, d[t].cache, a[t].cache)
  BY <1>4 DEF Good
<1>6. \A t \in 1 .. b : SameCells(m, l, d[t - 1].cache, a[t - 1].cache)
  BY <1>5
<1> QED BY <1>2, <1>5, <1>6

\* The batch, layer after layer.
Batch(m, ts, start, c, b) ==
  After([do |-> "batch", pos |-> start], m, [xs |-> [t \in 1 .. b |-> Standard!row_into(ts[t])], cache |-> c], Depth(m))

\* After l layers: their cells are those after the last token, the others untouched.
Advanced(m, ts, start, c, b, a, l, s) ==
  /\ s.xs = [t \in 1 .. b |-> Column(m, ts, start, a, t)[l].x]
  /\ IsCache(m, s.cache) /\ SameRest(m, s.cache, c)
  /\ \A i \in 1 .. l : SameCells(m, i, s.cache, a[b].cache)
  /\ \A i \in l + 1 .. Depth(m) : SameCells(m, i, s.cache, c)

\* A batch layer takes all columns one layer further.
LEMMA LayerAdvances ==
  ASSUME NEW m, IsModel(m), NEW l \in 1 .. Depth(m), NEW ts, NEW start \in Nat, NEW c, NEW b \in Nat \ {0},
         BatchFits(m, start, b), NEW a, IsStepped(m, ts, start, c, b, a),
         NEW s, Advanced(m, ts, start, c, b, a, l - 1, s)
  PROVE  Advanced(m, ts, start, c, b, a, l, OneBatchLayer(m, l, start, s))
<1> DEFINE xs == s.xs
           from == s.cache
           d == RowByRow(m, l, start, xs, from, b)
           after == OneBatchLayer(m, l, start, s)
<1>0. l \in (l - 1) + 1 .. Depth(m) /\ b \in 0 .. b /\ Depth(m) \in Nat /\ l \in Nat
  BY DEF IsModel
<1>1. /\ xs = [t \in 1 .. b |-> Column(m, ts, start, a, t)[l - 1].x]
      /\ IsCache(m, from) /\ SameRest(m, from, c)
      /\ \A i \in 1 .. l - 1 : SameCells(m, i, from, a[b].cache)
      /\ \A i \in (l - 1) + 1 .. Depth(m) : SameCells(m, i, from, c)
  BY DEF Advanced
<1>2. DOMAIN xs = 1 .. b /\ \A t \in 1 .. b : xs[t] = Column(m, ts, start, a, t)[l - 1].x
  BY <1>1
<1>3. InTurn(m, l, start, xs, from, b, d)
  BY <1>1, RowsInTurn
<1> HIDE DEF d
<1>4. Batching(m, l, start, b, xs, from, d)
  BY <1>1, <1>2, <1>3 DEF Batching
<1>5. after = LayerOfRows(m, l, xs, b, d)
  BY <1>4, BatchLayerIs
<1>6. after.xs = [t \in 1 .. b |-> Finish(m, l, xs[t], d[t].y)] /\ after.cache = d[b].cache
  BY <1>5 DEF LayerOfRows
<1> HIDE DEF xs, from, after
<1>7. /\ \A t \in 1 .. b : Finish(m, l, xs[t], d[t].y) = Column(m, ts, start, a, t)[l].x
      /\ SameCells(m, l, d[b].cache, a[b].cache)
  <2>1. SameCells(m, l, from, c)
    BY <1>0, <1>1
  <2>2. b \in Nat
    OBVIOUS
  <2> QED BY <1>2, <1>3, <2>1, <2>2, RowsAreColumns
<1>8. IsCache(m, d[b].cache) /\ SameElsewhere(m, l, d[b].cache, from)
  BY <1>0, <1>3 DEF InTurn
<1>9. \A i \in 1 .. Depth(m) : i # l => SameCells(m, i, d[b].cache, from)
  BY <1>8, ElsewhereIsOther
<1>10. after.xs = [t \in 1 .. b |-> Column(m, ts, start, a, t)[l].x]
  BY <1>6, <1>7
<1>11. IsCache(m, after.cache) /\ SameRest(m, after.cache, c)
  <2>1. SameRest(m, d[b].cache, from)
    BY <1>8, SameTransitive
  <2> QED BY <1>1, <1>6, <1>8, <2>1, SameTransitive
<1>12. ASSUME NEW i \in 1 .. l
       PROVE  SameCells(m, i, after.cache, a[b].cache)
  <2>1. CASE i = l
    BY <1>6, <1>7, <2>1
  <2>2. CASE i # l
    <3>1. i \in 1 .. l - 1 /\ i \in 1 .. Depth(m)
      BY <1>0, <2>2
    <3>2. SameCells(m, i, d[b].cache, from) /\ SameCells(m, i, from, a[b].cache)
      BY <1>1, <1>9, <2>2, <3>1
    <3> QED BY <1>6, <3>2, SameTransitive
  <2> QED BY <2>1, <2>2
<1>13. ASSUME NEW i \in l + 1 .. Depth(m)
       PROVE  SameCells(m, i, after.cache, c)
  <2>1. i \in (l - 1) + 1 .. Depth(m) /\ i \in 1 .. Depth(m) /\ i # l
    BY <1>0
  <2>2. SameCells(m, i, d[b].cache, from) /\ SameCells(m, i, from, c)
    BY <1>1, <1>9, <2>1
  <2> QED BY <1>6, <2>2, SameTransitive
<1> QED BY <1>10, <1>11, <1>12, <1>13 DEF Advanced, after

\* After all layers the batch has the last column's cache, and each column's row.
LEMMA BatchIs ==
  ASSUME NEW m, IsModel(m), NEW ts, NEW start \in Nat, NEW c, IsCache(m, c), NEW b \in Nat \ {0},
         BatchFits(m, start, b), NEW a, IsStepped(m, ts, start, c, b, a)
  PROVE  Batch(m, ts, start, c, b)[Depth(m)] = [xs |-> [t \in 1 .. b |-> a[t].x], cache |-> a[b].cache]
<1> DEFINE of == [do |-> "batch", pos |-> start]
           s == Batch(m, ts, start, c, b)
           from == [xs |-> [t \in 1 .. b |-> Standard!row_into(ts[t])], cache |-> c]
           Good == {l \in 0 .. Depth(m) : Advanced(m, ts, start, c, b, a, l, s[l])}
<1>0. Depth(m) \in Nat
  BY DEF IsModel
<1>1. /\ s[0] = from
      /\ \A l \in 1 .. Depth(m) : s[l] = OneBatchLayer(m, l, start, s[l - 1])
  <2>1. of.do = "batch" /\ of.pos = start
    OBVIOUS
  <2> HIDE DEF of
  <2>2. \A l, before : TurnOf(of, m, l, before) = OneBatchLayer(m, l, start, before)
    BY <2>1, Zenon DEF TurnOf
  <2> QED BY <1>0, <2>2, AfterIs DEF Batch, of
<1> HIDE DEF s
<1>2. Advanced(m, ts, start, c, b, a, 0, s[0])
  <2>1. \A t \in 1 .. b : Column(m, ts, start, a, t)[0].x = Standard!row_into(ts[t])
    <3> TAKE t \in 1 .. b
    <3>1. IsColumn(m, ts[t], start + t - 1, a[t - 1].cache, Column(m, ts, start, a, t))
      BY DEF IsStepped
    <3> QED BY <3>1 DEF IsColumn
  <2>2. s[0].xs = [t \in 1 .. b |-> Column(m, ts, start, a, t)[0].x] /\ s[0].cache = c
    BY <1>1, <2>1
  <2>3. SameRest(m, c, c) /\ \A i : SameCells(m, i, c, c)
    BY SameTransitive
  <2> QED BY <2>2, <2>3 DEF Advanced
<1>3. ASSUME NEW l \in 0 .. Depth(m), \A j \in 0 .. l - 1 : j \in Good
      PROVE  l \in Good
  <2>1. CASE l = 0
    BY <1>2, <2>1
  <2>2. CASE l # 0
    <3>1. l \in 1 .. Depth(m) /\ l - 1 \in 0 .. l - 1
      BY <2>2
    <3>2. Advanced(m, ts, start, c, b, a, l - 1, s[l - 1])
      BY <1>3, <3>1
    <3>3. Advanced(m, ts, start, c, b, a, l, OneBatchLayer(m, l, start, s[l - 1]))
      BY <3>1, <3>2, LayerAdvances
    <3> QED BY <1>1, <3>1, <3>3
  <2> QED BY <2>1, <2>2
<1> HIDE DEF Good
<1>4. Depth(m) \in Good
  BY <1>0, <1>3, FromBelow
<1> DEFINE last == s[Depth(m)]
<1>5. Advanced(m, ts, start, c, b, a, Depth(m), last)
  BY <1>4 DEF Good
<1>6. last = [xs |-> last.xs, cache |-> last.cache]
  <2>1. CASE Depth(m) = 0
    BY <1>1, <2>1
  <2>2. CASE Depth(m) # 0
    <3> DEFINE l == Depth(m)
               before == s[l - 1]
               d == RowByRow(m, l, start, before.xs, before.cache, b)
    <3>1. l \in 1 .. Depth(m) /\ l - 1 \in 0 .. Depth(m)
      BY <1>0, <2>2
    <3>2. Advanced(m, ts, start, c, b, a, l - 1, before)
      <4>1. \A i \in 0 .. Depth(m) : i \in Good
        BY <1>0, <1>3, FromBelow
      <4> QED BY <3>1, <4>1 DEF Good
    <3> HIDE DEF before
    <3>3. IsCache(m, before.cache) /\ DOMAIN before.xs = 1 .. b
      BY <3>2 DEF Advanced
    <3>4. InTurn(m, l, start, before.xs, before.cache, b, d)
      BY <3>1, <3>3, RowsInTurn
    <3> HIDE DEF d
    <3>5. OneBatchLayer(m, l, start, before) = LayerOfRows(m, l, before.xs, b, d)
      BY <3>1, <3>3, <3>4, BatchLayerIs DEF Batching
    <3>6. last = LayerOfRows(m, l, before.xs, b, d)
      BY <1>1, <3>1, <3>5 DEF before
    <3> QED BY <3>6 DEF LayerOfRows
  <2> QED BY <2>1, <2>2
<1> HIDE DEF last
<1>7. b \in 0 .. b /\ IsCache(m, a[b].cache) /\ SameRest(m, a[b].cache, c)
  BY DEF IsStepped
<1>8. last.cache = a[b].cache
  <2>1. IsCache(m, last.cache) /\ \A i \in 1 .. Depth(m) : SameCells(m, i, last.cache, a[b].cache)
    BY <1>5 DEF Advanced
  <2>2. SameRest(m, last.cache, a[b].cache)
    <3>1. SameRest(m, last.cache, c) /\ SameRest(m, c, a[b].cache)
      BY <1>5, <1>7, SameTransitive DEF Advanced
    <3> QED BY <3>1, SameTransitive
  <2> QED BY <1>7, <2>1, <2>2, CellsAreAll
<1>9. last.xs = [t \in 1 .. b |-> a[t].x]
  <2>1. \A t \in 1 .. b : a[t].x = Column(m, ts, start, a, t)[Depth(m)].x
    <3> TAKE t \in 1 .. b
    <3>1. a[t] = [cache |-> Column(m, ts, start, a, t)[Depth(m)].cache,
                  logits |-> LogitsOf(Column(m, ts, start, a, t)[Depth(m)].x),
                  x |-> Column(m, ts, start, a, t)[Depth(m)].x]
      BY DEF IsStepped
    <3> QED BY <3>1
  <2> QED BY <1>5, <2>1 DEF Advanced
<1> QED BY <1>6, <1>8, <1>9 DEF last, s

\* The batch of the standard decoder takes its rows through the layers.
LEMMA BatchOfStandard ==
  ASSUME NEW m, IsModel(m), m.arch = "standard", NEW ts, NEW start, NEW c, NEW b, DOMAIN ts = 1 .. b
  PROVE  Standard!forward_prefill_batch(m, ts, start, c) = Batch(m, ts, start, c, b)[Depth(m)]
<1> DEFINE of == [do |-> "batch", pos |-> start]
           from == [xs |-> [t \in 1 .. b |-> Standard!row_into(ts[t])], cache |-> c]
           s == Batch(m, ts, start, c, b)
           Steps(f) == [l \in 0 .. Len(m.layers) |->
                         IF l = 0 THEN [xs |-> [t \in DOMAIN ts |-> Standard!row_into(ts[t])], cache |-> c]
                         ELSE Standard!BatchLayer(m, l, start, f[l - 1])]
           all == CHOOSE f : f = Steps(f)
<1>0. Depth(m) \in Nat
  BY DEF IsModel
<1>1. \A l, before : TurnOf(of, m, l, before) = Standard!BatchLayer(m, l, start, before)
  <2>1. of.do = "batch" /\ of.pos = start
    OBVIOUS
  <2> HIDE DEF of
  <2> QED BY <2>1, Zenon DEF TurnOf, OneBatchLayer
<1>2. s = Turns(of, m, from, Depth(m), s)
  BY <1>0, AfterIs DEF Batch
<1>3. \A f : f = Turns(of, m, from, Depth(m), f) => f = s
  BY <1>0, TurnsAreAfter DEF Batch
<1> HIDE DEF s, of
<1>4. \A f : Steps(f) = Turns(of, m, from, Depth(m), f)
  BY <1>1 DEF Turns, Depth
<1>5. Standard!forward_prefill_batch(m, ts, start, c) = all[Len(m.layers)]
  BY Zenon DEF Standard!forward_prefill_batch
<1> HIDE DEF Steps, from
<1>6. all = Steps(all)
  BY <1>2, <1>4
<1> HIDE DEF all
<1>7. all = s
  BY <1>3, <1>4, <1>6
<1> QED BY <1>5, <1>7 DEF Depth, s

\* So does that of Qwen3.5.
LEMMA BatchOfQwen ==
  ASSUME NEW m, IsModel(m), m.arch = "qwen35", NEW ts, NEW start, NEW c, NEW b, DOMAIN ts = 1 .. b
  PROVE  Hybrid!forward_prefill_batch_qwen35(m, ts, start, c) = Batch(m, ts, start, c, b)[Depth(m)]
<1> DEFINE of == [do |-> "batch", pos |-> start]
           from == [xs |-> [t \in 1 .. b |-> Standard!row_into(ts[t])], cache |-> c]
           s == Batch(m, ts, start, c, b)
           Steps(f) == [l \in 0 .. Len(m.layers) |->
                         IF l = 0 THEN [xs |-> [t \in DOMAIN ts |-> Hybrid!row_into(ts[t])], cache |-> c]
                         ELSE Hybrid!Qwen35BatchLayer(m, l, start, f[l - 1])]
           all == CHOOSE f : f = Steps(f)
<1>0. Depth(m) \in Nat
  BY DEF IsModel
<1>1. \A l, before : TurnOf(of, m, l, before) = Hybrid!Qwen35BatchLayer(m, l, start, before)
  <2>1. of.do = "batch" /\ of.pos = start /\ m.arch # "standard"
    OBVIOUS
  <2> HIDE DEF of
  <2> QED BY <2>1, Zenon DEF TurnOf, OneBatchLayer
<1>2. s = Turns(of, m, from, Depth(m), s)
  BY <1>0, AfterIs DEF Batch
<1>3. \A f : f = Turns(of, m, from, Depth(m), f) => f = s
  BY <1>0, TurnsAreAfter DEF Batch
<1> HIDE DEF s, of
<1>4. \A f : Steps(f) = Turns(of, m, from, Depth(m), f)
  BY <1>1, RowIs DEF Turns, Depth
<1>5. Hybrid!forward_prefill_batch_qwen35(m, ts, start, c) = all[Len(m.layers)]
  BY Zenon DEF Hybrid!forward_prefill_batch_qwen35
<1> HIDE DEF Steps, from
<1>6. all = Steps(all)
  BY <1>2, <1>4
<1> HIDE DEF all
<1>7. all = s
  BY <1>3, <1>4, <1>6
<1> QED BY <1>5, <1>7 DEF Depth, s

\* So does that of Nemotron-H.
LEMMA BatchOfNemotron ==
  ASSUME NEW m, IsModel(m), m.arch = "nemotron_h", NEW ts, NEW start, NEW c, NEW b, DOMAIN ts = 1 .. b
  PROVE  Hybrid!forward_verify_batch_nemotron_h(m, ts, start, c)
           = Hybrid!finish_verify_batch(Batch(m, ts, start, c, b)[Depth(m)])
<1> DEFINE of == [do |-> "batch", pos |-> start]
           from == [xs |-> [t \in 1 .. b |-> Standard!row_into(ts[t])], cache |-> c]
           s == Batch(m, ts, start, c, b)
           Steps(f) == [l \in 0 .. Len(m.layers) |->
                         IF l = 0 THEN [xs |-> [t \in DOMAIN ts |-> Hybrid!row_into(ts[t])], cache |-> c]
                         ELSE Hybrid!NemotronBatchLayer(m, l, start, f[l - 1])]
           all == CHOOSE f : f = Steps(f)
<1>0. Depth(m) \in Nat
  BY DEF IsModel
<1>1. \A l, before : TurnOf(of, m, l, before) = Hybrid!NemotronBatchLayer(m, l, start, before)
  <2>1. of.do = "batch" /\ of.pos = start /\ m.arch # "standard" /\ m.arch # "qwen35"
    OBVIOUS
  <2> HIDE DEF of
  <2> QED BY <2>1, Zenon DEF TurnOf, OneBatchLayer
<1>2. s = Turns(of, m, from, Depth(m), s)
  BY <1>0, AfterIs DEF Batch
<1>3. \A f : f = Turns(of, m, from, Depth(m), f) => f = s
  BY <1>0, TurnsAreAfter DEF Batch
<1> HIDE DEF s, of
<1>4. \A f : Steps(f) = Turns(of, m, from, Depth(m), f)
  BY <1>1, RowIs DEF Turns, Depth
<1>5. Hybrid!forward_verify_batch_nemotron_h(m, ts, start, c) = Hybrid!finish_verify_batch(all[Len(m.layers)])
  BY Zenon DEF Hybrid!forward_verify_batch_nemotron_h
<1> HIDE DEF Steps, from
<1>6. all = Steps(all)
  BY <1>2, <1>4
<1> HIDE DEF all
<1>7. all = s
  BY <1>3, <1>4, <1>6
<1> QED BY <1>5, <1>7 DEF Depth, s

\* A verified batch has the rows, the logits and the cache of its tokens.
LEMMA VerifiedIs ==
  ASSUME NEW m, IsModel(m), NEW ts, NEW start \in Nat, NEW c, IsCache(m, c), NEW b \in Nat \ {0}, DOMAIN ts = 1 .. b,
         BatchFits(m, start, b), NEW a, IsStepped(m, ts, start, c, b, a)
  PROVE  /\ forward_verify_draft_batch(m, ts, start, c).cache = a[b].cache
         /\ \A t \in 1 .. b : /\ forward_verify_draft_batch(m, ts, start, c).logits[t] = a[t].logits
                              /\ forward_verify_draft_batch(m, ts, start, c).hidden[t] = a[t].x
<1> DEFINE xs == [t \in 1 .. b |-> a[t].x]
           last == [xs |-> xs, cache |-> a[b].cache]
           v == forward_verify_draft_batch(m, ts, start, c)
<1>1. Batch(m, ts, start, c, b)[Depth(m)] = last
  BY BatchIs
<1>2. \A t \in 1 .. b : a[t].logits = LogitsOf(a[t].x)
  <2> TAKE t \in 1 .. b
  <2>1. a[t] = [cache |-> Column(m, ts, start, a, t)[Depth(m)].cache,
                logits |-> LogitsOf(Column(m, ts, start, a, t)[Depth(m)].x),
                x |-> Column(m, ts, start, a, t)[Depth(m)].x]
    BY DEF IsStepped
  <2> QED BY <2>1
<1> DEFINE finished == [cache |-> a[b].cache, hidden |-> xs, logits |-> [t \in 1 .. b |-> LogitsOf(xs[t])]]
<1>3. Standard!finish_verify_batch(last) = finished
  BY DEF Standard!finish_verify_batch, LogitsOf
<1>4. Hybrid!finish_verify_batch(last) = finished
  BY LogitsAre DEF Hybrid!finish_verify_batch
<1> HIDE DEF last
<1>5. v = finished
  <2>1. CASE m.arch = "standard"
    BY <1>1, <1>3, <2>1, BatchOfStandard DEF forward_verify_draft_batch, Standard!forward_verify_batch
  <2>2. CASE m.arch = "qwen35"
    BY <1>1, <1>4, <2>2, BatchOfQwen DEF forward_verify_draft_batch, Hybrid!forward_verify_batch_qwen35
  <2>3. CASE m.arch = "nemotron_h"
    BY <1>1, <1>4, <2>3, BatchOfNemotron DEF forward_verify_draft_batch
  <2> QED BY <2>1, <2>2, <2>3 DEF BatchFits, HasBatch
<1> HIDE DEF v
<1>6. v.cache = a[b].cache /\ \A t \in 1 .. b : v.logits[t] = a[t].logits /\ v.hidden[t] = a[t].x
  BY <1>2, <1>5
<1> QED BY <1>6 DEF v

-----------------------------------------------------------------------------
(* A prompt in chunks is its tokens one after the other. *)

\* A prefill step leaves the cache a step with logits leaves.
LEMMA PrefillTokenIs ==
  ASSUME NEW m, m.arch \in Architectures, NEW token, NEW pos, NEW c
  PROVE  forward_prefill_token(m, token, pos, c) = forward_token_into(m, token, pos, c).cache
<1>1. CASE m.arch = "standard"
  <2>1. Standard!forward_prefill(m, token, pos, c).cache = Standard!forward_into(m, token, pos, c).cache
    BY DEF Standard!forward_prefill, Standard!forward_hidden_impl, Standard!forward_into
  <2> QED BY <1>1, <2>1 DEF forward_prefill_token, forward_token_into
<1>2. CASE m.arch = "qwen35"
  BY <1>2 DEF forward_prefill_token, forward_token_into
<1>3. CASE m.arch = "nemotron_h"
  BY <1>3 DEF forward_prefill_token, forward_token_into
<1>4. CASE m.arch = "gpt-oss"
  <2>1. Windowed!forward_hidden_gpt_oss_impl(m, token, pos, c, FALSE).cache
          = Windowed!forward_gpt_oss_into(m, token, pos, c).cache
    BY Zenon DEF Windowed!forward_hidden_gpt_oss_impl, Windowed!forward_gpt_oss_into
  <2> QED BY <1>4, <2>1 DEF forward_prefill_token, forward_token_into
<1>5. CASE m.arch = "laguna"
  BY <1>5 DEF forward_prefill_token, forward_token_into
<1>6. CASE m.arch = "gemma4"
  <2>1. Windowed!forward_hidden_gemma4_impl(m, token, pos, c, FALSE).cache
          = Windowed!forward_gemma4_into(m, token, pos, c).cache
    BY DEF Windowed!forward_hidden_gemma4_impl, Windowed!forward_gemma4_into
  <2> QED BY <1>6, <2>1 DEF forward_prefill_token, forward_token_into
<1> QED BY <1>1, <1>2, <1>3, <1>4, <1>5, <1>6 DEF Architectures

\* Gemma 4 caps its logits.
LEMMA HiddenIs ==
  ASSUME NEW m, m.arch \in Architectures, m.arch # "gemma4", NEW token, NEW pos, NEW c
  PROVE  Standard!Apply("output", 0, forward_hidden_token(m, token, pos, c))
           = forward_token_into(m, token, pos, c).logits
<1>0. \A name, x : Hybrid!Apply(name, 0, x) = Standard!Apply(name, 0, x)
                   /\ Windowed!Apply(name, 0, x) = Standard!Apply(name, 0, x)
  BY DEF Hybrid!Apply, Windowed!Apply, Standard!Apply, Hybrid!T, Windowed!T, Standard!T
<1>1. CASE m.arch = "standard"
  <2>1. Standard!Apply("output", 0, Standard!forward_hidden(m, token, pos, c).hidden)
          = Standard!forward_into(m, token, pos, c).logits
    BY DEF Standard!forward_hidden, Standard!forward_hidden_impl, Standard!forward_into, Standard!ApplyIf
  <2> QED BY <1>1, <2>1 DEF forward_hidden_token, forward_token_into
<1>2. CASE m.arch = "qwen35"
  <2> DEFINE step == Hybrid!forward_qwen35_impl(m, token, pos, c)
  <2>1. step.logits = Hybrid!Apply("output", 0, Hybrid!Apply("output_norm", 0, step.x))
    BY DEF Hybrid!forward_qwen35_impl
  <2> HIDE DEF step
  <2>2. forward_hidden_token(m, token, pos, c) = Standard!Apply("output_norm", 0, step.x)
        /\ forward_token_into(m, token, pos, c) = step
    BY <1>2 DEF forward_hidden_token, forward_token_into, step
  <2> QED BY <1>0, <2>1, <2>2
<1>3. CASE m.arch = "nemotron_h"
  <2> DEFINE step == Hybrid!forward_nemotron_h_impl(m, token, pos, c)
  <2>1. step.logits = Hybrid!Apply("output", 0, Hybrid!Apply("output_norm", 0, step.x))
    BY DEF Hybrid!forward_nemotron_h_impl
  <2> HIDE DEF step
  <2>2. forward_hidden_token(m, token, pos, c) = Standard!Apply("output_norm", 0, step.x)
        /\ forward_token_into(m, token, pos, c) = step
    BY <1>3 DEF forward_hidden_token, forward_token_into, step
  <2> QED BY <1>0, <2>1, <2>2
<1>4. CASE m.arch = "gpt-oss"
  <2>1. Windowed!Apply("output", 0, Windowed!forward_hidden_gpt_oss_impl(m, token, pos, c, TRUE).hidden)
          = Windowed!forward_gpt_oss_into(m, token, pos, c).logits
    BY Zenon DEF Windowed!forward_hidden_gpt_oss_impl, Windowed!forward_gpt_oss_into, Windowed!ApplyIf
  <2> QED BY <1>0, <1>4, <2>1 DEF forward_hidden_token, forward_token_into
<1>5. CASE m.arch = "laguna"
  <2> DEFINE step == Windowed!forward_laguna_impl(m, token, pos, c)
  <2>1. step.logits = Windowed!Apply("output", 0, step.hidden)
    BY Zenon DEF Windowed!forward_laguna_impl
  <2> HIDE DEF step
  <2>2. forward_hidden_token(m, token, pos, c) = step.hidden /\ forward_token_into(m, token, pos, c) = step
    BY <1>5 DEF forward_hidden_token, forward_token_into, step
  <2> QED BY <1>0, <2>1, <2>2
<1> QED BY <1>1, <1>2, <1>3, <1>4, <1>5 DEF Architectures

\* The reference is token by token.
LEMMA DecodedIs ==
  ASSUME NEW m, NEW ts, NEW start, NEW c, Len(ts) \in Nat
  PROVE  Decoded(m, ts, start, c) = Stepped(m, ts, start, c, Len(ts))
<1> DEFINE of == [do |-> "tokens", ts |-> ts, pos |-> start]
           Steps(f) == [i \in 0 .. Len(ts) |->
                         IF i = 0 THEN [cache |-> c] ELSE forward_token_into(m, ts[i], start + i - 1, f[i - 1].cache)]
           all == CHOOSE f : f = Steps(f)
           a == Stepped(m, ts, start, c, Len(ts))
<1>1. \A t, before : TurnOf(of, m, t, before) = forward_token_into(m, ts[t], start + t - 1, before.cache)
  <2>1. of.do = "tokens" /\ of.ts = ts /\ of.pos = start
    OBVIOUS
  <2> HIDE DEF of
  <2> QED BY <2>1, Zenon DEF TurnOf
<1>2. a = Turns(of, m, [cache |-> c], Len(ts), a)
  BY AfterIs DEF Stepped
<1>3. \A f : f = Turns(of, m, [cache |-> c], Len(ts), f) => f = a
  BY TurnsAreAfter DEF Stepped
<1> HIDE DEF a, of
<1>4. \A f : Steps(f) = Turns(of, m, [cache |-> c], Len(ts), f)
  BY <1>1, Zenon DEF Turns
<1>5. Decoded(m, ts, start, c) = all
  BY Zenon DEF Decoded
<1> HIDE DEF Steps
<1>6. all = Steps(all)
  BY <1>2, <1>4
<1> HIDE DEF all
<1> QED BY <1>3, <1>4, <1>5, <1>6 DEF a

\* A chunk is k tokens of a prompt after the first e.
IsChunk(chunk, ts, e, k) == Len(chunk) = k /\ DOMAIN chunk = 1 .. k /\ \A i \in 1 .. k : chunk[i] = ts[e + i]

\* A chunk token by token is a part of the walk,
LEMMA EachIs ==
  ASSUME NEW m, m.arch \in Architectures, NEW ts, NEW start \in Nat, NEW n \in Nat,
         NEW a, IsWalk(m, ts, start, n, a), NEW e \in 0 .. n, NEW k \in 0 .. n - e,
         NEW chunk, IsChunk(chunk, ts, e, k)
  PROVE  PrefillEach(m, chunk, start + e, a[e].cache) = a[e + k].cache
<1> DEFINE of == [do |-> "prefill", ts |-> chunk, pos |-> start + e]
           from == a[e].cache
           w == [i \in 0 .. k |-> a[e + i].cache]
           Steps(f) == [i \in 0 .. Len(chunk) |->
                         IF i = 0 THEN from
                         ELSE forward_prefill_token(m, chunk[i], (start + e) + i - 1, f[i - 1])]
           all == CHOOSE f : f = Steps(f)
<1>0. k \in Nat /\ e \in Nat /\ Len(chunk) = k
  BY DEF IsChunk
<1>1. \A t, before : TurnOf(of, m, t, before) = forward_prefill_token(m, chunk[t], (start + e) + t - 1, before)
  <2>1. of.do = "prefill" /\ of.ts = chunk /\ of.pos = start + e
    OBVIOUS
  <2> HIDE DEF of
  <2> QED BY <2>1, Zenon DEF TurnOf
<1>2. PrefillEach(m, chunk, start + e, from) = all[k]
  BY <1>0, Zenon DEF PrefillEach
<1> HIDE DEF of
<1>3. \A f : Steps(f) = Turns(of, m, from, k, f)
  BY <1>0, <1>1, Zenon DEF Turns
<1>4. w = Steps(w)
  <2>1. ASSUME NEW i \in 1 .. k
        PROVE  w[i] = forward_prefill_token(m, chunk[i], (start + e) + i - 1, w[i - 1])
    <3>1. e + i \in 1 .. n /\ (e + i) - 1 = e + (i - 1) /\ start + (e + i) - 1 = (start + e) + i - 1
      BY <1>0
    <3>2. a[e + i] = forward_token_into(m, ts[e + i], start + (e + i) - 1, a[(e + i) - 1].cache)
      BY <3>1 DEF IsWalk
    <3>3. w[i] = a[e + i].cache /\ w[i - 1] = a[e + (i - 1)].cache /\ chunk[i] = ts[e + i]
      BY <1>0 DEF IsChunk
    <3> HIDE DEF w
    <3> QED BY <3>1, <3>2, <3>3, PrefillTokenIs
  <2>2. w[0] = from
    BY <1>0
  <2>3. w = [i \in 0 .. k |-> w[i]]
    OBVIOUS
  <2>4. \A i \in 0 .. k : i # 0 => i \in 1 .. k
    OBVIOUS
  <2> HIDE DEF w, from
  <2> QED BY <1>0, <2>1, <2>2, <2>3, <2>4
<1>5. w[k] = a[e + k].cache
  BY <1>0
<1> HIDE DEF w, Steps, from
<1>6. all = Steps(all)
  BY <1>4
<1> HIDE DEF all
<1>7. all = After(of, m, from, k) /\ w = After(of, m, from, k)
  BY <1>0, <1>3, <1>4, <1>6, TurnsAreAfter
<1> QED BY <1>2, <1>5, <1>7 DEF from

\* and so is a chunk in one batch.
LEMMA BatchChunkIs ==
  ASSUME NEW m, IsModel(m), m.arch \in {"standard", "qwen35"}, NEW ts, NEW start \in Nat, NEW n \in Nat,
         NEW a, IsWalk(m, ts, start, n, a), NEW e \in 0 .. n, NEW k \in 0 .. n - e, k # 0,
         IsCache(m, a[e].cache), BatchFits(m, start + e, k),
         NEW chunk, IsChunk(chunk, ts, e, k)
  PROVE  forward_prefill_batch(m, chunk, start + e, a[e].cache) = a[e + k].cache
<1> DEFINE from == a[e].cache
           o == Stepped(m, chunk, start + e, from, k)
           Good == {i \in 0 .. k : o[i].cache = a[e + i].cache}
<1>0. k \in Nat /\ k \in Nat \ {0} /\ e \in Nat /\ start + e \in Nat /\ HasBatch(m)
  BY DEF HasBatch
<1>1. IsStepped(m, chunk, start + e, from, k, o)
  BY <1>0, SteppedIs
<1>2. o[0] = [cache |-> from] /\ IsWalk(m, chunk, start + e, k, o)
  BY <1>0, WalkIs
<1> HIDE DEF o
<1>3. ASSUME NEW i \in 0 .. k, \A j \in 0 .. i - 1 : j \in Good
      PROVE  i \in Good
  <2>1. CASE i = 0
    BY <1>0, <1>2, <2>1
  <2>2. CASE i # 0
    <3>1. i \in 1 .. k /\ i - 1 \in 0 .. i - 1
      BY <2>2
    <3>2. e + i \in 1 .. n /\ (e + i) - 1 = e + (i - 1) /\ start + (e + i) - 1 = (start + e) + i - 1
      BY <1>0, <3>1
    <3>3. a[e + i] = forward_token_into(m, ts[e + i], start + (e + i) - 1, a[(e + i) - 1].cache)
      BY <3>2 DEF IsWalk
    <3>4. o[i] = forward_token_into(m, chunk[i], (start + e) + i - 1, o[i - 1].cache) /\ chunk[i] = ts[e + i]
      BY <1>2, <3>1 DEF IsWalk, IsChunk
    <3>5. o[i - 1].cache = a[e + (i - 1)].cache
      BY <1>3, <3>1
    <3> QED BY <3>2, <3>3, <3>4, <3>5
  <2> QED BY <2>1, <2>2
<1> HIDE DEF Good
<1>4. k \in Good
  BY <1>0, <1>3, FromBelow
<1>5. o[k].cache = a[e + k].cache
  BY <1>4 DEF Good
<1>6. Batch(m, chunk, start + e, from, k)[Depth(m)] = [xs |-> [t \in 1 .. k |-> o[t].x], cache |-> o[k].cache]
  BY <1>0, <1>1, BatchIs
<1>7. DOMAIN chunk = 1 .. k
  BY DEF IsChunk
<1> HIDE DEF from
<1>8. CASE m.arch = "standard"
  <2>1. Standard!forward_prefill_batch(m, chunk, start + e, from) = Batch(m, chunk, start + e, from, k)[Depth(m)]
    BY <1>7, <1>8, BatchOfStandard
  <2> QED BY <1>5, <1>6, <1>8, <2>1 DEF forward_prefill_batch, from
<1>9. CASE m.arch = "qwen35"
  <2>1. Hybrid!forward_prefill_batch_qwen35(m, chunk, start + e, from) = Batch(m, chunk, start + e, from, k)[Depth(m)]
    BY <1>7, <1>9, BatchOfQwen
  <2> QED BY <1>5, <1>6, <1>9, <2>1 DEF forward_prefill_batch, from
<1> QED BY <1>8, <1>9

\* The chunks follow one another and end before the last token.
LEMMA ChunksFollow ==
  ASSUME NEW S, NEW ts \in Seq(S), ts # <<>>, NEW u \in Nat \ {0}
  PROVE  /\ Chunks(ts, u) \in Nat
         /\ ChunkEnd(ts, u, 0) = 0 /\ ChunkEnd(ts, u, Chunks(ts, u)) = Len(ts) - 1
         /\ \A c \in 0 .. Chunks(ts, u) : ChunkEnd(ts, u, c) \in 0 .. Len(ts) - 1
         /\ \A c \in 1 .. Chunks(ts, u) :
              /\ ChunkEnd(ts, u, c - 1) <= ChunkEnd(ts, u, c)
              /\ IsChunk(Chunk(ts, u, c), ts, ChunkEnd(ts, u, c - 1), ChunkEnd(ts, u, c) - ChunkEnd(ts, u, c - 1))
<1> DEFINE n == Len(ts)
           a == n - 1 + u - 1
           q == a \div u
           end(c) == ChunkEnd(ts, u, c)
<1>1. n \in Nat \ {0} /\ u \in Nat /\ u >= 1 /\ a \in Nat
  BY EmptySeq, LenProperties
<1>2. q \in Nat /\ q * u >= n - 1 /\ Chunks(ts, u) = q
  <2>1. q \in Nat /\ a % u \in 0 .. u - 1 /\ a = q * u + (a % u)
    <3> HIDE DEF a
    <3> QED BY <1>1, Divided
  <2>2. q * u \in Nat
    BY <1>1, <2>1, NextProduct
  <2> DEFINE r == a % u
             p == q * u
  <2>3. Chunks(ts, u) = q
    BY DEF Chunks
  <2>4. r \in 0 .. u - 1 /\ a = p + r /\ p \in Nat
    BY <2>1, <2>2
  <2> HIDE DEF r, p, q
  <2>5. p >= n - 1
    BY <1>1, <2>4
  <2>6. q \in Nat /\ q * u >= n - 1
    BY <2>1, <2>5 DEF p
  <2> QED BY <2>3, <2>6
<1> HIDE DEF q
<1>3. \A c \in Nat : c * u \in Nat /\ end(c) = IF c * u < n - 1 THEN c * u ELSE n - 1
  BY <1>1, NextProduct DEF ChunkEnd
<1>4. 0 * u = 0
  BY <1>1
<1> HIDE DEF a, n
<1>5. end(0) = 0 /\ end(q) = n - 1
  <2>1. ~(q * u < n - 1)
    <3>1. q * u \in Nat
      BY <1>2, <1>3
    <3> QED BY <1>1, <1>2, <3>1
  <2>2. end(0) = 0
    BY <1>1, <1>3, <1>4
  <2> QED BY <1>2, <1>3, <2>1, <2>2
<1>6. ASSUME NEW c \in Nat
      PROVE  end(c) \in 0 .. n - 1
  <2>1. c * u \in Nat /\ end(c) = IF c * u < n - 1 THEN c * u ELSE n - 1
    BY <1>3
  <2> DEFINE p == c * u
  <2>2. p \in Nat /\ end(c) = IF p < n - 1 THEN p ELSE n - 1
    BY <2>1
  <2> HIDE DEF p, end
  <2> QED BY <1>1, <2>2
<1>7. ASSUME NEW c \in 1 .. q
      PROVE  end(c - 1) <= end(c)
  <2> DEFINE p == c * u
             b == (c - 1) * u
  <2>1. c - 1 \in Nat /\ c \in Nat /\ c - 1 <= c
    BY <1>2
  <2>2. /\ p \in Nat /\ end(c) = IF p < n - 1 THEN p ELSE n - 1
        /\ b \in Nat /\ end(c - 1) = IF b < n - 1 THEN b ELSE n - 1
        /\ b <= p
    BY <1>1, <1>3, <2>1, ProductGrows
  <2> HIDE DEF p, b, end
  <2> QED BY <1>1, <2>2
<1>8. ASSUME NEW c \in 1 .. q
      PROVE  IsChunk(Chunk(ts, u, c), ts, end(c - 1), end(c) - end(c - 1))
  <2> DEFINE e == end(c - 1)
             f == end(c)
             k == f - e
  <2>1. c - 1 \in Nat /\ c \in Nat
    BY <1>2
  <2>2. e \in 0 .. n - 1 /\ f \in 0 .. n - 1 /\ e <= f
    BY <1>6, <1>7, <2>1
  <2>3. Chunk(ts, u, c) = SubSeq(ts, e + 1, f)
    BY DEF Chunk
  <2> HIDE DEF e, f, end
  <2>4. /\ SubSeq(ts, e + 1, f) \in Seq(S)
        /\ Len(SubSeq(ts, e + 1, f)) = IF e + 1 <= f THEN f - (e + 1) + 1 ELSE 0
        /\ \A i \in 1 .. f - (e + 1) + 1 : SubSeq(ts, e + 1, f)[i] = ts[(e + 1) + i - 1]
    <3>1. e + 1 \in Int /\ f \in Int
      BY <1>1, <2>2
    <3>2. \A i \in e + 1 .. f : ts[i] \in S
      BY <1>1, <2>2, ElementOfSeq DEF n
    <3> HIDE DEF n
    <3> QED BY <3>1, <3>2, SubSeqProperties
  <2> DEFINE s == SubSeq(ts, e + 1, f)
  <2>5. Len(s) = k /\ k \in Nat /\ f - (e + 1) + 1 = k
    BY <1>1, <2>2, <2>4
  <2>6. DOMAIN s = 1 .. k
    BY <2>4, <2>5, LenProperties
  <2>7. \A i \in 1 .. k : s[i] = ts[e + i]
    <3> TAKE i \in 1 .. k
    <3>1. (e + 1) + i - 1 = e + i
      BY <1>1, <2>2
    <3> QED BY <2>4, <2>5, <3>1
  <2> HIDE DEF s, k
  <2>8. IsChunk(s, ts, e, k)
    BY <2>5, <2>6, <2>7 DEF IsChunk
  <2> QED BY <2>3, <2>8 DEF s, e, f, k
<1>9. \A c \in 0 .. q : end(c) \in 0 .. n - 1
  <2> TAKE c \in 0 .. q
  <2>1. c \in Nat
    BY <1>2
  <2> QED BY <1>6, <2>1, Zenon
<1> QED BY <1>2, <1>5, <1>7, <1>8, <1>9 DEF n

\* Nothing a chunk's batch reads is overwritten in it.
ChunksFit(m, ts, start, u) == ~(Batchable(m) /\ ChunkWraps(m, ts, start, u))

\* A chunk that is let into a batch and stays in the ring fits.
LEMMA BatchableFits ==
  ASSUME NEW m, IsModel(m), NEW start \in Nat, NEW b \in Nat \ {0}, Batchable(m), ~Wraps(m, start, b)
  PROVE  BatchFits(m, start, b) /\ m.arch \in {"standard", "qwen35"}
<1>1. m.arch \in {"standard", "qwen35"}
  BY DEF Batchable
<1>2. RingHolds(m, start, b)
  BY DEF RingHolds, Wraps, IsModel
<1>3. m.arch = "standard" => \A l \in 1 .. Depth(m) : Bald(m.layers[l])
  BY DEF Batchable, Bald, Standard!standard_prefill_batchable, Standard!Layers, IsModel
<1> QED BY <1>1, <1>2, <1>3 DEF BatchFits, HasBatch

\* A prompt in chunks ends as its tokens do one by one.
LEMMA PromptIs ==
  ASSUME NEW m, m.arch \in Architectures, HasBatch(m) => IsModel(m), NEW S, NEW ts \in Seq(S), ts # <<>>,
         NEW start \in Nat, NEW c, HasBatch(m) => IsCache(m, c), NEW u \in Nat \ {0},
         ChunksFit(m, ts, start, u)
  PROVE  prefill_prompt_tokens(m, ts, start, u, c) = Stepped(m, ts, start, c, Len(ts))[Len(ts)]
<1> DEFINE n == Len(ts)
           a == Stepped(m, ts, start, c, n)
           of == [do |-> "chunks", ts |-> ts, ubatch |-> u, pos |-> start]
           batched == n > 2 /\ Batchable(m)
           end(k) == ChunkEnd(ts, u, k)
           q == Chunks(ts, u)
           Steps(f) == [k \in 0 .. q |->
                         IF k = 0 THEN c
                         ELSE PrefillChunk(m, batched, Chunk(ts, u, k), start + end(k - 1), f[k - 1])]
           all == CHOOSE f : f = Steps(f)
           w == [k \in 0 .. q |-> a[end(k)].cache]
<1>0. n \in Nat \ {0} /\ n \in Nat /\ n \in 1 .. n
  BY EmptySeq, LenProperties
<1>1. /\ q \in Nat /\ end(0) = 0 /\ end(q) = n - 1
      /\ \A k \in 0 .. q : end(k) \in 0 .. n - 1
      /\ \A k \in 1 .. q : end(k - 1) <= end(k) /\ IsChunk(Chunk(ts, u, k), ts, end(k - 1), end(k) - end(k - 1))
  BY ChunksFollow
<1>2. a[0] = [cache |-> c] /\ IsWalk(m, ts, start, n, a)
  BY <1>0, WalkIs
<1>3. HasBatch(m) => \A i \in 0 .. n : IsCache(m, a[i].cache)
  <2>1. HasBatch(m) => IsStepped(m, ts, start, c, n, a)
    BY <1>0, SteppedIs
  <2> HIDE DEF a, n
  <2> QED BY <2>1 DEF IsStepped
<1>4. prefill_prompt_tokens(m, ts, start, u, c) = forward_token_into(m, ts[n], start + n - 1, all[q])
  BY Zenon DEF prefill_prompt_tokens
<1> HIDE DEF a, n, end, q
<1>5. ASSUME NEW k \in 1 .. q
      PROVE  w[k] = PrefillChunk(m, batched, Chunk(ts, u, k), start + end(k - 1), w[k - 1])
  <2> DEFINE e == end(k - 1)
             b == end(k) - e
             chunk == Chunk(ts, u, k)
  <2>1. k - 1 \in 0 .. q /\ k \in 0 .. q /\ q \in Nat
    BY <1>1
  <2>2. w[k] = a[end(k)].cache /\ w[k - 1] = a[e].cache
    BY <2>1
  <2>3. e \in 0 .. n - 1 /\ end(k) \in 0 .. n - 1 /\ e <= end(k) /\ IsChunk(chunk, ts, e, b)
    BY <1>1, <2>1
  <2> HIDE DEF e
  <2>4. e \in 0 .. n /\ b \in 0 .. n - e /\ b \in Nat /\ e + b = end(k) /\ start + e \in Nat
    BY <1>0, <2>3
  <2> HIDE DEF b, chunk, w, batched
  <2>5. CASE ~(batched /\ Len(chunk) > 1)
    <3>1. PrefillEach(m, chunk, start + e, a[e].cache) = a[e + b].cache
      BY <1>0, <1>2, <2>3, <2>4, EachIs
    <3>2. PrefillChunk(m, batched, chunk, start + e, a[e].cache) = PrefillEach(m, chunk, start + e, a[e].cache)
      BY <2>5 DEF PrefillChunk
    <3> QED BY <2>2, <2>4, <3>1, <3>2 DEF e, chunk
  <2>6. CASE batched /\ Len(chunk) > 1
    <3>1. Batchable(m) /\ b \in Nat \ {0} /\ b # 0
      BY <2>3, <2>4, <2>6 DEF batched, IsChunk
    <3>2. ~Wraps(m, start + e, b)
      <4>1. Len(chunk) = b
        BY <2>3 DEF IsChunk
      <4> QED BY <3>1, <4>1 DEF ChunksFit, ChunkWraps, chunk, e, end, q
    <3>3. m.arch \in {"standard", "qwen35"}
      BY <3>1 DEF Batchable
    <3>4. HasBatch(m) /\ IsModel(m)
      BY <3>3 DEF HasBatch
    <3>5. BatchFits(m, start + e, b)
      BY <2>4, <3>1, <3>2, <3>4, BatchableFits
    <3>6. IsCache(m, a[e].cache)
      BY <1>3, <2>4, <3>4
    <3>7. forward_prefill_batch(m, chunk, start + e, a[e].cache) = a[e + b].cache
      BY <1>0, <1>2, <2>3, <2>4, <3>1, <3>3, <3>4, <3>5, <3>6, BatchChunkIs
    <3>8. PrefillChunk(m, batched, chunk, start + e, a[e].cache) = forward_prefill_batch(m, chunk, start + e, a[e].cache)
      BY <2>6 DEF PrefillChunk
    <3> QED BY <2>2, <2>4, <3>7, <3>8 DEF e, chunk
  <2> QED BY <2>5, <2>6
<1>6. w[0] = c /\ w[q] = a[n - 1].cache
  <2>1. 0 \in 0 .. q /\ q \in 0 .. q
    BY <1>1
  <2> QED BY <1>1, <1>2, <2>1
<1>7. all = w
  <2> DEFINE turn(f, k) == IF k = 0 THEN c ELSE PrefillChunk(m, batched, Chunk(ts, u, k), start + end(k - 1), f[k - 1])
  <2>1. w = Steps(w)
    <3>1. w = [k \in 0 .. q |-> w[k]]
      OBVIOUS
    <3>2. \A k \in 0 .. q : k # 0 => k \in 1 .. q
      BY <1>1
    <3> HIDE DEF w
    <3> QED BY <1>5, <1>6, <3>1, <3>2
  <2>2. \A f : Steps(f) = [k \in 0 .. q |-> turn(f, k)]
    OBVIOUS
  <2> HIDE DEF w, turn, Steps
  <2>3. all = Steps(all)
    BY <2>1
  <2> HIDE DEF all
  <2>4. /\ From0(all, q) /\ \A k \in 0 .. q : all[k] = turn(all, k)
        /\ From0(w, q) /\ \A k \in 0 .. q : w[k] = turn(w, k)
    BY <2>1, <2>2, <2>3 DEF From0
  <2>5. all[0] = w[0]
    <3>1. turn(all, 0) = turn(w, 0) /\ 0 \in 0 .. q
      BY <1>1 DEF turn
    <3> QED BY <2>4, <3>1
  <2>6. Follows(all, w, q)
    <3> SUFFICES ASSUME NEW k \in 1 .. q, all[k - 1] = w[k - 1] PROVE all[k] = w[k]
      BY DEF Follows
    <3>1. turn(all, k) = turn(w, k) /\ k \in 0 .. q
      BY <1>1 DEF turn
    <3> QED BY <2>4, <3>1
  <2> QED BY <1>1, <2>4, <2>5, <2>6, SameFromStart
<1> HIDE DEF all, w
<1>8. a[n] = forward_token_into(m, ts[n], start + n - 1, a[n - 1].cache)
  BY <1>0, <1>2 DEF IsWalk
<1> QED BY <1>4, <1>6, <1>7, <1>8 DEF a, n

-----------------------------------------------------------------------------
(* Forward passes: the models of ForwardCases. *)

\* Functions on 1 .. k are sequences of layers.
LEMMA LayersAre ==
  ASSUME NEW S, NEW n \in Nat, NEW ls \in UpTo(S, n)
  PROVE  Len(ls) \in Nat /\ DOMAIN ls = 1 .. Len(ls) /\ \A l \in 1 .. Len(ls) : ls[l] \in S
<1>1. PICK k \in 1 .. n : ls \in [1 .. k -> S]
  BY DEF UpTo
<1>2. ls \in Seq(S)
  BY <1>1
<1> QED BY <1>2, LenProperties, ElementOfSeq

\* The parts of a model.
LEMMA RingedAre ==
  ASSUME ForwardAssumption, NEW arch, NEW layers, NEW f32s, NEW m \in Ringed(arch, layers, f32s)
  PROVE  m.arch = arch /\ m.layers \in layers /\ m.sliding_window \in Nat /\ m.storage \in Nat \ {0}
<1>1. PICK ls \in layers, ring \in Rings, f \in f32s : m = Model(arch, ls, ring[1], f, ring[2])
  BY DEF Ringed
<1>2. ring[1] \in Nat /\ ring[2] \in Nat \ {0}
  BY DEF ForwardAssumption
<1>3. m.arch = arch /\ m.layers = ls /\ m.sliding_window = ring[1] /\ m.storage = ring[2]
  BY <1>1 DEF Model
<1> QED BY <1>2, <1>3

\* The same without a ring.
LEMMA UnringedAre ==
  ASSUME ForwardAssumption, NEW arch, NEW layers, NEW m \in Unringed(arch, layers)
  PROVE  m.arch = arch /\ m.layers \in layers /\ m.sliding_window \in Nat /\ m.storage \in Nat \ {0}
<1>1. PICK ls \in layers, f \in BOOLEAN : m = Model(arch, ls, 0, f, Context)
  BY DEF Unringed
<1>2. m.arch = arch /\ m.layers = ls /\ m.sliding_window = 0 /\ m.storage = Context
  BY <1>1 DEF Model
<1> QED BY <1>2 DEF ForwardAssumption

\* The architectures with a batch are models with layers of their kinds.
LEMMA ModelsAre ==
  ASSUME ForwardAssumption, NEW arch \in Architectures, NEW m \in ModelsOf(arch)
  PROVE  m.arch = arch /\ (HasBatch(m) => IsModel(m))
<1>1. MaxLayers \in Nat
  BY DEF ForwardAssumption
<1>2. CASE arch = "standard"
  <2>1. m \in Ringed("standard", UpTo(StandardLayers, MaxLayers), BOOLEAN)
    BY <1>2 DEF ModelsOf
  <2>2. /\ m.arch = "standard" /\ m.layers \in UpTo(StandardLayers, MaxLayers)
        /\ m.sliding_window \in Nat /\ m.storage \in Nat \ {0}
    BY <2>1, RingedAre
  <2>3. /\ Depth(m) \in Nat /\ DOMAIN m.layers = 1 .. Depth(m)
        /\ \A l \in 1 .. Depth(m) : m.layers[l] \in StandardLayers
    BY <1>1, <2>2, LayersAre DEF Depth
  <2> QED BY <1>2, <2>2, <2>3 DEF IsModel
<1>3. CASE arch = "qwen35"
  <2>1. m \in Unringed("qwen35", UpTo(QwenLayers, MaxLayers))
    BY <1>3 DEF ModelsOf
  <2>2. /\ m.arch = "qwen35" /\ m.layers \in UpTo(QwenLayers, MaxLayers)
        /\ m.sliding_window \in Nat /\ m.storage \in Nat \ {0}
    BY <2>1, UnringedAre
  <2>3. /\ Depth(m) \in Nat /\ DOMAIN m.layers = 1 .. Depth(m)
        /\ \A l \in 1 .. Depth(m) : m.layers[l] \in QwenLayers
    BY <1>1, <2>2, LayersAre DEF Depth
  <2>4. \A layer \in QwenLayers : layer.kind \in {"linear", "attention"}
    BY DEF QwenLayers, HybridLayer
  <2> QED BY <1>3, <2>2, <2>3, <2>4 DEF IsModel
<1>4. CASE arch = "nemotron_h"
  <2>1. m \in Unringed("nemotron_h", UpTo(NemotronLayers, MaxLayers))
    BY <1>4 DEF ModelsOf
  <2>2. /\ m.arch = "nemotron_h" /\ m.layers \in UpTo(NemotronLayers, MaxLayers)
        /\ m.sliding_window \in Nat /\ m.storage \in Nat \ {0}
    BY <2>1, UnringedAre
  <2>3. /\ Depth(m) \in Nat /\ DOMAIN m.layers = 1 .. Depth(m)
        /\ \A l \in 1 .. Depth(m) : m.layers[l] \in NemotronLayers
    BY <1>1, <2>2, LayersAre DEF Depth
  <2>4. \A layer \in NemotronLayers : layer.kind \in {"mamba2", "attention", "experts", "dense"}
    BY DEF NemotronLayers, HybridLayer
  <2> QED BY <1>4, <2>2, <2>3, <2>4 DEF IsModel
<1>5. CASE arch = "gpt-oss"
  <2>1. m \in Ringed("gpt-oss", {[l \in 1 .. MaxLayers |-> Plain]}, {FALSE})
    BY <1>5 DEF ModelsOf
  <2>2. m.arch = "gpt-oss"
    BY <2>1, RingedAre
  <2> QED BY <1>5, <2>2 DEF HasBatch
<1>6. CASE arch = "laguna"
  <2>1. m \in Ringed("laguna", UpTo(LagunaLayers, MaxLayers), {FALSE})
    BY <1>6 DEF ModelsOf
  <2>2. m.arch = "laguna"
    BY <2>1, RingedAre
  <2> QED BY <1>6, <2>2 DEF HasBatch
<1>7. CASE arch = "gemma4"
  <2>1. m \in Ringed("gemma4", {ls \in UpTo(GemmaLayers, MaxLayers) : ls[1].shares = 0}, {FALSE})
    BY <1>7 DEF ModelsOf
  <2>2. m.arch = "gemma4"
    BY <2>1, RingedAre
  <2> QED BY <1>7, <2>2 DEF HasBatch
<1> QED BY <1>2, <1>3, <1>4, <1>5, <1>6, <1>7 DEF Architectures

\* What an earlier call left is a cache.
LEMMA CacheIs ==
  ASSUME NEW m, IsModel(m), NEW start
  PROVE  IsCache(m, CacheOf(m, start))
<1> DEFINE c == CacheOf(m, start)
           held(s) == {q \in 0 .. start - 1 : q % m.storage = s}
           rows(name) ==
             [l \in 1 .. Depth(m) |-> [s \in 0 .. m.storage - 1 |->
               Standard!Atom(name, IF held(s) = {} THEN -1 ELSE CHOOSE p \in held(s) : \A o \in held(s) : o <= p)]]
<1>1. c = [k |-> rows("k"), v |-> rows("v"), storage_len |-> m.storage,
           conv |-> [n \in 1 .. Depth(m) |-> <<Standard!Atom("conv", 1), Standard!Atom("conv", 2)>>],
           ssm |-> [n \in 1 .. Depth(m) |-> Standard!Atom("ssm", n)]]
  BY Zenon DEF CacheOf, Standard!CacheBefore, Depth
<1>2. \A name : /\ rows(name) = [l \in 1 .. Depth(m) |-> rows(name)[l]]
                /\ \A l \in 1 .. Depth(m) : DOMAIN rows(name)[l] = 0 .. m.storage - 1
  OBVIOUS
<1> HIDE DEF rows, c
<1> QED BY <1>1, <1>2 DEF IsCache, c

\* The tokens of a call.
LEMMA TokensAre ==
  ASSUME NEW n \in Nat \ {0}
  PROVE  Tokens(n) \in Seq(Nat) /\ Len(Tokens(n)) = n /\ DOMAIN Tokens(n) = 1 .. n /\ Tokens(n) # <<>>
<1>1. Tokens(n) \in [1 .. n -> Nat] /\ DOMAIN Tokens(n) = 1 .. n
  BY DEF Tokens
<1>2. Tokens(n) \in Seq(Nat)
  BY <1>1
<1>3. Len(Tokens(n)) = n
  BY <1>1, <1>2, LenProperties
<1> QED BY <1>1, <1>2, <1>3, EmptySeq

\* A draft that can be verified fits in a batch.
LEMMA VerifiableFits ==
  ASSUME NEW m, HasBatch(m) => IsModel(m), NEW start \in Nat, NEW b \in Nat \ {0}, Verifiable(m), ~Wraps(m, start, b)
  PROVE  BatchFits(m, start, b) /\ HasBatch(m)
<1>1. HasBatch(m)
  BY DEF Verifiable, HasBatch
<1>2. RingHolds(m, start, b)
  BY <1>1 DEF RingHolds, Wraps, IsModel
<1>3. m.arch = "standard" => \A l \in 1 .. Depth(m) : Bald(m.layers[l])
  BY <1>1 DEF Verifiable, Bald, Standard!standard_verify_batchable, Standard!standard_prefill_batchable,
         Standard!Layers, IsModel
<1> QED BY <1>1, <1>2, <1>3 DEF BatchFits

\* Every way through a model agrees with one token after the other.
LEMMA ModelsAgree ==
  ASSUME ForwardAssumption, NEW arch \in Architectures, NEW m \in ModelsOf(arch)
  PROVE  PathsAgree(m)
<1>1. m.arch \in Architectures /\ (HasBatch(m) => IsModel(m))
  BY ModelsAre
<1>2. SUFFICES ASSUME NEW start \in Positions, NEW n \in 1 .. MaxPrompt
               PROVE  AllAgree(m, Tokens(n), start, CacheOf(m, start), Decoded(m, Tokens(n), start, CacheOf(m, start)))
  BY Zenon DEF PathsAgree
<1> DEFINE ts == Tokens(n)
           c == CacheOf(m, start)
           alone == Decoded(m, ts, start, c)
           a == Stepped(m, ts, start, c, n)
<1>3. start \in Nat /\ n \in Nat \ {0} /\ n \in 1 .. n /\ 1 \in 1 .. n /\ start + 1 - 1 = start
  BY <1>2 DEF ForwardAssumption
<1>4. ts \in Seq(Nat) /\ Len(ts) = n /\ DOMAIN ts = 1 .. n /\ ts # <<>>
  BY <1>3, TokensAre
<1>5. HasBatch(m) => IsCache(m, c)
  BY <1>1, CacheIs
<1> HIDE DEF ts, c
<1>6. alone = a
  BY <1>3, <1>4, DecodedIs
<1>7. a[0] = [cache |-> c] /\ IsWalk(m, ts, start, n, a)
  BY <1>3, WalkIs
<1> HIDE DEF alone
<1>8. ASSUME NEW u \in Ubatches PROVE PromptAgrees(m, ts, start, u, c, alone)
  <2>1. u \in Nat \ {0}
    BY DEF ForwardAssumption
  <2>2. CASE ChunksFit(m, ts, start, u)
    <3>1. prefill_prompt_tokens(m, ts, start, u, c) = Stepped(m, ts, start, c, Len(ts))[Len(ts)]
      BY <1>1, <1>3, <1>4, <1>5, <2>1, <2>2, PromptIs
    <3> QED BY <1>4, <1>6, <3>1 DEF PromptAgrees, Same
  <2>3. CASE ~ChunksFit(m, ts, start, u)
    BY <2>3 DEF ChunksFit, PromptAgrees
  <2> QED BY <2>2, <2>3
<1>9. DraftAgrees(m, ts, start, c, alone)
  <2> DEFINE v == forward_verify_draft_batch(m, ts, start, c)
  <2>1. SUFFICES ASSUME Verifiable(m), ~Wraps(m, start, n) PROVE BatchAgrees(m, v, n, a)
    BY <1>4, <1>6 DEF DraftAgrees
  <2>2. BatchFits(m, start, n) /\ HasBatch(m)
    BY <1>1, <1>3, <2>1, VerifiableFits
  <2>3. IsStepped(m, ts, start, c, n, a)
    BY <1>1, <1>3, <1>5, <2>2, SteppedIs
  <2> HIDE DEF a
  <2>4. /\ v.cache = a[n].cache
        /\ \A t \in 1 .. n : v.logits[t] = a[t].logits /\ v.hidden[t] = a[t].x
    BY <1>1, <1>3, <1>4, <1>5, <2>2, <2>3, VerifiedIs
  <2> HIDE DEF v
  <2>5. v.hidden[n] = a[n].x
    BY <1>3, <2>4
  <2> QED BY <2>4, <2>5 DEF BatchAgrees
<1>10. HiddenAgrees(m, ts, start, c, alone)
  <2>1. SUFFICES ASSUME m.arch # "gemma4"
                 PROVE  Standard!Apply("output", 0, forward_hidden_token(m, ts[1], start, c)) = a[1].logits
    BY <1>6 DEF HiddenAgrees
  <2>2. a[1] = forward_token_into(m, ts[1], start, c)
    <3>1. a[1] = forward_token_into(m, ts[1], start + 1 - 1, a[1 - 1].cache)
      BY <1>3, <1>7 DEF IsWalk
    <3>2. a[1 - 1].cache = c
      BY <1>7
    <3> QED BY <1>3, <3>1, <3>2
  <2> HIDE DEF a
  <2> QED BY <1>1, <2>1, <2>2, HiddenIs
<1> QED BY <1>8, <1>9, <1>10, Zenon DEF AllAgree, ts, c, alone

-----------------------------------------------------------------------------
(* Schedules: the theorems of WorkerPoolProofs, for these requests. *)

\* WorkerPoolProofs is about pools with callers; its theorems on requests are
\* about none of its variables.
Pool ==
  INSTANCE WorkerPoolProofs WITH
    Callers <- {1}, NoCaller <- 0, Requests <- {}, MaxGenerations <- 0,
    dispatch <- subject, job <- subject, current_chunk <- subject, generation <- subject,
    wake <- subject, done <- subject, thread <- subject, token <- subject, hpc <- subject,
    last_seen <- subject, seen <- subject, hjob <- subject, unit <- subject, cpc <- subject,
    cjob <- subject, cursor <- subject, ran <- subject

\* Both instances of ScheduleCases are of the same pool.
LEMMA PoolIsScheduling == \A a : Pool!SharesTheWork(a) = Scheduling!SharesTheWork(a)
<1>1. \A a, b : Pool!Least(a, b) = Scheduling!Least(a, b)
  BY Zenon DEF Pool!Least, Scheduling!Least
<1>2. \A a : Pool!AtLeastOne(a) = Scheduling!AtLeastOne(a)
  BY Zenon DEF Pool!AtLeastOne, Scheduling!AtLeastOne
<1>3. \A a, b : Pool!DivCeil(a, b) = Scheduling!DivCeil(a, b)
  BY Zenon DEF Pool!DivCeil, Scheduling!DivCeil
<1>4. \A a : Pool!matvec_chunk_count(a) = Scheduling!matvec_chunk_count(a)
  BY <1>3, Zenon DEF Pool!matvec_chunk_count, Scheduling!matvec_chunk_count
<1>5. \A a, b : Pool!use_dynamic_chunks(a, b) = Scheduling!use_dynamic_chunks(a, b)
  BY <1>4, Zenon DEF Pool!use_dynamic_chunks, Scheduling!use_dynamic_chunks
<1>6. \A a, b : Pool!RangeWorkers(a, b) = Scheduling!RangeWorkers(a, b)
  BY <1>1, <1>2, <1>3, Zenon DEF Pool!RangeWorkers, Scheduling!RangeWorkers
<1>7. \A a, b : Pool!StaticJob(a, b) = Scheduling!StaticJob(a, b)
  BY Zenon DEF Pool!StaticJob, Scheduling!StaticJob
<1>8. \A a, b, c : Pool!DynamicJob(a, b, c) = Scheduling!DynamicJob(a, b, c)
  BY <1>3, Zenon DEF Pool!DynamicJob, Scheduling!DynamicJob
<1>9. \A a : Pool!SerialJob(a) = Scheduling!SerialJob(a)
  BY <1>7, Zenon DEF Pool!SerialJob, Scheduling!SerialJob
<1>10. \A a : Pool!MatvecJob(a) = Scheduling!MatvecJob(a)
  BY <1>1, <1>2, <1>5, <1>7, <1>8, <1>9, Zenon DEF Pool!MatvecJob, Scheduling!MatvecJob
<1>11. \A a : Pool!KQuantBatch3Job(a) = Scheduling!KQuantBatch3Job(a)
  BY <1>1, <1>2, <1>7, <1>8, <1>9, Zenon DEF Pool!KQuantBatch3Job, Scheduling!KQuantBatch3Job
<1>12. \A a : Pool!RangeJob(a) = Scheduling!RangeJob(a)
  BY <1>1, <1>2, <1>6, <1>7, Zenon DEF Pool!RangeJob, Scheduling!RangeJob
<1>13. \A a : Pool!JobOf(a) = Scheduling!JobOf(a)
  BY <1>10, <1>11, <1>12, Zenon DEF Pool!JobOf, Scheduling!JobOf
<1>14. \A a : Pool!RowsOf(a) = Scheduling!RowsOf(a)
  BY Zenon DEF Pool!RowsOf, Scheduling!RowsOf
<1>15. \A a : Pool!JobFor(a) = Scheduling!JobFor(a)
  BY <1>13, <1>14, Zenon DEF Pool!JobFor, Scheduling!JobFor
<1>16. \A a, b : Pool!StaticStart(a, b) = Scheduling!StaticStart(a, b)
  BY Zenon DEF Pool!StaticStart, Scheduling!StaticStart
<1>17. \A a, b : Pool!UnitStart(a, b) = Scheduling!UnitStart(a, b)
  BY <1>16, Zenon DEF Pool!UnitStart, Scheduling!UnitStart
<1>18. \A a, b : Pool!UnitEnd(a, b) = Scheduling!UnitEnd(a, b)
  BY <1>1, <1>16, Zenon DEF Pool!UnitEnd, Scheduling!UnitEnd
<1>19. \A a, b : Pool!UnitItems(a, b) = Scheduling!UnitItems(a, b)
  BY <1>17, <1>18, Zenon DEF Pool!UnitItems, Scheduling!UnitItems
<1>20. \A a : Pool!UnitsIn(a) = Scheduling!UnitsIn(a)
  BY Zenon DEF Pool!UnitsIn, Scheduling!UnitsIn
<1>21. \A a : Pool!SharesFitThePool(a) = Scheduling!SharesFitThePool(a)
  BY <1>19, <1>20, Zenon DEF Pool!SharesFitThePool, Scheduling!SharesFitThePool
<1>0. \A S : Pool!Cardinality(S) = Scheduling!Cardinality(S)
  BY Zenon DEF Pool!Cardinality, Scheduling!Cardinality
<1>22. \A a : Pool!UnitsPartitionItems(a) = Scheduling!UnitsPartitionItems(a)
  <2> TAKE a
  <2>1. \A i : {u \in Pool!UnitsIn(a) : i \in Pool!UnitItems(a, u)}
                 = {u \in Scheduling!UnitsIn(a) : i \in Scheduling!UnitItems(a, u)}
    BY <1>19, <1>20
  <2> DEFINE P(i) == {u \in Pool!UnitsIn(a) : i \in Pool!UnitItems(a, u)}
             S(i) == {u \in Scheduling!UnitsIn(a) : i \in Scheduling!UnitItems(a, u)}
  <2>4. Pool!UnitsPartitionItems(a) <=> \A i \in 0 .. a.items - 1 : Pool!Cardinality(P(i)) = 1
    BY Zenon DEF Pool!UnitsPartitionItems
  <2>5. Scheduling!UnitsPartitionItems(a) <=> \A i \in 0 .. a.items - 1 : Scheduling!Cardinality(S(i)) = 1
    BY Zenon DEF Scheduling!UnitsPartitionItems
  <2>6. \A i : P(i) = S(i)
    BY <2>1
  <2> HIDE DEF P, S
  <2>2. Pool!UnitsPartitionItems(a) <=> Scheduling!UnitsPartitionItems(a)
    BY <1>0, <2>4, <2>5, <2>6, Zenon
  <2>3. /\ Pool!UnitsPartitionItems(a) \in BOOLEAN
        /\ Scheduling!UnitsPartitionItems(a) \in BOOLEAN
    BY DEF Pool!UnitsPartitionItems, Scheduling!UnitsPartitionItems
  <2> QED
    BY <2>2, <2>3
<1>23. \A a, b : Pool!SaturatingSub(a, b) = Scheduling!SaturatingSub(a, b)
  BY Zenon DEF Pool!SaturatingSub, Scheduling!SaturatingSub
<1>24. \A a, b, c, d : Pool!clipped_range(a, b, c, d) = Scheduling!clipped_range(a, b, c, d)
  BY <1>1, <1>23, Zenon DEF Pool!clipped_range, Scheduling!clipped_range
<1>25. \A a, b : Pool!OffsetOf(a, b) = Scheduling!OffsetOf(a, b)
  BY Zenon DEF Pool!OffsetOf, Scheduling!OffsetOf
<1>26. \A a, b, c, d : Pool!ProjectionRows(a, b, c, d) = Scheduling!ProjectionRows(a, b, c, d)
  BY <1>17, <1>18, <1>24, <1>25, SMT DEF Pool!ProjectionRows, Scheduling!ProjectionRows
<1>27. \A a, b : Pool!FusedRowsPartition(a, b) = Scheduling!FusedRowsPartition(a, b)
  <2> TAKE a, b
  <2>1. \A i, k : {u \in Pool!UnitsIn(a) : i \in Pool!ProjectionRows(a, b, u, k)}
                    = {u \in Scheduling!UnitsIn(a) : i \in Scheduling!ProjectionRows(a, b, u, k)}
    BY <1>20, <1>26
  <2>2. \A u : {row \in (1 .. 3) \X (0 .. MaxLen - 1) : row[2] \in Pool!ProjectionRows(a, b, u, row[1])}
                 = {row \in (1 .. 3) \X (0 .. MaxLen - 1) : row[2] \in Scheduling!ProjectionRows(a, b, u, row[1])}
    BY <1>26, Zenon
  <2> DEFINE P(i, k) == {u \in Pool!UnitsIn(a) : i \in Pool!ProjectionRows(a, b, u, k)}
             S(i, k) == {u \in Scheduling!UnitsIn(a) : i \in Scheduling!ProjectionRows(a, b, u, k)}
             PR(u) == {row \in (1 .. 3) \X (0 .. MaxLen - 1) : row[2] \in Pool!ProjectionRows(a, b, u, row[1])}
             SR(u) == {row \in (1 .. 3) \X (0 .. MaxLen - 1) : row[2] \in Scheduling!ProjectionRows(a, b, u, row[1])}
  <2>5. Pool!FusedRowsPartition(a, b) <=>
          /\ \A k \in 1 .. 3 : \A i \in 0 .. b[k] - 1 : Pool!Cardinality(P(i, k)) = 1
          /\ \A u \in Pool!UnitsIn(a) : Pool!Cardinality(Pool!UnitItems(a, u)) = Pool!Cardinality(PR(u))
    BY Zenon DEF Pool!FusedRowsPartition
  <2>6. Scheduling!FusedRowsPartition(a, b) <=>
          /\ \A k \in 1 .. 3 : \A i \in 0 .. b[k] - 1 : Scheduling!Cardinality(S(i, k)) = 1
          /\ \A u \in Scheduling!UnitsIn(a) : Scheduling!Cardinality(Scheduling!UnitItems(a, u)) = Scheduling!Cardinality(SR(u))
    BY Zenon DEF Scheduling!FusedRowsPartition
  <2>7. (\A i, k : P(i, k) = S(i, k)) /\ (\A u : PR(u) = SR(u))
    BY <2>1, <2>2
  <2> HIDE DEF P, S, PR, SR
  <2>3. Pool!FusedRowsPartition(a, b) <=> Scheduling!FusedRowsPartition(a, b)
    BY <1>19, <1>20, <1>0, <2>5, <2>6, <2>7, Zenon
  <2>4. /\ Pool!FusedRowsPartition(a, b) \in BOOLEAN
        /\ Scheduling!FusedRowsPartition(a, b) \in BOOLEAN
    BY DEF Pool!FusedRowsPartition, Scheduling!FusedRowsPartition
  <2> QED
    BY <2>3, <2>4
<1>28. \A a, b : Pool!LargestShare(a, b) = Scheduling!LargestShare(a, b)
  BY <1>3, <1>14, Zenon DEF Pool!LargestShare, Scheduling!LargestShare
<1>29. \A a : Pool!FewerRangeWorkersAreAsFast(a) = Scheduling!FewerRangeWorkersAreAsFast(a)
  BY <1>1, <1>6, <1>14, <1>28, Zenon DEF Pool!FewerRangeWorkersAreAsFast, Scheduling!FewerRangeWorkersAreAsFast
<1>30. \A a : Pool!SharesTheWork(a) = Scheduling!SharesTheWork(a)
  BY <1>14, <1>15, <1>21, <1>22, <1>27, <1>29, Zenon DEF Pool!SharesTheWork, Scheduling!SharesTheWork
<1> QED
  BY <1>30

\* Every request the specification chooses has what WorkerPoolProofs proves.
LEMMA ScheduledRequestsShareTheWork ==
  ASSUME NEW kind \in Scheduling!Kinds, NEW r \in Scheduling!RequestsOf(kind)
  PROVE  Scheduling!SharesTheWork(r)
<1>1. kind \in Pool!Kinds
  BY DEF Pool!Kinds, Scheduling!Kinds
<1>2. r \in Pool!RequestsOf(kind)
  BY DEF Pool!RequestsOf, Scheduling!RequestsOf
<1>3. Pool!SharesTheWork(r)
  BY <1>1, <1>2, PoolsAssumption, Pool!RequestsShareTheWork
<1> QED BY <1>3, PoolIsScheduling, Zenon

-----------------------------------------------------------------------------
(* The inputs, and the theorems. *)

\* An input is one of its subject's group.
Inputs ==
  /\ subject = "schedule" =>
       group \in Scheduling!Kinds /\ (input # <<>> => input[1] \in Scheduling!RequestsOf(group))
  /\ subject = "attention" => group \in CallGroups /\ (input # <<>> => input[1] \in CallsOf(group))
  /\ subject = "projections" => group \in Fusions /\ (input # <<>> => input[1] \in ProjectionsOf(group))
  /\ subject = "forward" => group \in Architectures /\ (input # <<>> => input[1] \in ModelsOf(group))

\* The choice of a subject and a group stays, and the input is of both.
LEMMA InputsInvariant == Spec => []Inputs
<1>1. Init => Inputs
  BY OthersAssumption DEF Init, Inputs
<1>2. Inputs /\ [Next]_vars => Inputs'
  <2> SUFFICES ASSUME Inputs, [Next]_vars PROVE Inputs'
    OBVIOUS
  <2>1. ASSUME NEW inputs, Choose(inputs)
        PROVE  input' # <<>> /\ input'[1] \in inputs /\ subject' = subject /\ group' = group
    BY <2>1 DEF Choose
  <2>2. CASE subject = "attention" /\ Choose(CallsOf(group))
    <3>1. input'[1] \in CallsOf(group) /\ subject' = subject /\ group' = group
      BY <2>1, <2>2
    <3> QED BY <2>2, <3>1 DEF Inputs
  <2>3. CASE subject = "projections" /\ Choose(ProjectionsOf(group))
    <3>1. input'[1] \in ProjectionsOf(group) /\ subject' = subject /\ group' = group
      BY <2>1, <2>3
    <3> QED BY <2>3, <3>1 DEF Inputs
  <2>6. CASE subject = "schedule" /\ Choose(Scheduling!RequestsOf(group))
    <3>1. input'[1] \in Scheduling!RequestsOf(group) /\ subject' = subject /\ group' = group
      BY <2>1, <2>6
    <3> QED BY <2>6, <3>1 DEF Inputs
  <2>7. CASE subject = "forward" /\ Choose(ModelsOf(group))
    <3>1. input'[1] \in ModelsOf(group) /\ subject' = subject /\ group' = group
      BY <2>1, <2>7
    <3> QED BY <2>7, <3>1 DEF Inputs
  <2>4. CASE subject \in Others /\ Choose(MembersOf(subject, group))
    <3>1. subject' = subject
      BY <2>1, <2>4
    <3>2. subject \notin {"schedule", "attention", "projections", "forward"}
      BY <2>4, OthersAssumption
    <3> QED BY <3>1, <3>2 DEF Inputs
  <2>5. CASE UNCHANGED vars
    BY <2>5 DEF Inputs, vars
  <2> QED BY <2>2, <2>3, <2>4, <2>5, <2>6, <2>7 DEF Next
<1> QED BY <1>1, <1>2, PTL DEF Spec

\* Whatever the shapes, windows, batches and places in the ring the calls are
\* made from, every attention scan of model.rs (grouped, with a sink, bf16,
\* batched over tokens, in tiles) weighs each row of a token's window once and
\* writes each head once.
THEOREM AttentionVisitsWindows == Spec => []AttentionVisitsWindowOnce
<1>1. Inputs => AttentionVisitsWindowOnce
  BY AttentionCallsAreCalls, AttentionVisitsRows DEF Inputs, AttentionVisitsWindowOnce, Chosen
<1> QED BY <1>1, InputsInvariant, PTL

\* Whatever the kinds, heights, widths and batches, every projection of simd.rs
\* that is fused on one vector or batched over several gives what its matrices
\* give alone, and is refused for no reason but those its checks name.
THEOREM ProjectionsAgreeWithMatrices == Spec => []ProjectionsAgree
<1>1. Inputs => ProjectionsAgree
  BY ProjectionCallsAreProjections, ProjectionsAreTheirMatrices DEF Inputs, ProjectionsAgree, Chosen
<1> QED BY <1>1, InputsInvariant, PTL

\* Whatever the pool's size and chunks and whatever is asked of it, its units
\* share the work: every item and every fused row is in one unit, no static
\* share is empty, and the workers parallel_range drops cost no speed.
THEOREM WorkIsSharedOut == Spec => []WorkIsShared
<1>1. Inputs => WorkIsShared
  BY ScheduledRequestsShareTheWork DEF Inputs, WorkIsShared, Chosen
<1> QED BY <1>1, InputsInvariant, PTL

\* Whatever the layers and their kinds, the window and the ring, the position
\* and the chunk size, a prompt in chunks, a draft in one batch and the tokens
\* one by one give the same cache, logits, embeddings and draft-head input.
THEOREM ForwardPathsAlwaysAgree == Spec => []ForwardPathsAgree
<1>1. Inputs => ForwardPathsAgree
  BY ModelsAgree, ForwardAssumption DEF Inputs, ForwardPathsAgree, Chosen
<1> QED BY <1>1, InputsInvariant, PTL
=============================================================================
