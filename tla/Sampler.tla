------------------------------- MODULE Sampler -----------------------------
(***************************************************************************)
(* Sampling of src/src/sampling.rs: the repeat penalty, the greedy choice, *)
(* and the random choice through top-k, min-p and top-p, among at least    *)
(* one token.                                                              *)
(*                                                                         *)
(* Logits are integers in halvings, or Infinite for what is not finite;    *)
(* exp((logit - max) / temperature) is Unit halved max - logit times.      *)
(* min_p and top_p are parts of Unit.  Tokens count from 1.  A config is   *)
(* [greedy, top_k, top_p, min_p, penalty]; r is the random number in       *)
(* 0 .. sum - 1, of whatever sum the code multiplies next_f32 with.  Sums  *)
(* are exact, so that the choices behind the loops, for sums that rounding *)
(* keeps from reaching r, are not taken.                                   *)
(***************************************************************************)
EXTENDS Integers, Sequences, FiniteSets

CONSTANTS
  Unit,     \* weight of the most likely token
  Infinite, \* a logit that is not finite
  (* The calls: logits of a few tokens under every setting. *)
  MaxVocabulary,  \* number of tokens
  Levels,         \* the finite logits
  Parts,          \* values of min_p and top_p, in parts of Unit
  Penalties

\* Negative infinity.
Floor == -1000

Finite(v)  == v \notin {Infinite, Floor}
Clamped(v) == IF Finite(v) THEN v ELSE Floor

\* Once for every time a token was seen; a penalty of 1 leaves all as it is.
apply_repeat_penalty(logits, recent_tokens, penalty) ==
  LET once(v) == IF ~Finite(v) THEN Floor ELSE IF v > 0 THEN v \div penalty ELSE v * penalty
      after[n \in 0 .. Len(recent_tokens)] ==
        IF n = 0 THEN logits
        ELSE IF recent_tokens[n] \in DOMAIN logits
        THEN [after[n - 1] EXCEPT ![recent_tokens[n]] = once(@)]
        ELSE after[n - 1]
  IN  IF penalty = 1 THEN logits ELSE after[Len(recent_tokens)]

\* The first of the highest finite logits; the first token if there is none.
argmax_finite_token(logits) ==
  LET best[n \in DOMAIN logits] ==
        IF n = 1 THEN 1
        ELSE IF Clamped(logits[n]) > Clamped(logits[best[n - 1]]) THEN n ELSE best[n - 1]
  IN  best[Len(logits)]

exp(logit, max) == IF logit = Floor THEN 0 ELSE Unit \div 2 ^ (max - logit)

Total(weights) ==
  LET sum[n \in 0 .. Len(weights)] == IF n = 0 THEN 0 ELSE sum[n - 1] + weights[n]
  IN  sum[Len(weights)]
Weights(candidates) == [i \in DOMAIN candidates |-> candidates[i].weight]
Kept(candidates, n) == SubSeq(candidates, 1, n)

\* The candidate in whose part of the sum r falls.
Drawn(candidates, r) ==
  candidates[CHOOSE i \in DOMAIN candidates :
               /\ Total(Weights(Kept(candidates, i))) > r
               /\ Total(Weights(Kept(candidates, i - 1))) <= r].token

\* The length of the head that min-p leaves of candidates in order of weight.
Limit(candidates, min_p) ==
  LET below == {i \in DOMAIN candidates : candidates[i].weight * Unit < min_p * candidates[1].weight}
      first == IF below = {} THEN Len(candidates) + 1 ELSE CHOOSE i \in below : \A j \in below : i <= j
  IN  IF min_p = 0 THEN Len(candidates) ELSE IF first = 1 THEN 1 ELSE first - 1

\* The shortest head of the first `limit` that holds more than top_p of sum.
Cutoff(candidates, limit, top_p, sum) ==
  LET enough == {i \in 1 .. limit : Total(Weights(Kept(candidates, i))) * Unit > top_p * sum}
  IN  IF top_p >= Unit \/ enough = {} THEN limit ELSE CHOOSE i \in enough : \A j \in enough : i <= j

-----------------------------------------------------------------------------

\* bubble_up_last: a new last candidate rises past smaller ones.
Bubbled(candidates, new) ==
  LET ahead == {i \in DOMAIN candidates : candidates[i].logit >= new.logit}
      n == IF ahead = {} THEN 0 ELSE CHOOSE i \in ahead : \A j \in ahead : j <= i
  IN  SubSeq(candidates, 1, n) \o <<new>> \o SubSeq(candidates, n + 1, Len(candidates))

\* Slip: the last candidate is not given up for the new one.
TopCandidatesKeepingLast(logits, top_k) ==
  LET after[n \in 0 .. Len(logits)] ==
        IF n = 0 THEN <<>>
        ELSE LET new == [token |-> n, logit |-> Clamped(logits[n])]
             IN  IF n <= top_k THEN Bubbled(after[n - 1], new) ELSE after[n - 1]
  IN  after[Len(logits)]

\* The top_k highest logits in order, the first of equals in front.
TopCandidates(logits, top_k) ==
  LET after[n \in 0 .. Len(logits)] ==
        IF n = 0 THEN <<>>
        ELSE LET new == [token |-> n, logit |-> Clamped(logits[n])]
             IN  IF n <= top_k THEN Bubbled(after[n - 1], new)
                 ELSE IF new.logit > after[n - 1][top_k].logit
                 THEN Bubbled(SubSeq(after[n - 1], 1, top_k - 1), new)
                 ELSE after[n - 1]
  IN  after[Len(logits)]

Weighed(candidates, max) ==
  [i \in DOMAIN candidates |-> [token |-> candidates[i].token, weight |-> exp(candidates[i].logit, max)]]

\* A way to sample: the candidates that are kept, in order, or a sure choice.
Sure(token) == <<[token |-> token, weight |-> 1]>>

sample_top_k(logits, config) ==
  LET top  == TopCandidates(logits, config.top_k)
      all  == Weighed(top, top[1].logit)
      limit == Limit(all, config.min_p)
  IN  IF config.top_k = 1 \/ top[1].logit = Floor THEN Sure(argmax_finite_token(logits))
      ELSE Kept(all, Cutoff(all, limit, config.top_p, Total(Weights(all))))

\* The order sort_unstable may leave equal weights in is any.
Sorted(candidates) ==
  {[i \in DOMAIN candidates |-> candidates[p[i]]] :
     p \in {p \in [DOMAIN candidates -> DOMAIN candidates] :
              /\ \A i, j \in DOMAIN candidates : p[i] = p[j] => i = j
              /\ \A i, j \in DOMAIN candidates : i < j => candidates[p[i]].weight >= candidates[p[j]].weight}}

\* What sample_with_scratch draws from: every outcome of the sort.  Without
\* a finite logit all weights are NaN and the last token is taken.
sample_with_scratch(raw, config, recent_tokens) ==
  LET logits == apply_repeat_penalty(raw, recent_tokens, config.penalty)
      top  == argmax_finite_token(logits)
      max  == Clamped(logits[top])
      all  == [i \in DOMAIN logits |-> [token |-> i, weight |-> exp(Clamped(logits[i]), max)]]
      sum  == Total(Weights(all))
  IN  IF config.greedy THEN {Sure(top)}
      ELSE IF config.top_k > 0 /\ config.top_k < Len(logits) THEN {sample_top_k(logits, config)}
      ELSE IF max = Floor THEN {Sure(Len(logits))}
      ELSE IF config.min_p > 0 /\ config.top_p >= Unit
      THEN {SelectSeq(all, LAMBDA c : c.weight >= config.min_p)}
      ELSE IF config.top_p < Unit
      THEN {Kept(s, Cutoff(s, Limit(s, config.min_p), config.top_p, sum)) : s \in Sorted(all)}
      ELSE {all}

-----------------------------------------------------------------------------
(* Calls, and what a sampler with their settings may choose. *)

Configs ==
  [greedy : {FALSE}, top_k : 0 .. MaxVocabulary, top_p : Parts, min_p : Parts \ {Unit}, penalty : {1}]
    \cup [greedy : BOOLEAN, top_k : {0, 2}, top_p : {Unit}, min_p : {0}, penalty : Penalties]

\* Only a greedy call has a token that was seen twice: what is left of its
\* weight may be less than the smallest part.
CallsOf(config) ==
  {[config |-> config, logits |-> logits, recent |-> recent] :
     logits \in UNION {[1 .. n -> Levels \cup {Infinite}] : n \in 1 .. MaxVocabulary},
     recent \in IF config.penalty = 1 THEN {<<>>}
                ELSE {<<1>>, <<1, 9, 2>>} \cup (IF config.greedy THEN {<<2, 2>>} ELSE {})}

\* The penalised logits, once for each time a token was seen.
Seen(c, token) == Cardinality({i \in DOMAIN c.recent : c.recent[i] = token})
Penalty(v, penalty) == IF v > 0 THEN v \div penalty ELSE v * penalty
Penalised(c) ==
  [t \in DOMAIN c.logits |->
     LET v == c.logits[t]
         p == c.config.penalty
     IN  IF ~Finite(v) THEN Floor
         ELSE CASE Seen(c, t) = 0 -> v
                [] Seen(c, t) = 1 -> Penalty(v, p)
                [] OTHER          -> Penalty(Penalty(v, p), p)]

Highest(S, T, logits) == \A t \in S, u \in T \ S : logits[t] >= logits[u]

\* The tokens kept, from the settings: of the top_k highest those that
\* weigh at least min_p of the first; of these the fewest that hold more
\* than top_p of what the top_k weigh, or all if they do not.
IsNucleus(config, logits, weights, kept) ==
  LET Weight(S) == Total([t \in DOMAIN logits |-> IF t \in S THEN weights[t] ELSE 0])
      k == IF config.top_k \in 1 .. Len(logits) THEN config.top_k ELSE Len(logits)
      Enough(S, top) == Weight(S) * Unit > config.top_p * Weight(top)
  IN  \E top \in SUBSET DOMAIN logits :
        /\ Cardinality(top) = k
        /\ Highest(top, DOMAIN logits, logits)
        /\ LET likely == {t \in top : weights[t] > 0 /\ weights[t] >= config.min_p}
           IN  /\ kept \subseteq likely
               /\ Highest(kept, likely, logits)
               /\ kept = likely \/ Enough(kept, top)
               /\ config.top_p < Unit => \A t \in kept : kept # {t} => ~Enough(kept \ {t}, top)

\* The greedy choice is the first of the best.  A random one falls on every
\* token of the nucleus, as often as it weighs, and on no other; so on none
\* whose logit is not finite, unless all are.
DrawsNucleus(config, logits, kept) ==
  LET first   == CHOOSE t \in DOMAIN logits :
                   \A u \in DOMAIN logits : logits[t] > logits[u] \/ (logits[t] = logits[u] /\ t <= u)
      weights == [t \in DOMAIN logits |-> exp(logits[t], logits[first])]
      draw    == [r \in 0 .. Total(Weights(kept)) - 1 |-> Drawn(kept, r)]
      drawn   == [t \in DOMAIN logits |-> Cardinality({r \in DOMAIN draw : draw[r] = t})]
      tokens  == {t \in DOMAIN logits : drawn[t] > 0}
  IN  IF logits[first] = Floor THEN Cardinality(tokens) = 1
      ELSE IF config.greedy \/ (config.top_k = 1 /\ Len(logits) > 1) THEN tokens = {first}
      ELSE /\ IsNucleus(config, logits, weights, tokens)
           /\ \A t \in tokens : drawn[t] = weights[t]

SamplesFromNucleus(c) ==
  \A kept \in sample_with_scratch(c.logits, c.config, c.recent) :
    DrawsNucleus(c.config, Penalised(c), kept)
=============================================================================
