---------------------------- MODULE AttentionCases --------------------------
(***************************************************************************)
(* Calls of the attention scans on small caches, and what each scan has to *)
(* write: for every head, its rows with their softmax weights.             *)
(***************************************************************************)
EXTENDS AttentionScans, FiniteSets

CONSTANTS
  Shapes,    \* <<KV heads, query heads per KV head>>
  Windows,   \* sliding windows, 0 for none
  Starts, Batches, Slots

ASSUME CallsAssumption ==
  /\ Shapes \subseteq Nat \X (1 .. MAX_KV_MUL)
  /\ Windows \subseteq Nat /\ Starts \subseteq Nat /\ Batches \subseteq Nat \ {0} /\ Slots \subseteq Nat \ {0}

CallGroups == Shapes \X Windows

\* Scores that rise and fall along the window: the running maximum is found
\* at its end, at its start, everywhere, and in between.
Patterns == {"rising", "falling", "level", "zigzag"}
ScoreOf(pattern, q, p) ==
  CASE pattern = "rising"  -> p + q
    [] pattern = "falling" -> q - 2 * p
    [] pattern = "level"   -> 0
    [] pattern = "zigzag"  -> (5 * p + 3 * q) % 7

WindowOf(c, pos) == {p \in 0 .. pos : c.sliding_window = 0 \/ p > pos - c.sliding_window}

\* The cache after `start` tokens and the batch were stored in order.
Filled(shape, window, start, b, slots, pattern, parallel) ==
  LET last == start + b - 1 IN
  [n_kv_heads |-> shape[1], kv_mul |-> shape[2], slot_count |-> slots, sliding_window |-> window,
   start_pos |-> start, b |-> b, sink |-> 2, parallel |-> parallel,
   mem |-> [s \in 0 .. slots - 1 |->
             LET held == {p \in 0 .. last : p % slots = s}
             IN  IF held = {} THEN -1 ELSE CHOOSE p \in held : \A r \in held : r <= p],
   score |-> [q \in 0 .. b * shape[1] * shape[2] - 1 |-> [p \in 0 .. last |-> ScoreOf(pattern, q, p)]]]

\* No row of a window has been overwritten.
Intact(c) == \A t \in 0 .. c.b - 1 : \A p \in WindowOf(c, c.start_pos + t) : c.mem[p % c.slot_count] = p

\* The scores are finite.
Finite(c) ==
  /\ c.sink \in Int /\ NegInf < c.sink /\ c.sink < -NegInf
  /\ \A q \in 0 .. c.b * Heads(c) - 1 : \A p \in 0 .. c.start_pos + c.b - 1 :
       c.score[q][p] \in Int /\ NegInf < c.score[q][p] /\ c.score[q][p] < -NegInf

CallsOf(g) ==
  {c \in {Filled(g[1], g[2], start, b, slots, pattern, parallel) :
            start \in Starts, b \in Batches, slots \in Slots, pattern \in Patterns, parallel \in BOOLEAN} :
     Intact(c) /\ Finite(c)}

\* What head h of token t is: exponents of the scores over their sum.
Weighted(c, t, h, maxima) ==
  LET pos   == c.start_pos + t
      lo    == IF c.sliding_window = 0 \/ pos < c.sliding_window THEN 0 ELSE pos - c.sliding_window + 1
      score == c.score[t * Heads(c) + h]
      all   == {score[p] : p \in lo .. pos} \cup maxima
      m     == CHOOSE x \in all : \A y \in all : y <= x
      n     == pos - lo + 1
      exps  == [i \in 1 .. n |-> score[lo + i - 1] - m]
  IN  [terms |-> [i \in 1 .. n |-> [row |-> lo + i - 1, exp |-> exps[i]]],
       over  |-> IF maxima = {} THEN exps ELSE <<c.sink - m>> \o exps]

\* Between them the units write every head of every token, each once.
WritesOnce(c, tokens, units, maxima) ==
  LET writes == UNION {{<<u, w.at, w.is>> : w \in units[u]} : u \in DOMAIN units}
      want   == {<<t * Heads(c) + h, Weighted(c, t, h, maxima)>> : t \in 0 .. tokens - 1, h \in 0 .. Heads(c) - 1}
  IN  Cardinality(writes) = Cardinality(want) /\ {<<w[2], w[3]>> : w \in writes} = want

VisitsWindowOnce(c) ==
  /\ c.b = 1 =>
       /\ WritesOnce(c, 1, attention_over_heads_with_sink(c), {c.sink})
       /\ WritesOnce(c, 1, attention_over_kv_heads(c), {})
       /\ WritesOnce(c, 1, attention_over_kv_heads_bf16(c), {})
  /\ WritesOnce(c, c.b, attention_over_kv_heads_prefill_batch(c), {})
  /\ WritesOnce(c, c.b, attention_over_kv_heads_prefill_batch_bf16(c), {})
  /\ c.sliding_window = 0 => WritesOnce(c, c.b, attention_over_kv_heads_prefill_batch_tiled(c), {})
=============================================================================
