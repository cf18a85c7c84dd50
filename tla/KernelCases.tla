----------------------------- MODULE KernelCases ----------------------------
(***************************************************************************)
(* The kernels of a format on rows of a few blocks, and what the row's own *)
(* decoder says each has to add up.                                        *)
(***************************************************************************)
EXTENDS QuantKernels, FiniteSets

CONSTANTS
  SmallRows,   \* lengths of rows in blocks, for formats of 32 weights
  SuperRows,   \* the same for formats of 256 weights
  Magnitudes   \* activations are tried in -Magnitudes .. Magnitudes

Formats == {"q8_0", "q8_1", "q4_0", "q4_1", "q5_0", "q5_1", "q4_k", "q5_k", "q6_k", "mxfp4"}
KQuants == {"q4_k", "q5_k", "q6_k"}

RowOf(f, n) ==
  CASE f = "q8_0" -> dequant_row_q8_0_into(n) [] f = "q8_1" -> dequant_row_q8_1_into(n)
    [] f = "q4_0" -> dequant_row_q4_0_into(n) [] f = "q4_1" -> dequant_row_q4_1_into(n)
    [] f = "q5_0" -> dequant_row_q5_0_into(n) [] f = "q5_1" -> dequant_row_q5_1_into(n)
    [] f = "q4_k" -> dequant_row_q4_k_into(n) [] f = "q5_k" -> dequant_row_q5_k_into(n)
    [] f = "q6_k" -> dequant_row_q6_k_into(n) [] f = "mxfp4" -> dequant_row_mxfp4_into(n)

FloatDots(f, n) ==
  CASE f = "q8_0" -> <<dot_q8_0_f32_scalar(n), dot_q8_0_f32_neon(n), dot_q8_0_f32_avx2(n)>>
    [] f = "q8_1" -> <<dot_q8_1_f32_scalar(n)>>
    [] f = "q4_0" -> <<dot_q4_0_f32_scalar(n), dot_q4_0_f32_neon(n), dot_q4_0_f32_avx2(n)>>
    [] f = "q4_1" -> <<dot_q4_1_f32_scalar(n)>>
    [] f = "q5_0" -> <<dot_q5_0_f32_scalar(n)>>
    [] f = "q5_1" -> <<dot_q5_1_f32_scalar(n)>>
    [] f = "q4_k" -> <<dot_q4_k_f32_scalar(n), dot_q4_k_f32_neon(n)>>
    [] f = "q5_k" -> <<dot_q5_k_f32_scalar(n), dot_q5_k_f32_neon(n)>>
    [] f = "q6_k" -> <<dot_q6_k_f32_scalar(n), dot_q6_k_f32_neon(n)>>
    [] f = "mxfp4" -> <<dot_mxfp4_f32_scalar(n), dot_mxfp4_f32_neon(n)>>

\* n counts 256 activations here.
IntDots(f, n) ==
  CASE f = "q8_0" -> <<dot_q8_0_q8k_neon(n), dot_q8_0_q8k_avx2(n)>>
    [] f = "q4_0" -> <<dot_q4_0_q8k_neon(n), dot_q4_0_q8k_avx2(n)>>
    [] f = "q4_k" -> <<dot_q4_k_q8k_neon(n), dot_q4_k_q8k_avx2(n)>>
    [] f = "q5_k" -> <<dot_q5_k_q8k_neon(n), dot_q5_k_q8k_avx2(n)>>
    [] f = "q6_k" -> <<dot_q6_k_q8k_neon(n), dot_q6_k_q8k_avx2(n)>>
    [] OTHER -> <<>>

BatchDots(f, n) ==
  CASE f = "q4_k" -> <<dot_q4_k_q8k_neon_x4(n), dot_q4_k_q8k_avx2_x4(n)>>
    [] f = "q5_k" -> <<dot_q5_k_q8k_neon_x4(n), dot_q5_k_q8k_avx2_x4(n)>>
    [] f = "q6_k" -> <<dot_q6_k_q8k_neon_x4(n), dot_q6_k_q8k_avx2_x4(n)>>
    [] OTHER -> <<>>

RowsOf(f) == [format : {f}, blocks : IF f \in KQuants THEN SuperRows ELSE SmallRows]
SuperBlocks(c) == IF c.format \in KQuants THEN c.blocks ELSE c.blocks \div 8
WholeSupers(c) == c.format \in KQuants \/ c.blocks % 8 = 0

\* The activations a kernel reads for element i.
Plain(i)     == {<<i>>}
Quantised(i) == {<<i, i \div 256>>}
Batched(i)   == {<<i, i \div 256, t>> : t \in Tokens}

(***************************************************************************)
(* Every weight meets its own activation once, scaled by its own scale;    *)
(* and what its minimum or bias takes off is taken off once, whether in    *)
(* the product or through an activation sum.                               *)
(***************************************************************************)
AddsUpTo(dot, row, Activations(_)) ==
  LET weights  == {row[k] : k \in DOMAIN row}
      lessened == {k \in DOMAIN dot.products : dot.products[k].w.less # Nothing}
      products == {<<dot.products[k].x, dot.products[k].w.code, dot.products[k].w.scale>> :
                     k \in DOMAIN dot.products}
      folded   == {<<dot.products[k].x, dot.products[k].w.less>> : k \in lessened}
      summed   == UNION {{<<k, x, dot.sums[k].less>> : x \in dot.sums[k].xs} : k \in DOMAIN dot.sums}
      taken    == folded \cup {<<s[2], s[3]>> : s \in summed}
  IN  /\ products = UNION {{<<x, r.w.code, r.w.scale>> : x \in Activations(r.x[1])} : r \in weights}
      /\ Cardinality(products) = Cardinality(DOMAIN dot.products)
      /\ taken = UNION {{<<x, r.w.less>> : x \in Activations(r.x[1])} : r \in {w \in weights : w.w.less # Nothing}}
      /\ Cardinality(taken) = Cardinality(lessened) + Cardinality(summed)
EachAddsUpTo(dots, row, Activations(_)) ==
  \A k \in DOMAIN dots : AddsUpTo(dots[k], row, Activations)

\* The decoder writes every element once, and between them the weights of a
\* block use each bit they are packed in once.
DecodesOnce(row, elements) ==
  LET bits == UNION {{<<k, row[k].w.code[n]>> : n \in DOMAIN row[k].w.code} : k \in DOMAIN row}
  IN  /\ {row[k].x : k \in DOMAIN row} = {<<i>> : i \in 0 .. elements - 1}
      /\ Cardinality(DOMAIN row) = elements
      /\ Cardinality({b[2] : b \in bits}) = Cardinality(bits)

\* The eight scales and the eight minima use each bit of their 12 bytes once.
ScalesPacked ==
  LET fields == [j \in 0 .. 15 |-> LET sm == get_scale_min_k4(j % 8, 0) IN IF j < 8 THEN sm.scale ELSE sm.min]
      bits   == {fields[j][n] : j \in 0 .. 15, n \in 1 .. 6}
  IN  bits = (0 .. 11) \X (0 .. 7)

(***************************************************************************)
(* Quantised activations keep their order and their group, and stay where  *)
(* a signed product of two lanes fits 16 bits (maddubs saturates) and      *)
(* where the sign can be moved to them (-128 has no int8 opposite).        *)
(***************************************************************************)
LargestWeight(f) ==
  CASE f = "q4_k" -> 15 [] f = "q5_k" -> 31 [] f = "q6_k" -> 32 [] f = "q4_0" -> 15 [] f = "q8_0" -> 128

LevelsInBlock ==
  {quantize_row_q8k_scalar(p[1], p[2]) :
     p \in {q \in (-Magnitudes .. Magnitudes) \X (0 .. Magnitudes) : AbsOf(q[1]) <= q[2]}}

QuantisedInPlace ==
  /\ \A sub \in 0 .. 7 :
       LET order == [n \in 1 .. 32 |-> 32 * sub + n - 1]
       IN  quantize_row_q8k_avx2(sub) = order /\ quantize_row_q8k_neon(sub) = order
  /\ \A l \in LevelsInBlock : l \in -127 .. 127 /\ 32 * AbsOf(l) < 32768
  /\ \A t, u \in Tokens : t # u =>
       \A part \in {"qs", "d", "bsums"} : prepare_batch_xq(t, 512)[part] \cap prepare_batch_xq(u, 512)[part] = {}

ProductsFit(f) ==
  IntDots(f, 0) # <<>> =>
    \A k, l \in LevelsInBlock : 2 * LargestWeight(f) * AbsOf(k) < 32768

MatchesRow(c) ==
  LET row    == RowOf(c.format, c.blocks)
      supers == SuperBlocks(c)
  IN  /\ DecodesOnce(row, c.blocks * (IF c.format \in KQuants THEN 256 ELSE 32))
      /\ EachAddsUpTo(FloatDots(c.format, c.blocks), row, Plain)
      /\ WholeSupers(c) =>
           /\ EachAddsUpTo(IntDots(c.format, supers), row, Quantised)
           /\ EachAddsUpTo(BatchDots(c.format, supers), row, Batched)
      /\ ScalesPacked
      /\ QuantisedInPlace
      /\ ProductsFit(c.format)
      /\ mxfp4_nibble_to_f32 = MANTISSAS
=============================================================================
