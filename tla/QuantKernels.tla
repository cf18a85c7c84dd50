---------------------------- MODULE QuantKernels ----------------------------
(***************************************************************************)
(* The block formats of simd.rs as their row decoders (dequant_row_*_into) *)
(* read them, and the dot products of one quantised row with an activation *)
(* vector: the scalar, NEON and AVX2 kernels, on f32 activations and on    *)
(* activations quantised to int8 (Q8_K), for one token and for four.       *)
(*                                                                         *)
(* A weight is scale * code - less: `code` names the bits it is assembled  *)
(* from, lowest first, each as <<byte of the row, bit>>; `scale` the       *)
(* factors of its scale (an f16 by its first byte, a packed scale by its   *)
(* bits); `less` what is subtracted, as <<factor, factors>>.  A decoder is *)
(* a function from its loop indices to the element it writes and that      *)
(* element's weight.                                                       *)
(*                                                                         *)
(* A kernel is the products its loops and lanes form, by loop index and    *)
(* lane, and the activation sums it multiplies with a minimum or a bias    *)
(* afterwards.  An activation is <<element>>, with the block scale that is *)
(* applied to it once it is quantised, and the token when there are four.  *)
(***************************************************************************)
EXTENDS Integers, Sequences

CONSTANT KQUANT_BATCH_TOKENS

Bits(at, from, n) == [k \in 1 .. n |-> <<at, from + k - 1>>]
Int8(at)          == Bits(at, 0, 8)
Nibble(at, half)  == Bits(at, 4 * half, 4)
U32Bit(at, k)     == <<at + k \div 8, k % 8>>

Weight(code, scale, less) == [code |-> code, scale |-> scale, less |-> less]
At(i, weight)             == [x |-> <<i>>, w |-> weight]
Nothing                   == <<>>

\* The 6-bit scale and minimum of sub-block j, packed in 12 bytes.
get_scale_min_k4(j, at) ==
  IF j < 4
  THEN [scale |-> Bits(at + j, 0, 6), min |-> Bits(at + j + 4, 0, 6)]
  ELSE [scale |-> Bits(at + j + 4, 0, 4) \o Bits(at + j - 4, 6, 2),
        min   |-> Bits(at + j + 4, 4, 4) \o Bits(at + j, 6, 2)]

dequant_row_q8_0_into(blocks) ==
  [b \in 0 .. blocks - 1, i \in 0 .. 31 |->
    At(b * 32 + i, Weight(Int8(b * 34 + 2 + i), <<b * 34>>, Nothing))]

dequant_row_q8_1_into(blocks) ==
  [b \in 0 .. blocks - 1, i \in 0 .. 31 |->
    At(b * 32 + i, Weight(Int8(b * 36 + 4 + i), <<b * 36>>, Nothing))]

dequant_row_q4_0_into(blocks) ==
  [b \in 0 .. blocks - 1, i \in 0 .. 15, half \in 0 .. 1 |->
    At(b * 32 + i + 16 * half, Weight(Nibble(b * 18 + 2 + i, half), <<b * 18>>, <<8, <<b * 18>>>>))]

dequant_row_q4_1_into(blocks) ==
  [b \in 0 .. blocks - 1, i \in 0 .. 15, half \in 0 .. 1 |->
    At(b * 32 + i + 16 * half, Weight(Nibble(b * 20 + 4 + i, half), <<b * 20>>, <<-1, <<b * 20 + 2>>>>))]

dequant_row_q5_0_into(blocks) ==
  [b \in 0 .. blocks - 1, i \in 0 .. 15, half \in 0 .. 1 |->
    At(b * 32 + i + 16 * half,
       Weight(Append(Nibble(b * 22 + 6 + i, half), U32Bit(b * 22 + 2, i + 16 * half)),
              <<b * 22>>, <<16, <<b * 22>>>>))]

dequant_row_q5_1_into(blocks) ==
  [b \in 0 .. blocks - 1, i \in 0 .. 15, half \in 0 .. 1 |->
    At(b * 32 + i + 16 * half,
       Weight(Append(Nibble(b * 24 + 8 + i, half), U32Bit(b * 24 + 4, i + 16 * half)),
              <<b * 24>>, <<-1, <<b * 24 + 2>>>>))]

\* j counts the 64 weights that share 32 bytes: low nibbles first, then high.
dequant_row_q4_k_into(blocks) ==
  [b \in 0 .. blocks - 1, j \in 0 .. 3, l \in 0 .. 31, half \in 0 .. 1 |->
    LET base == b * 144
        sm   == get_scale_min_k4(2 * j + half, base + 4)
    IN  At(b * 256 + 64 * j + 32 * half + l,
           Weight(Nibble(base + 16 + 32 * j + l, half), <<base, sm.scale>>, <<1, <<base + 2, sm.min>>>>))]

\* The fifth bit comes from a plane of 32 bytes; the masks u1 and u2 move up
\* two bits with every 64 weights.
dequant_row_q5_k_into(blocks) ==
  [b \in 0 .. blocks - 1, j \in 0 .. 3, l \in 0 .. 31, half \in 0 .. 1 |->
    LET base == b * 176
        sm   == get_scale_min_k4(2 * j + half, base + 4)
        code == Append(Nibble(base + 48 + 32 * j + l, half), <<base + 16 + l, 2 * j + half>>)
    IN  At(b * 256 + 64 * j + 32 * half + l,
           Weight(code, <<base, sm.scale>>, <<1, <<base + 2, sm.min>>>>))]

\* q1 .. q4 of the decoder are quarters 0 .. 3: bytes l and l + 32 of the low
\* nibbles, then of the high ones, with two bits each of the same high byte.
dequant_row_q6_k_into(blocks) ==
  [b \in 0 .. blocks - 1, n \in 0 .. 1, l \in 0 .. 31, quarter \in 0 .. 3 |->
    LET base  == b * 210
        low   == Nibble(base + 64 * n + l + 32 * (quarter % 2), quarter \div 2)
        high  == Bits(base + 128 + 32 * n + l, 2 * quarter, 2)
        scale == <<base + 208, Int8(base + 192 + 8 * n + l \div 16 + 2 * quarter)>>
    IN  At(b * 256 + 128 * n + 32 * quarter + l, Weight(low \o high, scale, <<32, scale>>))]

\* Consecutive weights are the two nibbles of one byte; the scale follows.
dequant_row_mxfp4_into(blocks) ==
  [b \in 0 .. blocks - 1, i \in 0 .. 15, half \in 0 .. 1 |->
    At(b * 32 + 2 * i + half, Weight(Nibble(b * 17 + i, half), <<b * 17 + 16>>, Nothing))]

\* Elements past the last whole block are cleared.
clear_dequant_tail(cols, block) == {i \in 0 .. cols - 1 : i >= (cols \div block) * block}

\* Twice the value of an E2M1 nibble: the table of the decoder and, in half
\* units, the mantissas of the vector kernel.
mxfp4_nibble_to_f32 == <<0, 1, 2, 3, 4, 6, 8, 12, 0, -1, -2, -3, -4, -6, -8, -12>>
MANTISSAS           == <<0, 1, 2, 3, 4, 6, 8, 12, 0, -1, -2, -3, -4, -6, -8, -12>>

-----------------------------------------------------------------------------
(* The kernels. *)

Mul(x, weight)       == [x |-> x, w |-> weight]
Dot(products, sums)  == [products |-> products, sums |-> sums]
NoSums               == <<>>
Less(factor, by, xs) == [less |-> <<factor, by>>, xs |-> xs]
Tokens               == 0 .. KQUANT_BATCH_TOKENS - 1

\* What bsums[group] of the quantised activations adds up.
Group(group)         == {<<i, group \div 8>> : i \in 32 * group .. 32 * group + 31}
GroupOf(t, group)    == {<<i, group \div 8, t>> : i \in 32 * group .. 32 * group + 31}
Run(from, n)         == {<<i>> : i \in from .. from + n - 1}

\* A slip: the pairs without the odd block behind them.
PairsOnly(blocks) ==
  {p \in (0 .. blocks - 1) \X (0 .. 1) : p[1] % 2 = 0 /\ p[1] + 1 < blocks}

\* Blocks two by two, and the odd one left: <<start of the pair, which>>.
Paired(blocks) ==
  {p \in (0 .. blocks - 1) \X (0 .. 1) : p[1] % 2 = 0 /\ (p[1] + 1 < blocks \/ p[2] = 0)}

(***************************************************************************)
(* f32 activations                                                         *)
(***************************************************************************)
dot_q8_0_f32_scalar(blocks) ==
  Dot([b \in 0 .. blocks - 1, i \in 0 .. 31 |->
        Mul(<<b * 32 + i>>, Weight(Int8(b * 34 + 2 + i), <<b * 34>>, Nothing))], NoSums)

dot_q8_0_block_f32_neon(b, i, part, lane) ==
  LET n == 8 * i + 4 * part + lane
  IN  Mul(<<b * 32 + n>>, Weight(Int8(b * 34 + 2 + n), <<b * 34>>, Nothing))

dot_q8_0_f32_neon(blocks) ==
  Dot([p \in Paired(blocks), i \in 0 .. 3, part \in 0 .. 1, lane \in 0 .. 3 |->
        dot_q8_0_block_f32_neon(p[1] + p[2], i, part, lane)], NoSums)

dot_q8_0_f32_avx2(blocks) ==
  Dot([b \in 0 .. blocks - 1, i \in 0 .. 3, lane \in 0 .. 7 |->
        Mul(<<b * 32 + 8 * i + lane>>, Weight(Int8(b * 34 + 2 + 8 * i + lane), <<b * 34>>, Nothing))], NoSums)

dot_q8_1_f32_scalar(blocks) ==
  Dot([b \in 0 .. blocks - 1, i \in 0 .. 31 |->
        Mul(<<b * 32 + i>>, Weight(Int8(b * 36 + 4 + i), <<b * 36>>, Nothing))], NoSums)

dot_q4_0_f32_scalar(blocks) ==
  Dot([b \in 0 .. blocks - 1, i \in 0 .. 15, half \in 0 .. 1 |->
        Mul(<<b * 32 + i + 16 * half>>,
            Weight(Nibble(b * 18 + 2 + i, half), <<b * 18>>, <<8, <<b * 18>>>>))], NoSums)

\* Four lanes at a time: the low nibbles' bytes meet x[0 .. 15], the high x[16 .. 31].
dot_q4_0_block_f32_neon(b, half, part, lane) ==
  LET byte == 4 * part + lane
  IN  Mul(<<b * 32 + 16 * half + 4 * part + lane>>,
          Weight(Nibble(b * 18 + 2 + byte, half), <<b * 18>>, <<8, <<b * 18>>>>))

dot_q4_0_f32_neon(blocks) ==
  Dot([p \in Paired(blocks), half \in 0 .. 1, part \in 0 .. 3, lane \in 0 .. 3 |->
        dot_q4_0_block_f32_neon(p[1] + p[2], half, part, lane)], NoSums)

\* process8: nibbles shifted down by 8 bytes for the second half of a register.
dot_q4_0_f32_avx2(blocks) ==
  Dot([b \in 0 .. blocks - 1, half \in 0 .. 1, shift \in {0, 8}, lane \in 0 .. 7 |->
        Mul(<<b * 32 + 16 * half + shift + lane>>,
            Weight(Nibble(b * 18 + 2 + shift + lane, half), <<b * 18>>, <<8, <<b * 18>>>>))], NoSums)

dot_q4_1_f32_scalar(blocks) ==
  Dot([b \in 0 .. blocks - 1, i \in 0 .. 15, half \in 0 .. 1 |->
        Mul(<<b * 32 + i + 16 * half>>, Weight(Nibble(b * 20 + 4 + i, half), <<b * 20>>, Nothing))],
      [b \in 0 .. blocks - 1, i \in 0 .. 15 |->
        Less(-1, <<b * 20 + 2>>, {<<b * 32 + i>>, <<b * 32 + i + 16>>})])

dot_q5_0_f32_scalar(blocks) ==
  Dot([b \in 0 .. blocks - 1, i \in 0 .. 15, half \in 0 .. 1 |->
        Mul(<<b * 32 + i + 16 * half>>,
            Weight(Append(Nibble(b * 22 + 6 + i, half), U32Bit(b * 22 + 2, i + 16 * half)),
                   <<b * 22>>, <<16, <<b * 22>>>>))], NoSums)

dot_q5_1_f32_scalar(blocks) ==
  Dot([b \in 0 .. blocks - 1, i \in 0 .. 15, half \in 0 .. 1 |->
        Mul(<<b * 32 + i + 16 * half>>,
            Weight(Append(Nibble(b * 24 + 8 + i, half), U32Bit(b * 24 + 4, i + 16 * half)),
                   <<b * 24>>, Nothing))],
      [b \in 0 .. blocks - 1, i \in 0 .. 15 |->
        Less(-1, <<b * 24 + 2>>, {<<b * 32 + i>>, <<b * 32 + i + 16>>})])

\* Four accumulators a .. d (k) for bytes l, l + 1, l + 2 and l + 3.
dot_q4_k_f32_scalar(blocks) ==
  Dot([b \in 0 .. blocks - 1, j \in 0 .. 3, l \in {0, 4, 8, 12, 16, 20, 24, 28}, k \in 0 .. 3, half \in 0 .. 1 |->
        Mul(<<b * 256 + 64 * j + 32 * half + l + k>>,
            Weight(Nibble(b * 144 + 16 + 32 * j + l + k, half),
                   <<b * 144, get_scale_min_k4(2 * j + half, b * 144 + 4).scale>>, Nothing))],
      [b \in 0 .. blocks - 1, j \in 0 .. 3, half \in 0 .. 1 |->
        Less(1, <<b * 144 + 2, get_scale_min_k4(2 * j + half, b * 144 + 4).min>>,
             Run(b * 256 + 64 * j + 32 * half, 32))])

\* Eight bytes at a time, each nibble half in two registers of four.
dot_q4_k_f32_neon(blocks) ==
  Dot([b \in 0 .. blocks - 1, chunk \in 0 .. 3, i \in 0 .. 3, half \in 0 .. 1, part \in 0 .. 1, lane \in 0 .. 3 |->
        Mul(<<b * 256 + 64 * chunk + 32 * half + 8 * i + 4 * part + lane>>,
            Weight(Nibble(b * 144 + 16 + 32 * chunk + 8 * i + 4 * part + lane, half),
                   <<b * 144, get_scale_min_k4(2 * chunk + half, b * 144 + 4).scale>>, Nothing))],
      [b \in 0 .. blocks - 1, chunk \in 0 .. 3, i \in 0 .. 3, half \in 0 .. 1, part \in 0 .. 1 |->
        Less(1, <<b * 144 + 2, get_scale_min_k4(2 * chunk + half, b * 144 + 4).min>>,
             Run(b * 256 + 64 * chunk + 32 * half + 8 * i + 4 * part, 4))])

dot_q5_k_f32_scalar(blocks) ==
  Dot([b \in 0 .. blocks - 1, j \in 0 .. 3, l \in 0 .. 31, half \in 0 .. 1 |->
        Mul(<<b * 256 + 64 * j + 32 * half + l>>,
            Weight(Append(Nibble(b * 176 + 48 + 32 * j + l, half), <<b * 176 + 16 + l, 2 * j + half>>),
                   <<b * 176, get_scale_min_k4(2 * j + half, b * 176 + 4).scale>>, Nothing))],
      [b \in 0 .. blocks - 1, j \in 0 .. 3, half \in 0 .. 1 |->
        Less(1, <<b * 176 + 2, get_scale_min_k4(2 * j + half, b * 176 + 4).min>>,
             Run(b * 256 + 64 * j + 32 * half, 32))])

\* accumulate_u8x16: sixteen codes in four registers of four.
dot_q5_k_f32_neon(blocks) ==
  Dot([b \in 0 .. blocks - 1, chunk \in 0 .. 3, from \in {0, 16}, half \in 0 .. 1, part \in 0 .. 3, lane \in 0 .. 3 |->
        LET n == from + 4 * part + lane
        IN  Mul(<<b * 256 + 64 * chunk + 32 * half + n>>,
                Weight(Append(Nibble(b * 176 + 48 + 32 * chunk + n, half), <<b * 176 + 16 + n, 2 * chunk + half>>),
                       <<b * 176, get_scale_min_k4(2 * chunk + half, b * 176 + 4).scale>>, Nothing))],
      [b \in 0 .. blocks - 1, chunk \in 0 .. 3, from \in {0, 16}, half \in 0 .. 1, part \in 0 .. 3 |->
        Less(1, <<b * 176 + 2, get_scale_min_k4(2 * chunk + half, b * 176 + 4).min>>,
             Run(b * 256 + 64 * chunk + 32 * half + from + 4 * part, 4))])

\* Weight `quarter` of byte l in group `grp`, with the 32 taken off its code.
Q6Weight(b, grp, l, quarter) ==
  LET scale == <<b * 210 + 208, Int8(b * 210 + 192 + 8 * grp + l \div 16 + 2 * quarter)>>
      low   == b * 210 + 64 * grp + l + 32 * (quarter % 2)
  IN  Weight(Nibble(low, quarter \div 2) \o Bits(b * 210 + 128 + 32 * grp + l, 2 * quarter, 2),
             scale, <<32, scale>>)

dot_q6_k_f32_scalar(blocks) ==
  Dot([b \in 0 .. blocks - 1, n \in {0, 128}, l \in 0 .. 31, quarter \in 0 .. 3 |->
        Mul(<<b * 256 + n + 32 * quarter + l>>, Q6Weight(b, n \div 128, l, quarter))], NoSums)

\* dot16: sixteen codes in four registers of four.
dot_q6_k_f32_neon(blocks) ==
  Dot([b \in 0 .. blocks - 1, grp \in 0 .. 1, half \in 0 .. 1, quarter \in 0 .. 3, part \in 0 .. 3, lane \in 0 .. 3 |->
        LET l == 16 * half + 4 * part + lane
        IN  Mul(<<b * 256 + 128 * grp + l + 32 * quarter>>, Q6Weight(b, grp, l, quarter))], NoSums)

dot_mxfp4_f32_scalar(blocks) ==
  Dot([b \in 0 .. blocks - 1, i \in 0 .. 15, half \in 0 .. 1 |->
        Mul(<<b * 32 + 2 * i + half>>, Weight(Nibble(b * 17 + i, half), <<b * 17 + 16>>, Nothing))], NoSums)

\* vld2q splits eight activations into the four even and the four odd ones:
\* the even meet low nibbles, the odd high ones.
dot_mxfp4_block_f32_neon(b, group, odd, lane) ==
  Mul(<<b * 32 + 8 * group + 2 * lane + odd>>,
      Weight(Nibble(b * 17 + 4 * group + lane, odd), <<b * 17 + 16>>, Nothing))

dot_mxfp4_f32_neon(blocks) ==
  Dot([p \in Paired(blocks), group \in 0 .. 3, odd \in 0 .. 1, lane \in 0 .. 3 |->
        dot_mxfp4_block_f32_neon(p[1] + p[2], group, odd, lane)], NoSums)

(***************************************************************************)
(* Activations quantised to int8, one token                                *)
(***************************************************************************)
\* A Q4_K or Q5_K row keeps its minima out of the products: m(is) * bsums[is].
MinimaQ8k(blocks, size) ==
  [b \in 0 .. blocks - 1, c \in 0 .. 3, half \in 0 .. 1 |->
    Less(1, <<b * size + 2, get_scale_min_k4(2 * c + half, b * size + 4).min>>, Group(8 * b + 2 * c + half))]

dot_q4_k_q8k_neon(blocks) ==
  Dot([b \in 0 .. blocks - 1, c \in 0 .. 3, half \in 0 .. 1, part \in 0 .. 1, lane \in 0 .. 15 |->
        Mul(<<b * 256 + 64 * c + 32 * half + 16 * part + lane, b>>,
            Weight(Nibble(b * 144 + 16 + 32 * c + 16 * part + lane, half),
                   <<b * 144, get_scale_min_k4(2 * c + half, b * 144 + 4).scale>>, Nothing))],
      MinimaQ8k(blocks, 144))

dot_q5_k_q8k_neon(blocks) ==
  Dot([b \in 0 .. blocks - 1, c \in 0 .. 3, half \in 0 .. 1, part \in 0 .. 1, lane \in 0 .. 15 |->
        LET n == 16 * part + lane
        IN  Mul(<<b * 256 + 64 * c + 32 * half + n, b>>,
                Weight(Append(Nibble(b * 176 + 48 + 32 * c + n, half), <<b * 176 + 16 + n, 2 * c + half>>),
                       <<b * 176, get_scale_min_k4(2 * c + half, b * 176 + 4).scale>>, Nothing))],
      MinimaQ8k(blocks, 176))

dot_q6_k_q8k_neon(blocks) ==
  Dot([b \in 0 .. blocks - 1, grp \in 0 .. 1, half \in 0 .. 1, quarter \in 0 .. 3, lane \in 0 .. 15 |->
        Mul(<<b * 256 + 128 * grp + 16 * half + 32 * quarter + lane, b>>,
            Q6Weight(b, grp, 16 * half + lane, quarter))], NoSums)

\* Eight blocks of 32 share the scale of one block of 256 activations.
dot_q4_0_q8k_neon(supers) ==
  Dot([sb \in 0 .. supers - 1, pair \in 0 .. 3, which \in 0 .. 1, half \in 0 .. 1, lane \in 0 .. 15 |->
        LET blk == 8 * sb + 2 * pair + which
        IN  Mul(<<sb * 256 + (2 * pair + which) * 32 + 16 * half + lane, sb>>,
                Weight(Nibble(blk * 18 + 2 + lane, half), <<blk * 18>>, <<8, <<blk * 18>>>>))], NoSums)

dot_q8_0_q8k_neon(supers) ==
  Dot([sb \in 0 .. supers - 1, pair \in 0 .. 3, which \in 0 .. 1, part \in 0 .. 1, lane \in 0 .. 15 |->
        LET blk == 8 * sb + 2 * pair + which
        IN  Mul(<<sb * 256 + (2 * pair + which) * 32 + 16 * part + lane, sb>>,
                Weight(Int8(blk * 34 + 2 + 16 * part + lane), <<blk * 34>>, Nothing))], NoSums)

dot_q4_k_q8k_avx2(blocks) ==
  Dot([b \in 0 .. blocks - 1, c \in 0 .. 3, half \in 0 .. 1, lane \in 0 .. 31 |->
        Mul(<<b * 256 + 64 * c + 32 * half + lane, b>>,
            Weight(Nibble(b * 144 + 16 + 32 * c + lane, half),
                   <<b * 144, get_scale_min_k4(2 * c + half, b * 144 + 4).scale>>, Nothing))],
      MinimaQ8k(blocks, 144))

dot_q5_k_q8k_avx2(blocks) ==
  Dot([b \in 0 .. blocks - 1, c \in 0 .. 3, half \in 0 .. 1, lane \in 0 .. 31 |->
        Mul(<<b * 256 + 64 * c + 32 * half + lane, b>>,
            Weight(Append(Nibble(b * 176 + 48 + 32 * c + lane, half), <<b * 176 + 16 + lane, 2 * c + half>>),
                   <<b * 176, get_scale_min_k4(2 * c + half, b * 176 + 4).scale>>, Nothing))],
      MinimaQ8k(blocks, 176))

\* The scale register holds sc_a in its lower lanes and sc_b in its upper ones.
dot_q6_k_q8k_avx2(blocks) ==
  Dot([b \in 0 .. blocks - 1, g \in 0 .. 1, idx \in 0 .. 3, lane \in 0 .. 31 |->
        LET sc == <<b * 210 + 208, Int8(b * 210 + 192 + 8 * g + 2 * idx + lane \div 16)>>
            ql == b * 210 + 64 * g + 32 * (idx % 2) + lane
        IN  Mul(<<b * 256 + 128 * g + 32 * idx + lane, b>>,
                Weight(Nibble(ql, idx \div 2) \o Bits(b * 210 + 128 + 32 * g + lane, 2 * idx, 2), sc, <<32, sc>>))],
      NoSums)

\* Codes stay unsigned: the 8 comes off as 8 * scale * bsums at the end.
dot_q4_0_q8k_avx2(supers) ==
  Dot([sb \in 0 .. supers - 1, blk \in 0 .. 7, lane \in 0 .. 31 |->
        LET block == (8 * sb + blk) * 18
        IN  Mul(<<sb * 256 + blk * 32 + lane, sb>>,
                Weight(Nibble(block + 2 + (lane % 16), lane \div 16), <<block>>, Nothing))],
      [sb \in 0 .. supers - 1, blk \in 0 .. 7 |->
        Less(8, <<(8 * sb + blk) * 18>>, Group(8 * sb + blk))])

dot_q8_0_q8k_avx2(supers) ==
  Dot([sb \in 0 .. supers - 1, blk \in 0 .. 7, lane \in 0 .. 31 |->
        LET block == (8 * sb + blk) * 34
        IN  Mul(<<sb * 256 + blk * 32 + lane, sb>>, Weight(Int8(block + 2 + lane), <<block>>, Nothing))], NoSums)

(***************************************************************************)
(* Four tokens against one row: the row is unpacked once for all           *)
(***************************************************************************)
MinimaX4(blocks, size) ==
  [b \in 0 .. blocks - 1, c \in 0 .. 3, half \in 0 .. 1, t \in Tokens |->
    Less(1, <<b * size + 2, get_scale_min_k4(2 * c + half, b * size + 4).min>>, GroupOf(t, 8 * b + 2 * c + half))]

dot_q4_k_q8k_neon_x4(blocks) ==
  Dot([b \in 0 .. blocks - 1, c \in 0 .. 3, half \in 0 .. 1, part \in 0 .. 1, t \in Tokens, lane \in 0 .. 15 |->
        Mul(<<b * 256 + 64 * c + 32 * half + 16 * part + lane, b, t>>,
            Weight(Nibble(b * 144 + 16 + 32 * c + 16 * part + lane, half),
                   <<b * 144, get_scale_min_k4(2 * c + half, b * 144 + 4).scale>>, Nothing))],
      MinimaX4(blocks, 144))

dot_q5_k_q8k_neon_x4(blocks) ==
  Dot([b \in 0 .. blocks - 1, c \in 0 .. 3, half \in 0 .. 1, part \in 0 .. 1, t \in Tokens, lane \in 0 .. 15 |->
        LET n == 16 * part + lane
        IN  Mul(<<b * 256 + 64 * c + 32 * half + n, b, t>>,
                Weight(Append(Nibble(b * 176 + 48 + 32 * c + n, half), <<b * 176 + 16 + n, 2 * c + half>>),
                       <<b * 176, get_scale_min_k4(2 * c + half, b * 176 + 4).scale>>, Nothing))],
      MinimaX4(blocks, 176))

dot_q6_k_q8k_neon_x4(blocks) ==
  Dot([b \in 0 .. blocks - 1, grp \in 0 .. 1, half \in 0 .. 1, t \in Tokens, quarter \in 0 .. 3, lane \in 0 .. 15 |->
        Mul(<<b * 256 + 128 * grp + 16 * half + 32 * quarter + lane, b, t>>,
            Q6Weight(b, grp, 16 * half + lane, quarter))], NoSums)

dot_q4_k_q8k_avx2_x4(blocks) ==
  Dot([b \in 0 .. blocks - 1, c \in 0 .. 3, t \in Tokens, half \in 0 .. 1, lane \in 0 .. 31 |->
        Mul(<<b * 256 + 64 * c + 32 * half + lane, b, t>>,
            Weight(Nibble(b * 144 + 16 + 32 * c + lane, half),
                   <<b * 144, get_scale_min_k4(2 * c + half, b * 144 + 4).scale>>, Nothing))],
      MinimaX4(blocks, 144))

dot_q5_k_q8k_avx2_x4(blocks) ==
  Dot([b \in 0 .. blocks - 1, c \in 0 .. 3, t \in Tokens, half \in 0 .. 1, lane \in 0 .. 31 |->
        Mul(<<b * 256 + 64 * c + 32 * half + lane, b, t>>,
            Weight(Append(Nibble(b * 176 + 48 + 32 * c + lane, half), <<b * 176 + 16 + lane, 2 * c + half>>),
                   <<b * 176, get_scale_min_k4(2 * c + half, b * 176 + 4).scale>>, Nothing))],
      MinimaX4(blocks, 176))

dot_q6_k_q8k_avx2_x4(blocks) ==
  Dot([b \in 0 .. blocks - 1, g \in 0 .. 1, idx \in 0 .. 3, t \in Tokens, lane \in 0 .. 31 |->
        LET sc == <<b * 210 + 208, Int8(b * 210 + 192 + 8 * g + 2 * idx + lane \div 16)>>
            ql == b * 210 + 64 * g + 32 * (idx % 2) + lane
        IN  Mul(<<b * 256 + 128 * g + 32 * idx + lane, b, t>>,
                Weight(Nibble(ql, idx \div 2) \o Bits(b * 210 + 128 + 32 * g + lane, 2 * idx, 2), sc, <<32, sc>>))],
      NoSums)

(***************************************************************************)
(* The activation quantiser                                                *)
(***************************************************************************)
AbsOf(v) == IF v < 0 THEN -v ELSE v

\* round_ties_even (cvtps and vcvtnq round alike) of n / m.
RoundTiesEven(n, m) ==
  LET down == n \div m
      rest == 2 * (n % m)
  IN  IF rest < m \/ (rest = m /\ down % 2 = 0) THEN down ELSE down + 1

\* The int8 of an activation v in a block whose largest magnitude is amax.
quantize_row_q8k_scalar(v, amax) == IF amax > 0 THEN RoundTiesEven(127 * v, amax) ELSE 0

\* quantize16_q8 narrows four registers in order; a group is two of them.
quantize_row_q8k_neon(sub) ==
  [n \in 1 .. 32 |-> 32 * sub + 16 * ((n - 1) \div 16) + 4 * (((n - 1) % 16) \div 4) + ((n - 1) % 4)]

\* AVX2 packs work within 128-bit halves; the permutation of 32-bit groups
\* puts the elements back in order.
Packs(a, b) ==
  LET half == Len(a) \div 2
  IN  SubSeq(a, 1, half) \o SubSeq(b, 1, half) \o SubSeq(a, half + 1, Len(a)) \o SubSeq(b, half + 1, Len(b))

quantize_row_q8k_avx2(sub) ==
  LET perm    == <<0, 4, 1, 5, 2, 6, 3, 7>>
      i(k)    == [n \in 1 .. 8 |-> 32 * sub + 8 * k + n - 1]
      packed  == Packs(Packs(i(0), i(1)), Packs(i(2), i(3)))
  IN  [n \in 1 .. 32 |-> packed[4 * perm[(n - 1) \div 4 + 1] + ((n - 1) % 4) + 1]]

\* prepare_batch_xq: where token t's quants, scales and group sums lie in the
\* batch's buffers (the three slices it copies into).
prepare_batch_xq(t, cols) ==
  LET blocks == cols \div 256
  IN  [qs    |-> {t * cols + i : i \in 0 .. cols - 1},
       d     |-> {t * blocks + i : i \in 0 .. blocks - 1},
       bsums |-> {t * blocks * 8 + i : i \in 0 .. blocks * 8 - 1}]
=============================================================================
