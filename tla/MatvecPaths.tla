----------------------------- MODULE MatvecPaths ----------------------------
(***************************************************************************)
(* The ways a projection is computed (simd.rs): one matrix and one vector, *)
(* two or three matrices fused on a shared vector, and batches of vectors; *)
(* on Metal when it takes the call, otherwise on the worker pool.          *)
(*                                                                         *)
(* A matrix is its kind, rows, columns and the bytes given for it.  The    *)
(* machine says which architecture the build is for, whether its integer   *)
(* and fused instructions are there, how many threads run and which calls  *)
(* Metal takes.  An output is what was computed for each of its elements:  *)
(* <<index in the buffer, kernel, first byte of the row, token, token      *)
(* whose quantised activations were read>>.                                *)
(***************************************************************************)
EXTENDS Integers, Sequences, Functions

CONSTANT KQUANT_BATCH_TOKENS

ASSUME LanesAssumption == KQUANT_BATCH_TOKENS \in Nat \ {0}

NoXq    == -1
Refused == [ok |-> FALSE, out |-> <<>>]
Done(out) == [ok |-> TRUE, out |-> out]
NoMatrix(kind, cols) == [kind |-> kind, rows |-> 0, cols |-> cols, bytes |-> 0]

KQuants    == {"Q4K", "Q5K", "Q6K"}
BlockBytes == [Q8_0 |-> 34, Q8_1 |-> 36, Q4_0 |-> 18, Q4_1 |-> 20, Q5_0 |-> 22, Q5_1 |-> 24,
               Q4K |-> 144, Q5K |-> 176, Q6K |-> 210, Mxfp4 |-> 17]

block_size(kind) == IF kind \in KQuants THEN 256 ELSE 32
\* Bytes of a row, 0 when a row is not a whole number of blocks.
row_bytes(kind, cols) ==
  IF cols = 0 \/ cols % block_size(kind) # 0 THEN 0
  ELSE (cols \div block_size(kind)) * BlockBytes[kind]

is_mixed_kquant3(a, b, c) == {a, b, c} \subseteq KQuants /\ ~(a = b /\ b = c)
matvec_kind_uses_xq(kind) == kind \in KQuants \cup {"Q4_0", "Q8_0"}

(***************************************************************************)
(* One row                                                                 *)
(***************************************************************************)
\* The f32 kernel of a kind on this machine.
float_kernel(m, kind) ==
  CASE kind \in {"Q8_0", "Q4_0"} ->
         IF m.arch = "arm" THEN "f32_neon" ELSE IF m.arch = "x86" /\ m.simd THEN "f32_avx2" ELSE "f32_scalar"
    [] kind \in KQuants \cup {"Mxfp4"} -> IF m.arch = "arm" THEN "f32_neon" ELSE "f32_scalar"
    [] OTHER -> "f32_scalar"

dot_row(m, w, xq, row, token) ==
  LET at == row * row_bytes(w.kind, w.cols) IN
  IF matvec_kind_uses_xq(w.kind) /\ xq # NoXq
  THEN [kernel |-> "q8k", at |-> at, x |-> token, xq |-> xq]
  ELSE [kernel |-> float_kernel(m, w.kind), at |-> at, x |-> token, xq |-> NoXq]

\* Four activations at once where a blocked kernel exists, in the order of
\* the one-token kernel; otherwise one after the other.
dot_row_x4(m, w, tokens, xqs, row) ==
  [t \in DOMAIN tokens |->
    IF Len(tokens) = KQUANT_BATCH_TOKENS /\ (\A k \in DOMAIN xqs : xqs[k] # NoXq) /\ w.kind \in KQuants
    THEN [kernel |-> "q8k", at |-> row * row_bytes(w.kind, w.cols), x |-> tokens[t], xq |-> xqs[t]]
    ELSE dot_row(m, w, xqs[t], row, tokens[t])]

\* The activations, quantised for the integer kernels where there are any.
prepare_xq_kquant(m, cols, token) ==
  IF m.arch \in {"arm", "x86"} /\ cols >= 256 /\ cols % 256 = 0 /\ m.simd THEN token ELSE NoXq
prepare_xq(m, kind, cols, token) ==
  IF matvec_kind_uses_xq(kind) THEN prepare_xq_kquant(m, cols, token) ELSE NoXq
BatchQuantised(m, cols) ==
  m.arch \in {"arm", "x86"} /\ m.simd /\ cols # 0 /\ cols % 256 = 0

Rows(m, w, xq, token) == {<<r, dot_row(m, w, xq, r, token)>> : r \in 0 .. w.rows - 1}
OnMetal(w)            == {<<r, [kernel |-> "metal", at |-> r * row_bytes(w.kind, w.cols), x |-> 0, xq |-> NoXq]>> :
                            r \in 0 .. w.rows - 1}

(***************************************************************************)
(* One matrix, one vector                                                  *)
(***************************************************************************)
parallel_matvec(m, w) ==
  LET threads == IF m.threads < w.rows THEN m.threads ELSE w.rows IN
  IF threads <= 1 \/ w.rows < threads * 8
  THEN Rows(m, w, prepare_xq(m, w.kind, w.cols, 0), 0)
  ELSE IF m.arch = "wasm" THEN Rows(m, w, NoXq, 0)
  ELSE Rows(m, w, prepare_xq(m, w.kind, w.cols, 0), 0)

SingleCall(kind)      == IF kind = "Q4K" THEN "q4k" ELSE IF kind = "Q6K" THEN "q6k" ELSE ""

\* Metal takes whole blocks and matrices that have rows.
Takes(m, call, ws)  == call \in m.metal /\ \A k \in DOMAIN ws : ws[k].rows > 0 /\ ws[k].cols # 0 /\ ws[k].cols % 256 = 0
TakenSingly(m, w)   == Takes(m, SingleCall(w.kind), <<w>>)

\* Formats of 32 weights (and f32) always run here, K-quants ask Metal first
\* (Q5_K has no Metal kernel).
matvec_small_into(m, w) == parallel_matvec(m, w)
matvec_k_into(m, w)     == IF TakenSingly(m, w) THEN OnMetal(w) ELSE parallel_matvec(m, w)
matvec_into(m, w)       == IF w.kind \in KQuants THEN matvec_k_into(m, w) ELSE matvec_small_into(m, w)

\* The allocating variants assert that the bytes suffice.
BytesOf(w) == w.rows * row_bytes(w.kind, w.cols)
matvec_small(m, w) == IF w.bytes < BytesOf(w) THEN Refused ELSE Done(<<matvec_small_into(m, w)>>)
matvec_k(m, w)     == IF w.bytes < BytesOf(w) THEN Refused ELSE Done(<<matvec_k_into(m, w)>>)

(***************************************************************************)
(* Fused projections of one vector                                         *)
(***************************************************************************)
SameCols(ws, len) == \A k \in DOMAIN ws : ws[k].cols = len
EnoughBytes(ws)   == \A k \in DOMAIN ws : ws[k].bytes >= BytesOf(ws[k])
WholeBlocks(ws)   == \A k \in DOMAIN ws : row_bytes(ws[k].kind, ws[k].cols) # 0

\* Q4KMatvec3Job: the vector is quantised once for all projections.
Fused(m, ws) == LET xq == prepare_xq_kquant(m, ws[1].cols, 0) IN [k \in DOMAIN ws |-> Rows(m, ws[k], xq, 0)]
AllOnMetal(ws) == [k \in DOMAIN ws |-> OnMetal(ws[k])]

\* The fused Metal call for these kinds.
MetalCall(ws) ==
  LET kinds == [k \in DOMAIN ws |-> ws[k].kind] IN
  CASE kinds = <<"Q4K", "Q4K", "Q4K">> -> "q4k3" [] kinds = <<"Q6K", "Q6K", "Q6K">> -> "q6k3"
    [] kinds = <<"Q4K", "Q4K", "Q6K">> -> "q4k_q4k_q6k"
    [] kinds = <<"Q4K", "Q4K">> -> "q4k2" [] kinds = <<"Q6K", "Q6K">> -> "q6k2"
    [] OTHER -> ""

\* All in one Metal call, or each on Metal that it takes and the others on the
\* pool; refused when Metal takes none.
try_quant_metal(m, ws) ==
  LET used == {k \in DOMAIN ws : TakenSingly(m, ws[k])} IN
  IF Takes(m, MetalCall(ws), ws) THEN Done(AllOnMetal(ws))
  ELSE IF used = {} THEN Refused
  ELSE Done([k \in DOMAIN ws |-> IF k \in used THEN OnMetal(ws[k]) ELSE parallel_matvec(m, ws[k])])

matvec_q4_k3_into(m, ws, len) ==
  IF ~WholeBlocks(ws) \/ ~SameCols(ws, len) \/ ~EnoughBytes(ws) THEN Refused
  ELSE IF Takes(m, MetalCall(ws), ws) THEN Done(AllOnMetal(ws))
  ELSE Done(Fused(m, ws))

matvec_q4_k2_into(m, ws, len) == matvec_q4_k3_into(m, ws, len)

matvec_kquant3_into(m, ws, len) ==
  LET metal == try_quant_metal(m, ws) IN
  IF ~WholeBlocks(ws) \/ ~SameCols(ws, len) \/ ~EnoughBytes(ws) THEN Refused
  ELSE IF metal.ok THEN metal
  ELSE Done(Fused(m, ws))

\* Three different K-quants are left to the caller once Metal has declined.
matvec_quant3_into(m, ws, len) ==
  LET metal == try_quant_metal(m, ws) IN
  IF ~SameCols(ws, len) \/ ~WholeBlocks(ws) \/ ~EnoughBytes(ws) THEN Refused
  ELSE IF metal.ok THEN metal
  ELSE IF is_mixed_kquant3(ws[1].kind, ws[2].kind, ws[3].kind) THEN Refused
  ELSE Done(Fused(m, ws))

matvec_quant2_into(m, ws, len) ==
  LET metal == try_quant_metal(m, ws) IN
  IF ~SameCols(ws, len) \/ ~WholeBlocks(ws) \/ ~EnoughBytes(ws) THEN Refused
  ELSE IF metal.ok THEN metal
  ELSE Done(Fused(m, ws))

\* Three and two projections of one K-quant kind; only Q6_K asks Metal first.
matvec_k2_into(m, ws, len) ==
  IF ~WholeBlocks(ws) \/ ~SameCols(ws, len) \/ ~EnoughBytes(ws) THEN Refused ELSE Done(Fused(m, ws))

matvec_q6_k_fused_into(m, ws, len) ==
  IF SameCols(ws, len) /\ Takes(m, MetalCall(ws), ws) THEN Done(AllOnMetal(ws))
  ELSE IF Len(ws) = 3 THEN matvec_kquant3_into(m, ws, len) ELSE matvec_k2_into(m, ws, len)
matvec_q5_k_fused_into(m, ws, len) ==
  IF Len(ws) = 3 THEN matvec_kquant3_into(m, ws, len) ELSE matvec_k2_into(m, ws, len)

(***************************************************************************)
(* Batches                                                                 *)
(***************************************************************************)
\* run_kquant_batch3: rows are shared out when every worker gets one.
ProjectionRows(ws) == FoldFunction(+, 0, [k \in DOMAIN ws |-> ws[k].rows])
Schedule(m, ws)    == IF ProjectionRows(ws) >= m.threads THEN "rows" ELSE "tokens"

\* What xq_for_token hands out: the token's slice of the batch's quantised
\* activations, or this thread's scratch.
xq_for_token(m, cols, token) ==
  IF BatchQuantised(m, cols) THEN token ELSE prepare_xq_kquant(m, cols, token)

\* One worker owns whole tokens.
run_token_worker(m, w, tokens) ==
  {<<t * w.rows + r, dot_row(m, w, xq_for_token(m, w.cols, t), r, t)>> :
     t \in 0 .. tokens - 1, r \in 0 .. w.rows - 1}

\* One worker owns rows; tokens go through in groups of four where the batch
\* was quantised together, one by one otherwise.
LaneStride(m, cols) == IF BatchQuantised(m, cols) THEN KQUANT_BATCH_TOKENS ELSE 1
\* A bug for ProjectionsAgree to find: the tokens after the last full group are
\* left out.
FullGroup(base, stride, tokens) ==
  [k \in 1 .. (IF tokens - base < stride THEN 0 ELSE stride) |-> base + k - 1]

LaneGroup(base, stride, tokens) ==
  [k \in 1 .. (IF tokens - base < stride THEN tokens - base ELSE stride) |-> base + k - 1]

run_row_range(m, w, tokens) ==
  LET stride == LaneStride(m, w.cols)
      bases  == {t \in 0 .. tokens - 1 : t % stride = 0}
      Lanes(base) == LaneGroup(base, stride, tokens)
      Xqs(base)   == [k \in DOMAIN Lanes(base) |-> xq_for_token(m, w.cols, Lanes(base)[k])]
  IN  UNION {{<<(base + k - 1) * w.rows + r, dot_row_x4(m, w, Lanes(base), Xqs(base), r)[k]>> :
                k \in DOMAIN Lanes(base), r \in 0 .. w.rows - 1} : base \in bases}

\* Without the pool, the vectors go through the fused call one by one.
TokenByToken(m, ws, tokens) ==
  LET one == matvec_quant3_into(m, ws, ws[1].cols)
      Moved(v, t) == [v EXCEPT !.x = t]
  IN  IF tokens = 0 THEN Done([k \in DOMAIN ws |-> {}])
      ELSE IF ~one.ok THEN Refused
      ELSE Done([k \in DOMAIN ws |->
             {<<t * ws[k].rows + e[1], Moved(e[2], t)>> : t \in 0 .. tokens - 1, e \in one.out[k]}])

matvec_quant3_batch_into(m, ws, len) ==
  LET cols   == ws[1].cols
      tokens == len \div cols
  IN  IF cols = 0 \/ ~SameCols(ws, cols) \/ len % cols # 0 \/ ~WholeBlocks(ws) \/ ~EnoughBytes(ws) THEN Refused
      ELSE IF m.arch = "wasm" THEN TokenByToken(m, ws, tokens)
      ELSE Done([k \in DOMAIN ws |->
             IF Schedule(m, ws) = "tokens" THEN run_token_worker(m, ws[k], tokens) ELSE run_row_range(m, ws[k], tokens)])

matvec_quant2_batch_into(m, ws, len) ==
  matvec_quant3_batch_into(m, Append(ws, NoMatrix(ws[1].kind, ws[1].cols)), len)
matvec_quant_batch_into(m, ws, len) ==
  matvec_quant3_batch_into(m, ws \o <<NoMatrix(ws[1].kind, ws[1].cols), NoMatrix(ws[1].kind, ws[1].cols)>>, len)
\* The K-quant entry points only translate the kind.
matvec_kquant3_batch_into(m, ws, len) == matvec_quant3_batch_into(m, ws, len)
=============================================================================
