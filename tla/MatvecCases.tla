----------------------------- MODULE MatvecCases ----------------------------
(***************************************************************************)
(* Fused and batched projections over kinds, shapes and machines, against  *)
(* one matrix and one vector at a time.                                    *)
(***************************************************************************)
EXTENDS MatvecPaths, FiniteSets

CONSTANTS
  MatrixKinds,  \* kinds of the matrices of a fused call
  Heights,      \* rows of its (up to) three matrices
  Widths,       \* columns
  VectorCounts  \* vectors in a batch

ASSUME ProjectionsAssumption ==
  /\ MatrixKinds \subseteq DOMAIN BlockBytes
  /\ Heights \subseteq Nat \X Nat \X Nat /\ Widths \subseteq Nat \ {0} /\ VectorCounts \subseteq Nat

Fusions == {"fused3", "fused2", "kquant3", "q4k", "q5k", "q6k", "batch1", "batch2", "batch3", "kbatch3"}
BatchCalls == {"batch1", "batch2", "batch3", "kbatch3"}
PairCalls  == {"fused2", "batch2"}

Machines ==
  [arch : {"arm", "x86"}, simd : BOOLEAN, threads : {1, 2}, metal : {{}}]
    \cup [arch : {"other", "wasm"}, simd : {FALSE}, threads : {2}, metal : {{}}]
    \cup [arch : {"arm"}, simd : {TRUE}, threads : {2},
          metal : {{"q4k"}, {"q6k"}, {"q4k3", "q6k2", "q4k_q4k_q6k"}, {"q4k", "q4k2", "q6k3"}}]

KindsOf(call) ==
  CASE call = "q4k" -> {<<"Q4K", "Q4K">>, <<"Q4K", "Q4K", "Q4K">>}
    [] call = "q5k" -> {<<"Q5K", "Q5K">>, <<"Q5K", "Q5K", "Q5K">>}
    [] call = "q6k" -> {<<"Q6K", "Q6K">>, <<"Q6K", "Q6K", "Q6K">>}
    [] call \in {"kquant3", "kbatch3"} -> [1 .. 3 -> MatrixKinds \cap KQuants]
    [] call = "batch1" -> [1 .. 1 -> MatrixKinds]
    [] call \in PairCalls -> [1 .. 2 -> MatrixKinds]
    [] OTHER -> [1 .. 3 -> MatrixKinds]

\* What is wrong with a call, if anything: a matrix lacks a byte, one is wider,
\* or the vector has an element too many.
Faults == {"none", "bytes", "width", "length"}

Matrices(kinds, rows, cols, fault) ==
  [k \in DOMAIN kinds |->
    [kind |-> kinds[k], rows |-> rows[k],
     cols |-> IF fault = "width" /\ k = Len(kinds) THEN cols + 256 ELSE cols,
     bytes |-> rows[k] * row_bytes(kinds[k], cols) - (IF fault = "bytes" /\ k = Len(kinds) THEN 1 ELSE 0)]]

ProjectionsOf(call) ==
  [call : {call}, machine : Machines, kinds : KindsOf(call), rows : Heights, cols : Widths,
   tokens : IF call \in BatchCalls THEN VectorCounts ELSE {1}, fault : {"none"}]
    \cup
  [call : {call}, machine : {[arch |-> "x86", simd |-> TRUE, threads |-> 2, metal |-> {}]},
   kinds : KindsOf(call), rows : {<<2, 1, 3>>}, cols : {256}, tokens : {1}, fault : Faults \ {"none"}]

Result(c, ws, len) ==
  LET m == c.machine IN
  CASE c.call = "fused3" -> matvec_quant3_into(m, ws, len)
    [] c.call = "fused2" -> matvec_quant2_into(m, ws, len)
    [] c.call = "kquant3" -> matvec_kquant3_into(m, ws, len)
    [] c.call = "q4k" -> IF Len(ws) = 3 THEN matvec_q4_k3_into(m, ws, len) ELSE matvec_q4_k2_into(m, ws, len)
    [] c.call = "q5k" -> matvec_q5_k_fused_into(m, ws, len)
    [] c.call = "q6k" -> matvec_q6_k_fused_into(m, ws, len)
    [] c.call = "batch1" -> matvec_quant_batch_into(m, ws, len)
    [] c.call = "batch2" -> matvec_quant2_batch_into(m, ws, len)
    [] c.call = "batch3" -> matvec_quant3_batch_into(m, ws, len)
    [] c.call = "kbatch3" -> matvec_kquant3_batch_into(m, ws, len)

Checked(m, w) == IF w.kind \in KQuants THEN matvec_k(m, w) ELSE matvec_small(m, w)

\* The matrix by itself on token t, without Metal.
Alone(m, w, t) ==
  {<<e[1] + t * w.rows, [e[2] EXCEPT !.x = t, !.xq = IF e[2].xq = NoXq THEN NoXq ELSE t]>> :
     e \in matvec_into([m EXCEPT !.metal = {}], w)}
AloneOnMetal(w, t) == {<<e[1] + t * w.rows, [e[2] EXCEPT !.x = t]>> : e \in OnMetal(w)}

(***************************************************************************)
(* An accepted call leaves in each output what the matrix by itself gives  *)
(* each token, or what Metal gives for the whole matrix, and reads within  *)
(* the bytes; a call is refused exactly when a matrix does not fit the     *)
(* vector, its blocks or its bytes, or mixes K-quants where the caller has *)
(* its own way to do those.                                                *)
(***************************************************************************)
Mixes(c) ==
  /\ c.machine.arch = "wasm" \/ c.call = "fused3"
  /\ c.call \in {"fused3", "batch2", "batch3", "kbatch3"}
  /\ is_mixed_kquant3(c.kinds[1], c.kinds[2], IF Len(c.kinds) = 3 THEN c.kinds[3] ELSE c.kinds[1])

Agrees(c) ==
  LET ws     == Matrices(c.kinds, c.rows, c.cols, c.fault)
      len    == c.cols * c.tokens + (IF c.fault = "length" THEN 1 ELSE 0)
      result == Result(c, ws, len)
      whole  == \A k \in DOMAIN ws : ws[k].cols # 0 /\ ws[k].cols % block_size(ws[k].kind) = 0
      rows   == 0 .. c.tokens - 1
  IN  /\ result.ok => /\ c.fault = "none" /\ whole
                      /\ \A k \in DOMAIN ws :
                           /\ \/ result.out[k] = UNION {Alone(c.machine, ws[k], t) : t \in rows}
                              \/ c.machine.metal # {} /\ result.out[k] = UNION {AloneOnMetal(ws[k], t) : t \in rows}
                           /\ \A e \in result.out[k] :
                                e[2].at + row_bytes(ws[k].kind, ws[k].cols) <= ws[k].bytes
      /\ c.fault = "none" /\ whole /\ ~result.ok => Mixes(c)
      /\ \A k \in DOMAIN ws : Checked(c.machine, ws[k]).ok <=> ~(c.fault \in {"bytes", "width"} /\ k = Len(ws))
=============================================================================
