---------------------------- MODULE ForwardTerms ----------------------------
(***************************************************************************)
(* The values the forward passes of src/src/model.rs compute, as terms:    *)
(* what was applied (`op`), where (`at`: a layer, a position, or 0) and to *)
(* what (`of`).  A term named for a weight or a norm is that weight or     *)
(* norm applied, so two passes agree when they built the same term.        *)
(***************************************************************************)
EXTENDS Integers, Sequences

T(op, at, of) == [op |-> op, at |-> at, of |-> of]
Atom(op, at)  == T(op, at, <<>>)

Add(a, b) == T("add", 0, <<a, b>>)

\* A matrix or a norm of layer l applied to x.
Apply(name, l, x) == T(name, l, <<x>>)
\* The same where the model may store none.
ApplyIf(present, name, l, x) == IF present THEN Apply(name, l, x) ELSE x

\* token_embd.row_into.
row_into(token) == Atom("token_embd", token)

rope(pos, x) == T("rope", pos, <<x>>)

silu_mul(gate, up) == T("silu_mul", 0, <<gate, up>>)

(***************************************************************************)
(* A cache is [k, v, storage_len]: k[l][s] and v[l][s] are the rows of     *)
(* layer l in slot s.                                                      *)
(***************************************************************************)
write_k(cache, l, pos, row) == [cache EXCEPT !.k[l][pos % cache.storage_len] = row]
write_v(cache, l, pos, row) == [cache EXCEPT !.v[l][pos % cache.storage_len] = row]

\* The attended rows of layer l from position `first` to `pos`.
attention(cache, l, q, first, pos) ==
  T("attention", l,
    <<q>> \o [i \in 1 .. pos - first + 1 |->
               LET slot == (first + i - 1) % cache.storage_len
               IN  T("row", 0, <<cache.k[l][slot], cache.v[l][slot]>>)])

\* The cache as an earlier call left it: the latest position of every slot
\* before start_pos.
CacheBefore(layers, storage_len, start_pos) ==
  LET held(s) == {p \in 0 .. start_pos - 1 : p % storage_len = s}
      before(name) ==
        [l \in layers |-> [s \in 0 .. storage_len - 1 |->
          Atom(name, IF held(s) = {} THEN -1 ELSE CHOOSE p \in held(s) : \A o \in held(s) : o <= p)]]
  IN  [k |-> before("k"), v |-> before("v"), storage_len |-> storage_len]
=============================================================================
