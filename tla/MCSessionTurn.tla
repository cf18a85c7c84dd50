--------------------------- MODULE MCSessionTurn ---------------------------
(* TLC instances of the session turns. *)
EXTENDS SessionTurn, TLC

CONSTANT MaxPrompt  \* longest prompt

\* Every prompt up to the bound.
AllPrompts == UNION {[1 .. n -> Tokens] : n \in 1 .. MaxPrompt}

TokenSymmetry == Permutations(Tokens)
=============================================================================
