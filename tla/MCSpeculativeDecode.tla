------------------------ MODULE MCSpeculativeDecode ------------------------
(* TLC instances of speculative decoding. *)
EXTENDS SpeculativeDecode

CONSTANTS a, b, eos

\* A model that answers b to an even number of tokens and else repeats the
\* last one, and ends texts of seven tokens that begin with a.
ModelToken(seq) ==
  IF Len(seq) >= 7 /\ seq[1] = a THEN eos
  ELSE IF Len(seq) % 2 = 0 THEN b
  ELSE seq[Len(seq)]

\* The repeat penalty takes tokens the text already has below another one.
PenalisedToken(seq) ==
  IF ModelToken(seq) = b /\ \E i \in 1 .. Len(seq) : seq[i] = b THEN a ELSE ModelToken(seq)

\* The stop sequence is three b in a row after an a.
StopSequence(seq) ==
  /\ Len(seq) >= 4
  /\ SubSeq(seq, Len(seq) - 3, Len(seq)) = <<a, b, b, b>>

\* A target that is verified token by token may keep its rows in a ring, which
\* a batch would wrap around.
WindowsOf(kind) == IF kind = "standard" THEN {0, 3} ELSE {0}

SomePrompts == {<<a>>, <<b>>, <<a, b>>, <<b, a, a>>}
=============================================================================
