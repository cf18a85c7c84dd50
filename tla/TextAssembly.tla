---------------------------- MODULE TextAssembly ----------------------------
(***************************************************************************)
(* From tokens to text: Utf8Stitcher (src/src/tokenizer.rs), the scan for  *)
(* stop sequences and the split of the text into prose and tool calls      *)
(* (src/src/runtime.rs).                                                   *)
(*                                                                         *)
(* Bytes are "L", the lead of a character of three bytes, "C", which       *)
(* continues one, and the letters, which are characters of one byte.       *)
(* Characters are the letters, "W", the character of three bytes, and "?", *)
(* U+FFFD, which has three bytes itself.  The letter "T" stands for the    *)
(* marker [TOOL_CALLS], and "{" for a complete [ARGS]{...} of a call.      *)
(***************************************************************************)
EXTENDS Integers, SequencesExt

Letter(byte) == byte \notin {"L", "C"}

\* How many of the two bytes after the lead at i continue it.
Continued(bytes, i) ==
  IF i + 1 \notin DOMAIN bytes \/ bytes[i + 1] # "C" THEN 0
  ELSE IF i + 2 \notin DOMAIN bytes \/ bytes[i + 2] # "C" THEN 1 ELSE 2

\* Slip: a character that can no longer be completed is waited for.
CharAtWaits(bytes, i) ==
  IF Letter(bytes[i]) THEN [char |-> bytes[i], bytes |-> 1]
  ELSE IF bytes[i] = "C" THEN [char |-> "?", bytes |-> 1]
  ELSE [char |-> "W", bytes |-> IF Continued(bytes, i) = 2 THEN 3 ELSE 0]

\* The first character from byte i and its length; of length 0 when it is
\* cut off and more bytes could complete it.
CharAt(bytes, i) ==
  LET good == Continued(bytes, i)
  IN  IF Letter(bytes[i]) THEN [char |-> bytes[i], bytes |-> 1]
      ELSE IF bytes[i] = "C" THEN [char |-> "?", bytes |-> 1]
      ELSE IF good = 2 THEN [char |-> "W", bytes |-> 3]
      ELSE [char |-> "?", bytes |-> IF i + good = Len(bytes) THEN 0 ELSE 1 + good]

\* Slip: a character that is cut off is given up at once.
push_eager(pending, fed) ==
  LET bytes == pending \o fed
      text[i \in 1 .. Len(bytes) + 1] ==
        IF i > Len(bytes) THEN <<>>
        ELSE LET head == CharAt(bytes, i)
             IN  <<head.char>> \o
                 (IF head.bytes = 0 THEN <<>> ELSE text[i + head.bytes])
  IN  [text |-> text[1], pending |-> <<>>]

\* Utf8Stitcher::push: the text that is complete, and the bytes kept back.
push(pending, fed) ==
  LET bytes == pending \o fed
      scan[i \in 1 .. Len(bytes) + 1] ==
        IF i > Len(bytes) THEN [text |-> <<>>, pending |-> <<>>]
        ELSE LET head == CharAt(bytes, i)
             IN  IF head.bytes = 0
                 THEN [text |-> <<>>, pending |-> SubSeq(bytes, i, Len(bytes))]
                 ELSE LET rest == scan[i + head.bytes]
                      IN  [rest EXCEPT !.text = <<head.char>> \o @]
  IN  scan[1]

\* Utf8Stitcher::flush
flush(pending) == IF pending = <<>> THEN <<>> ELSE <<"?">>

-----------------------------------------------------------------------------
(* Stop sequences. *)

ByteLen(text) == Len(text) + 2 * Cardinality({i \in DOMAIN text : text[i] \in {"W", "?"}})

MaxStopLen(stops) == Max({0} \cup {ByteLen(stops[i]) : i \in DOMAIN stops})

\* How many characters precede the window of max_bytes bytes at the end of
\* the text, which begins at the boundary of a character.
trailing_char_boundary_start(text, max_bytes) ==
  LET Fits(k) == k = 0 \/ ByteLen(SubSeq(text, 1, k)) <= ByteLen(text) - max_bytes
  IN  CHOOSE k \in 0 .. Len(text) : Fits(k) /\ \A j \in k + 1 .. Len(text) : ~Fits(j)

\* stop begins after the first k characters of text.
OccursAt(text, stop, k) ==
  k + Len(stop) <= Len(text) /\ SubSeq(text, k + 1, k + Len(stop)) = stop

\* The places, from character `from` on, where stop occurs.
Occurrences(text, stop, from) == {k \in from .. Len(text) : OccursAt(text, stop, k)}

First(places) == CHOOSE k \in places : \A j \in places : k <= j

\* Slip: the window is not longer for a token of many characters.
StopCutShortWindow(output, text, stops) ==
  LET from  == trailing_char_boundary_start(output, MaxStopLen(stops))
      Found(i) == Occurrences(output, stops[i], from) # {}
      hits  == {i \in DOMAIN stops : MaxStopLen(stops) > 0 /\ Found(i)}
  IN  IF hits = {} THEN {} ELSE {First(Occurrences(output, stops[First(hits)], from))}

\* Where output, which ends in text, is cut: the first stop sequence of the
\* list that occurs in the window; none when the set is empty.  Nothing is
\* searched for when all stop sequences are empty.
StopCut(output, text, stops) ==
  LET from  == trailing_char_boundary_start(output, MaxStopLen(stops) + ByteLen(text))
      Found(i) == Occurrences(output, stops[i], from) # {}
      hits  == {i \in DOMAIN stops : MaxStopLen(stops) > 0 /\ Found(i)}
  IN  IF hits = {} THEN {} ELSE {First(Occurrences(output, stops[First(hits)], from))}

-----------------------------------------------------------------------------
(* parse_mistral_tool_calls, in the layout that repeats the marker. *)

Markers(text, from) == {i \in from .. Len(text) : text[i] = "T"}
Arguments(text, from) == {i \in from .. Len(text) : text[i] = "{"}

\* The calls from character `from` on: what stands between a marker and its
\* arguments names the call, and a call without a name is dropped.
ToolCalls(text, from) ==
  LET calls[i \in 1 .. Len(text) + 1] ==
        IF Markers(text, i) = {} THEN <<>>
        ELSE LET at == First(Markers(text, i))
             IN  IF Arguments(text, at) = {} THEN <<>>
                 ELSE LET args == First(Arguments(text, at))
                          name == SubSeq(text, at + 1, args - 1)
                      IN  (IF name = <<>> THEN <<>> ELSE <<name>>) \o calls[args + 1]
  IN  calls[from]

\* What precedes the first marker is prose; what follows the calls is dropped.
parse_mistral_tool_calls(text) ==
  IF Markers(text, 1) = {} THEN [prose |-> text, calls |-> <<>>]
  ELSE [prose |-> SubSeq(text, 1, First(Markers(text, 1)) - 1), calls |-> ToolCalls(text, 1)]
=============================================================================
