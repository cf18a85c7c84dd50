----------------------------- MODULE Tokenizer -----------------------------
(***************************************************************************)
(* src/src/tokenizer.rs.  First the pre-tokenizers, which cut a text into  *)
(* the pieces that are merged separately; they are written by hand in      *)
(* place of the regular expressions of the models' own tokenizers.  Then   *)
(* the way from the symbols of a piece to tokens: adjacent symbols merged  *)
(* best first, with a heap of candidates over a linked list of slots       *)
(* (merge_symbols), and the longest match of WordPiece.                    *)
(***************************************************************************)
EXTENDS Integers, Sequences

(***************************************************************************)
(* A character of a text stands for its class: "A" an ASCII capital, "s",  *)
(* "r" and "e" other ASCII letters, "X" a letter beyond ASCII, "M" a       *)
(* combining mark, "0" a digit, " " the space, "tab", "nl" a line break,   *)
(* "'", "/" and "!" other punctuation.  An operator ..._end gives where    *)
(* the piece that begins at i ends, which is where the next one begins; 0  *)
(* is None.                                                                *)
(***************************************************************************)
Letters     == {"A", "s", "r", "e", "X"}
Digits      == {"0"}
Blanks      == {" ", "tab"}
Newlines    == {"nl"}
Whitespace  == Blanks \cup Newlines
Marks       == {"M"}
Punctuation == {"'", "/", "!"}
Characters  == Letters \cup Digits \cup Whitespace \cup Marks \cup Punctuation

\* The end of the run of characters of S that begins at i, which may be empty.
RunEnd(text, i, S) ==
  CHOOSE j \in i .. Len(text) + 1 :
    /\ \A k \in i .. j - 1 : text[k] \in S
    /\ j > Len(text) \/ text[j] \notin S

\* The first alternative that matched.
FirstOf(ends) == Head(SelectSeq(ends, LAMBDA end : end # 0))

None == 0
Here(text, i, S) == i <= Len(text) /\ text[i] \in S

\* The starts of the pieces of a text, given where a piece that begins at
\* each place ends.
PieceStarts(end) ==
  LET from[i \in 1 .. Len(end) + 1] ==
        IF i > Len(end) THEN <<>> ELSE <<i>> \o from[end[i]]
  IN  from[1]

-----------------------------------------------------------------------------
(* Tekken (Mistral). *)

Upper    == Letters \ {"s", "r", "e"}
Lower    == Letters \ {"A"}
TekkenLead == Characters \ (Newlines \cup Letters \cup Digits)
Symbols  == Characters \ (Whitespace \cup Letters \cup Digits)

\* Branches 1 and 2 from k on, behind the lead character if there is one:
\* capitals, given back one by one until a lower case letter follows; or
\* capitals alone.
TekkenWord(text, k) ==
  LET upper_end == RunEnd(text, k, Upper)
      given     == {g \in k .. upper_end : RunEnd(text, g, Lower) > g}
  IN  IF given # {} THEN RunEnd(text, CHOOSE g \in given : \A h \in given : h <= g, Lower)
      ELSE IF upper_end > k THEN RunEnd(text, upper_end, Lower)
      ELSE None

TekkenSymbols(text, i) ==
  LET first == IF text[i] = " " THEN i + 1 ELSE i
      end   == RunEnd(text, first, Symbols)
  IN  IF end > first THEN RunEnd(text, end, Newlines \cup {"/"}) ELSE None

TekkenWhitespace(text, i) ==
  LET run   == RunEnd(text, i, Whitespace)
      lines == {k \in i .. run - 1 : text[k] \in Newlines}
  IN  IF run = i THEN None
      ELSE IF lines # {} THEN 1 + CHOOSE k \in lines : \A h \in lines : h <= k
      ELSE IF run > Len(text) \/ run - i = 1 THEN run
      ELSE run - 1

pretokenize_tekken(text) ==
  PieceStarts([i \in DOMAIN text |->
    FirstOf(<<IF text[i] \in TekkenLead THEN TekkenWord(text, i + 1) ELSE None,
              TekkenWord(text, i),
              IF text[i] \in Digits THEN i + 1 ELSE None,
              TekkenSymbols(text, i),
              TekkenWhitespace(text, i),
              i + 1>>)])

-----------------------------------------------------------------------------
(* Qwen3.5. *)

WordChars == Letters \cup Marks

\* The suffixes "re" and "s" stand for all of two and of one letter.
qwen35_contraction_end(text, i) ==
  IF text[i] # "'" THEN None
  ELSE IF Here(text, i + 1, {"r"}) /\ Here(text, i + 2, {"e"}) THEN i + 3
  ELSE IF Here(text, i + 1, {"s"}) THEN i + 2
  ELSE None

qwen35_word_end(text, i) ==
  LET end  == RunEnd(text, i, WordChars)
      next == RunEnd(text, i + 1, WordChars)
  IN  IF end > i THEN end
      ELSE IF text[i] \notin Newlines \cup Letters \cup Digits /\ next > i + 1 THEN next
      ELSE None

qwen35_punctuation_end(text, i) ==
  LET first == IF text[i] = " " THEN i + 1 ELSE i
      end   == RunEnd(text, first, Characters \ (Whitespace \cup WordChars \cup Digits))
  IN  IF end > first THEN RunEnd(text, end, Newlines) ELSE None

qwen35_whitespace_end(text, i) ==
  LET run   == RunEnd(text, i, Whitespace)
      lines == {k \in i .. run - 1 : text[k] \in Newlines}
  IN  IF run = i THEN None
      ELSE IF lines # {} THEN 1 + CHOOSE k \in lines : \A h \in lines : h <= k
      ELSE run

pretokenize_qwen35(text) ==
  PieceStarts([i \in DOMAIN text |->
    FirstOf(<<qwen35_contraction_end(text, i),
              qwen35_word_end(text, i),
              IF text[i] \in Digits THEN i + 1 ELSE None,
              qwen35_punctuation_end(text, i),
              qwen35_whitespace_end(text, i),
              i + 1>>)])

-----------------------------------------------------------------------------
(* GPT-2, and the lines of Gemma 4. *)

\* Whitespace, with the run of one class that follows it.
pretokenize_gpt2(text) ==
  PieceStarts([i \in DOMAIN text |->
    LET first == RunEnd(text, i, Whitespace)
    IN  IF first > Len(text) THEN first
        ELSE IF text[first] \in Letters THEN RunEnd(text, first, Letters)
        ELSE IF text[first] \in Digits THEN RunEnd(text, first, Digits)
        ELSE RunEnd(text, first, Symbols)])

split_gemma4_pieces(text) ==
  SelectSeq([i \in 1 .. Len(text) |-> i],
            LAMBDA i : i = 1 \/ (text[i - 1] \in Newlines) # (text[i] \in Newlines))

-----------------------------------------------------------------------------
(***************************************************************************)
(* A symbol is the sequence of letters it spells.  A table says for the    *)
(* pairs <<left, right>> that can merge the [key, merged] the closure      *)
(* `pair` returns; larger keys win.  Slots count from 1; a link 0 is none. *)
(***************************************************************************)

Candidate(s, table, left, right) ==
  LET pair == <<s.symbols[left], s.symbols[right]>>
  IN  IF pair \notin DOMAIN table THEN {}
      ELSE {[key |-> table[pair].key, merged |-> table[pair].merged, left |-> left, right |-> right,
             left_version |-> s.version[left], right_version |-> s.version[right]]}

Start(symbols, table) ==
  LET slots == DOMAIN symbols
      s == [symbols |-> symbols, prev |-> [i \in slots |-> i - 1],
            next |-> [i \in slots |-> IF i < Len(symbols) THEN i + 1 ELSE 0],
            alive |-> [i \in slots |-> TRUE], version |-> [i \in slots |-> 0], heap |-> {}]
  IN  [s EXCEPT !.heap = UNION {Candidate(s, table, i, i + 1) : i \in 1 .. Len(symbols) - 1}]

\* The candidates the heap may give next: the best key, then the leftmost.
Best(heap) ==
  {c \in heap : \A d \in heap : c.key > d.key \/ (c.key = d.key /\ c.left <= d.left)}

\* Slip: a slot that was merged away as a right side passes for a left one.
CurrentLeftUnchecked(s, c) ==
  /\ s.alive[c.right]
  /\ s.next[c.left] = c.right
  /\ s.version[c.left] = c.left_version
  /\ s.version[c.right] = c.right_version

\* Nothing happened to either side since the candidate was queued.
Current(s, c) ==
  /\ s.alive[c.left] /\ s.alive[c.right]
  /\ s.next[c.left] = c.right
  /\ s.version[c.left] = c.left_version
  /\ s.version[c.right] = c.right_version

Merged(s, table, c) ==
  LET after  == s.next[c.right]
      before == s.prev[c.left]
      linked == [s EXCEPT !.symbols[c.left] = c.merged, !.version[c.left] = @ + 1,
                          !.alive[c.right] = FALSE, !.next[c.left] = after,
                          !.prev = IF after = 0 THEN @ ELSE [@ EXCEPT ![after] = c.left]]
  IN  [linked EXCEPT !.heap =
         @ \cup (IF before = 0 THEN {} ELSE Candidate(linked, table, before, c.left))
           \cup (IF after = 0 THEN {} ELSE Candidate(linked, table, c.left, after))]

Survivors(s) ==
  LET slots == SelectSeq([i \in DOMAIN s.symbols |-> i], LAMBDA i : s.alive[i])
  IN  [n \in DOMAIN slots |-> s.symbols[slots[n]]]

\* Every result the order of equal candidates in the heap can lead to.
RECURSIVE Drain(_, _)
Drain(s, table) ==
  IF s.heap = {} THEN {Survivors(s)}
  ELSE UNION {LET popped == [s EXCEPT !.heap = @ \ {c}]
              IN  Drain(IF Current(s, c) THEN Merged(popped, table, c) ELSE popped, table) :
                c \in Best(s.heap)}

merge_symbols(symbols, table) == Drain(Start(symbols, table), table)

\* encode_sentencepiece: two symbols merge when the vocabulary holds what
\* they spell together; its score is the key.
ScoreTable(scores) ==
  LET splits(word) == {<<SubSeq(word, 1, n), SubSeq(word, n + 1, Len(word))>> : n \in 1 .. Len(word) - 1}
  IN  [pair \in UNION {splits(word) : word \in DOMAIN scores} |->
         [key |-> scores[pair[1] \o pair[2]], merged |-> pair[1] \o pair[2]]]

\* encode_gpt2_bpe and encode_gemma4_bpe: a list of merges, the first the
\* best; of a pair that is listed twice the later counts.
RankTable(merges) ==
  [pair \in {merges[i] : i \in DOMAIN merges} |->
     [key |-> -(CHOOSE i \in DOMAIN merges :
                  merges[i] = pair /\ \A j \in DOMAIN merges : merges[j] = pair => j <= i),
      merged |-> pair[1] \o pair[2]]]

-----------------------------------------------------------------------------

Unknown == <<"[UNK]">>

\* Where the longest token at `start` ends.
Longest(vocabulary, word, start, max_chars) ==
  LET ends == {end \in start .. Len(word) : SubSeq(word, start, end) \in vocabulary /\ end < start + max_chars}
  IN  IF ends = {} THEN 0 ELSE CHOOSE end \in ends : \A e \in ends : e <= end

\* The tokens of a word; one position without a match makes it unknown.
encode_wordpiece_word(vocabulary, max_chars, word) ==
  LET prefixed == <<"_">> \o word
      from[start \in 1 .. Len(prefixed) + 1] ==
        IF start > Len(prefixed) THEN <<>>
        ELSE LET end == Longest(vocabulary, prefixed, start, max_chars)
             IN  IF end = 0 THEN <<Unknown>>
                 ELSE <<SubSeq(prefixed, start, end)>> \o from[end + 1]
      pieces == from[1]
  IN  IF \E i \in DOMAIN pieces : pieces[i] = Unknown THEN <<Unknown>> ELSE pieces
=============================================================================
