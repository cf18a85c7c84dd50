----------------------------- MODULE TokenCases ----------------------------
(***************************************************************************)
(* Texts for the pre-tokenizers with the regular expressions they replace, *)
(* and vocabularies for the merges with the scan they replace.             *)
(***************************************************************************)
EXTENDS Tokenizer, FiniteSets

CONSTANTS
  MaxText,    \* length of the texts that are cut
  MaxMerges,  \* merges of a vocabulary
  MaxWord     \* length of the words that are merged

Splitters == {"tekken", "qwen35", "gpt2", "gemma4"}
Kinds     == Splitters \cup {"scores", "ranks", "wordpiece"}

\* The characters a splitter tells apart.
Alphabet(kind) ==
  CASE kind = "tekken" -> Characters \ {"r", "e", "'", "M"}
    [] kind = "qwen35" -> Characters \ {"A", "X"}
    [] kind = "gpt2"   -> {"s", "0", " ", "!"}
    [] kind = "gemma4" -> {"s", " ", "nl"}

Words(letters, n) == UNION {[1 .. k -> letters] : k \in 1 .. n}
AB == {"a", "b"}
Several(S) == {x \in SUBSET S : Cardinality(x) \in 1 .. MaxMerges}
Symbols4 == {<<"a">>, <<"b">>, <<"a", "a">>, <<"a", "b">>}

InputsOf(kind) ==
  CASE kind \in Splitters -> Words(Alphabet(kind), MaxText)
    [] kind = "scores" -> UNION {[pieces -> 1 .. 2] : pieces \in Several(Words(AB, 3) \ Words(AB, 1))}
    [] kind = "ranks"  -> Words(Symbols4 \X Symbols4, MaxMerges)
    [] kind = "wordpiece" ->
         SUBSET {<<"_">>, <<"_", "a">>, <<"_", "a", "b">>, <<"a">>, <<"b">>, <<"a", "b">>, <<"b", "a", "b">>}

-----------------------------------------------------------------------------
(* A regular expression: alternatives in order, each a sequence of parts,  *)
(* a part `least` to `most` characters of a set, as many as the rest of    *)
(* the alternative allows; or "no such character follows".                 *)

Many == MaxText
Part(set, least, most) == [set |-> set, least |-> least, most |-> most]
One(set)  == Part(set, 1, 1)
Opt(set)  == Part(set, 0, 1)
Star(set) == Part(set, 0, Many)
Plus(set) == Part(set, 1, Many)
NotBefore(set) == Part(set, 0, 0)

\* The ends of all ways an alternative matches at i, the preferred one first.
RECURSIVE Ends(_, _, _)
Ends(parts, text, i) ==
  IF parts = <<>> THEN <<i>>
  ELSE LET part == Head(parts)
           run  == RunEnd(text, i, part.set) - i
           most == IF run < part.most THEN run ELSE part.most
           RECURSIVE Try(_)
           Try(n) == IF n < part.least THEN <<>> ELSE Ends(Tail(parts), text, i + n) \o Try(n - 1)
       IN  IF part.most = 0 THEN (IF Here(text, i, part.set) THEN <<>> ELSE Ends(Tail(parts), text, i))
           ELSE Try(most)

RECURSIVE MatchEnd(_, _, _)
MatchEnd(pattern, text, i) ==
  LET ends == Ends(Head(pattern), text, i)
  IN  IF ends # <<>> THEN Head(ends) ELSE MatchEnd(Tail(pattern), text, i)

NonSpace == Characters \ Whitespace
NotL     == Characters \ (Newlines \cup Letters \cup Digits)
Spaces   == << <<Star(Whitespace), Plus(Newlines)>>,
               <<Plus(Whitespace), NotBefore(NonSpace)>>,
               <<Plus(Whitespace)>> >>

PatternOf(kind) ==
  CASE kind = "tekken" ->
         << <<Opt(NotL), Star(Upper), Plus(Lower)>>,
            <<Opt(NotL), Plus(Upper), Star(Lower)>>,
            <<One(Digits)>>,
            <<Opt({" "}), Plus(Symbols), Star(Newlines \cup {"/"})>> >> \o Spaces
    [] kind = "qwen35" ->
         << <<One({"'"}), One({"s"})>>,
            <<One({"'"}), One({"r"}), One({"e"})>>,
            <<Opt(NotL), Plus(WordChars)>>,
            <<One(Digits)>>,
            <<Opt({" "}), Plus(Symbols \ Marks), Star(Newlines)>> >> \o Spaces
    [] kind = "gpt2" ->
         << <<Star(Whitespace), Plus(Letters)>>, <<Star(Whitespace), Plus(Digits)>>,
            <<Star(Whitespace), Plus(Symbols)>>, <<Plus(Whitespace)>> >>
    [] kind = "gemma4" -> << <<Plus(Characters \ Newlines)>>, <<Plus(Newlines)>> >>

StartsOf(kind, text) ==
  CASE kind = "tekken" -> pretokenize_tekken(text)
    [] kind = "qwen35" -> pretokenize_qwen35(text)
    [] kind = "gpt2"   -> pretokenize_gpt2(text)
    [] kind = "gemma4" -> split_gemma4_pieces(text)

\* Qwen's pattern leaves the last of several blanks to the word after them;
\* the code takes them all.
BlanksBeforeText(text) ==
  \E i \in 1 .. Len(text) - 2 :
    text[i] \in Blanks /\ text[i + 1] \in Blanks /\ text[i + 2] \notin Whitespace

CutsLikePattern(kind, text) ==
  \/ StartsOf(kind, text) = PieceStarts([i \in DOMAIN text |-> MatchEnd(PatternOf(kind), text, i)])
  \/ kind = "qwen35" /\ BlanksBeforeText(text)

-----------------------------------------------------------------------------
(* The scan merge_symbols replaces: the best pair, the leftmost of equals, *)
(* until none is left.                                                     *)

RECURSIVE Scan(_, _)
Scan(symbols, table) ==
  LET pair(i)  == <<symbols[i], symbols[i + 1]>>
      mergable == {i \in 1 .. Len(symbols) - 1 : pair(i) \in DOMAIN table}
      i == CHOOSE i \in mergable : \A j \in mergable :
             \/ table[pair(i)].key > table[pair(j)].key
             \/ table[pair(i)].key = table[pair(j)].key /\ i <= j
  IN  IF mergable = {} THEN symbols
      ELSE Scan(SubSeq(symbols, 1, i - 1) \o <<table[pair(i)].merged>>
                  \o SubSeq(symbols, i + 2, Len(symbols)), table)

MergesLikeScan(table) ==
  \A word \in [1 .. MaxWord -> AB] :
    LET symbols == [i \in DOMAIN word |-> <<word[i]>>]
    IN  merge_symbols(symbols, table) = {Scan(symbols, table)}

\* A word is spelled by its tokens, each the longest there is at its place,
\* or it is unknown because one of those places has none.
Spell(pieces) ==
  LET upto[n \in 0 .. Len(pieces)] == IF n = 0 THEN <<>> ELSE upto[n - 1] \o pieces[n]
  IN  upto[Len(pieces)]
LongestMatch(vocabulary) ==
  LET max_chars == IF vocabulary = {} THEN 1
                   ELSE CHOOSE n \in {Len(t) : t \in vocabulary} : \A t \in vocabulary : Len(t) <= n
  IN  \A word \in Words(AB, MaxWord) :
        LET pieces == encode_wordpiece_word(vocabulary, max_chars, word)
            whole  == <<"_">> \o word
            Place(n) == Len(Spell(SubSeq(pieces, 1, n - 1))) + 1
        IN  \/ /\ Spell(pieces) = whole
               /\ \A n \in DOMAIN pieces :
                    /\ pieces[n] \in vocabulary
                    /\ \A end \in Place(n) .. Len(whole) :
                         SubSeq(whole, Place(n), end) \in vocabulary => end <= Place(n) + Len(pieces[n]) - 1
            \/ /\ pieces = <<Unknown>>
               /\ \E i \in DOMAIN whole : \A end \in i .. Len(whole) : SubSeq(whole, i, end) \notin vocabulary

TokenizesAsReference(kind, x) ==
  CASE kind \in Splitters   -> CutsLikePattern(kind, x)
    [] kind = "scores"      -> MergesLikeScan(ScoreTable(x))
    [] kind = "ranks"       -> MergesLikeScan(RankTable(x))
    [] kind = "wordpiece"   -> LongestMatch(x)
=============================================================================
