----------------------------- MODULE MCAlgorithms ---------------------------
(***************************************************************************)
(* Algorithms on small inputs, with the other algorithms and what is       *)
(* asked of each.                                                          *)
(***************************************************************************)
EXTENDS Algorithms

Kernels ==
  INSTANCE KernelCases WITH
    SmallRows <- {0, 1, 2, 3, 5, 8, 16}, SuperRows <- 0 .. 3, Magnitudes <- 9
Layout ==
  INSTANCE LayoutCases WITH Faults <- {"missing", "few", "many", "flat", "cut", "type"}
Tokenizing ==
  INSTANCE TokenCases WITH MaxText <- 4, MaxMerges <- 3, MaxWord <- 5
Sampling ==
  INSTANCE Sampler WITH
    Unit <- 16, Infinite <- 1000, MaxVocabulary <- 4,
    Levels <- {-1, 0, 2}, Parts <- {0, 8, 14, 16}, Penalties <- {1, 2}

MCShapes  == {1, 2} \X {1, 2, 4, 5, 6}
MCHeights == {<<1, 2, 0>>, <<17, 1, 2>>, <<0, 1, 0>>}
MCRings   == {<<0, 8>>, <<2, 8>>, <<2, 2>>}

MCOthers == {"kernels", "layout", "tokens", "sampling"}

MCGroupsOf(other) ==
  CASE other = "kernels"  -> Kernels!Formats
    [] other = "layout"   -> Layout!Variants
    [] other = "tokens"   -> Tokenizing!Kinds
    [] other = "sampling" -> Sampling!Configs

MCMembersOf(other, of) ==
  CASE other = "kernels"  -> Kernels!RowsOf(of)
    [] other = "layout"   -> Layout!FilesOf(of)
    [] other = "tokens"   -> Tokenizing!InputsOf(of)
    [] other = "sampling" -> Sampling!CallsOf(of)

(* Every dot product of a quantised row, scalar or vector, on f32 or on     *)
(* int8 activations, for one token or four, multiplies each weight once     *)
(* with its own activation and its own scale, as the row's decoder says     *)
(* (simd.rs' parity tests compare sums on a few random rows); and the       *)
(* quantiser keeps order, groups and the widths the vector kernels rely on. *)
KernelsMatchRows == Chosen("kernels") => Kernels!MatchesRow(input[1])

(* A complete file of every family is accepted and loads; a file the        *)
(* compatibility report accepts makes no loader panic, nor does it refuse   *)
(* one that would load, but for the gaps LayoutCases names: tensors, shapes *)
(* and bytes the report never looks at.                                     *)
SupportedFilesLoad == Chosen("layout") => Layout!ReportMatchesLoader(input[1])

(* Each pre-tokenizer cuts every text into the pieces its quoted pattern    *)
(* names (qwen35_whitespace_end's runs of blanks excepted) and loses no     *)
(* character; merging a word from a heap with stale entries ends where      *)
(* merging the best pair anew each time does; WordPiece takes the longest   *)
(* piece each time.                                                         *)
TextIsTokenized == Chosen("tokens") => Tokenizing!TokenizesAsReference(group, input[1])

(* sample_with_scratch gives every token of the nucleus its settings name   *)
(* its weight, whichever of its four loops draws and however sort_unstable  *)
(* leaves equals, and never a token outside it; with temperature 0 the      *)
(* first of the best.                                                       *)
NucleusIsSampled == Chosen("sampling") => Sampling!SamplesFromNucleus(input[1])
=============================================================================
