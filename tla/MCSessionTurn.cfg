CONSTANTS
  a = a
  b = b
  Tokens = {a, b}
  Garbage = Garbage
  NoLogits = NoLogits
  MaxLen = 4
  Windows = {0, 3, 5}
  Ubatch = 2
  MaxPrompt = 5
  Prompts <- AllPrompts
  MaxTokens = 1
  Models = {"standard", "batched", "interleaved", "hybrid"}
SPECIFICATION Spec
INVARIANTS
  TypeOK
  ReuseInvisible
  RingReuseInvisible
  CacheReflectsTokens
  LogitsAccompanyTokens
  PanicOnlyBeyondCapacity
SYMMETRY TokenSymmetry
CHECK_DEADLOCK FALSE
