CONSTANTS
  a = a
  b = b
  Tokens = {a, b}
  Garbage = Garbage
  MaxEntries = 2
  MaxTokens = 2
  MaxBytes = 9
  RowFloats = 2
  LogitsBytes = 4
  MaxPrompt = 3
  Prompts <- AllPrompts
  Contexts = {2, 5}
  Windows = {0, 2}
  Budgets = {2}
  Models = {"standard", "hybrid"}
SPECIFICATION Spec
INVARIANTS
  TypeOK
  PrefixHitInvisible
  SnapshotsOfPrompts
PROPERTIES
  EvictsLeastRecentPrompt
SYMMETRY TokenSymmetry
CHECK_DEADLOCK FALSE
