CONSTANTS
  a = a
  b = b
  Tokens = {a, b}
  Garbage = Garbage
  NoLogits = NoLogits
  MaxLen = 6
  Windows = {3}
  Ubatch = 2
  MaxPrompt = 5
  Prompts <- AllPrompts
  MaxTokens = 2
  Models = {"batched"}
SPECIFICATION Spec
INVARIANT RingKeepsAttendedRows
CHECK_DEADLOCK FALSE
