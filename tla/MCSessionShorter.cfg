CONSTANTS
  a = a
  b = b
  Tokens = {a, b}
  Garbage = Garbage
  NoLogits = NoLogits
  MaxLen = 6
  Windows = {0}
  Ubatch = 2
  MaxPrompt = 5
  Prompts <- AllPrompts
  MaxTokens = 2
  Models = {"standard"}
SPECIFICATION Spec
INVARIANT SampledFromConversation
CHECK_DEADLOCK FALSE
