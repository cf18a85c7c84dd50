CONSTANTS
  a = a
  b = b
  eos = eos
  Tokens = {a, b, eos}
  StopTokens = {eos}
  Garbage = Garbage
  Prompts <- SomePrompts
  MaxTokens = 6
  MaxContext = 7
  EndsText <- StopSequence
  GreedyToken <- ModelToken
  ArgmaxToken <- ModelToken
  Windows <- WindowsOf
  DraftContexts = {4, 7}
  MaxDraftTokens = 3
  Adaptive = TRUE
  Models = {"standard", "batched", "interleaved", "hybrid"}
  Drafters = {"standard", "hybrid", "native"}
SPECIFICATION FairSpec
INVARIANTS
  TypeOK
  ModelsInSync
  CapacityRespected
PROPERTY ImplementsGreedy
