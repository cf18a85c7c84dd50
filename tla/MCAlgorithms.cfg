CONSTANTS
  KV_TILE_BLOCK = 2
  PREFILL_TOKEN_TILE = 2
  MAX_KV_MUL = 6
  Shapes <- MCShapes
  Windows = {0, 2, 3}
  Starts = {0, 1, 3}
  Batches = {1, 2, 5}
  Slots = {4, 5, 8}
  KQUANT_BATCH_TOKENS = 4
  MatrixKinds = {"Q4K", "Q6K", "Q8_0", "Q5_0"}
  Heights <- MCHeights
  Widths = {256, 32}
  VectorCounts = {0, 1, 6}
  MaxLayers = 2
  MaxPrompt = 6
  Ubatches = {1, 2, 3, 5}
  Positions = {0, 2}
  Rings <- MCRings
  Context = 8
  MaxWorkers = 4
  MATVEC_CHUNK_ROWS = 2
  KQUANT_BATCH_CHUNK_ROWS = 3
  MIN_ROWS_PER_WORKER = 2
  MIN_DYNAMIC_CHUNKS_PER_WORKER = 2
  MaxLen = 6
  MaxTokens = 3
  MaxThreads = 6
  Others <- MCOthers
  GroupsOf <- MCGroupsOf
  MembersOf <- MCMembersOf
SPECIFICATION Spec
INVARIANTS
  WorkIsShared
  AttentionVisitsWindowOnce
  ForwardPathsAgree
  KernelsMatchRows
  ProjectionsAgree
  SupportedFilesLoad
  TextIsTokenized
  NucleusIsSampled
CHECK_DEADLOCK FALSE
