CONSTANTS
  c1 = c1
  c2 = c2
  Callers = {c1, c2}
  NoCaller = NoCaller
  MaxWorkers = 2
  MATVEC_CHUNK_ROWS = 1
  KQUANT_BATCH_CHUNK_ROWS = 1
  MIN_ROWS_PER_WORKER = 1
  MIN_DYNAMIC_CHUNKS_PER_WORKER = 2
  Requests <- TwoWorkerRequests
  MaxGenerations = 1
SPECIFICATION FairSpec
PROPERTY EveryCallReturns
