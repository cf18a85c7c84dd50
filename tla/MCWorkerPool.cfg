CONSTANTS
  c1 = c1
  c2 = c2
  Callers = {c1, c2}
  NoCaller = NoCaller
  MaxWorkers = 3
  MATVEC_CHUNK_ROWS = 1
  KQUANT_BATCH_CHUNK_ROWS = 1
  MIN_ROWS_PER_WORKER = 1
  MIN_DYNAMIC_CHUNKS_PER_WORKER = 2
  Requests <- ThreeWorkerRequests
  MaxGenerations = 2
SPECIFICATION Spec
INVARIANTS
  TypeOK
  JobSlotExclusive
  EveryUnitOnce
PROPERTY BuffersOnlyInCall
SYMMETRY CallerSymmetry
