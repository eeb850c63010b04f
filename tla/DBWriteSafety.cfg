SPECIFICATION Spec
CONSTANTS
  Writer = {w1, w2, w3}
  Batches <- SmallBatches
  MaxBatch = 2
  SyncOptions = {TRUE, FALSE}
  WriteBufferSize = 0
  GroupGrowth = 2
  GroupMax = 5
  L0Compaction = 1
  L0Slowdown = 1
  L0Stop = 2
  ParanoidChecks = TRUE
  MaxEvents = 2
SYMMETRY WriterSymmetry
INVARIANTS
  TypeOK
  OneLogger
  SyncedWhenAcknowledged
  LogOrdered
  MemTableLogged
  TmpBatchOwned
  NoWorkAfterClose
PROPERTY WritesAreAtomic
CHECK_DEADLOCK FALSE
