SPECIFICATION FairSpec
CONSTANTS
  Writer = {w1, w2}
  Batches <- EdgeBatches
  MaxBatch = 2
  SyncOptions = {FALSE}
  WriteBufferSize = 0
  GroupGrowth = 2
  GroupMax = 5
  L0Compaction = 1
  L0Slowdown = 1
  L0Stop = 1
  ParanoidChecks = FALSE
  MaxEvents = 0
PROPERTIES
  SwitchedMemTableFlushed
CHECK_DEADLOCK FALSE
