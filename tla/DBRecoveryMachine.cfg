SPECIFICATION Spec
CONSTANTS
  WriteBufferSize = 0
  SyncOptions = {TRUE, FALSE}
  Crashes = {"machine", "torn"}
  Faults = {"log", "log_sync"}
  MaxWrites = 2
  MaxOpens = 2
  MaxFaults = 1
  MaxFile = 9
INVARIANTS
  SyncLossInTables
