SPECIFICATION Spec
CONSTANTS
  WriteBufferSize = 0
  SyncOptions = {FALSE}
  Crashes = {"process", "torn"}
  Faults = {"log", "table", "new_log", "manifest", "manifest_append",
            "manifest_sync", "output", "current", "open_log", "replay_table"}
  MaxWrites = 3
  MaxOpens = 2
  MaxFaults = 1
  MaxFile = 6
INVARIANTS
  LiveTablesExist
  AckedRecoverable
  AckedVisible
  VisibleRecoverable
  HeldFilesExist
  SequenceFresh
  CanReopen
