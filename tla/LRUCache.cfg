SPECIFICATION Spec
CONSTANTS
  Readers = {r1, r2, r3}
  Files = {1, 2, 3}
  Charge <- MCCharge
  Hash <- MCHash
  MinLength = 1
  capacity_ = 2
INVARIANTS RefsExact TableMatchesList UsageBounded NoStaleTable
CHECK_DEADLOCK FALSE
