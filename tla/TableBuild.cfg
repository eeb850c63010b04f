SPECIFICATION Spec
CONSTANTS
  Keys <- SmallKeys
  Values <- SmallValues
  OptionSets <- SmallOptions
  FilterName <- MetaKey
  BloomHash <- SomeHash
  FilterBaseLg = 6
  BitsPerKey = 10
  MaxOps = 14
  MaxChanges = 1
INVARIANTS
  EntriesKept
  FinishedWhole
  FilterCovers
CHECK_DEADLOCK FALSE
