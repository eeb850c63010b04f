SPECIFICATION Spec
CONSTANTS
  Keys <- SmallKeys
  Values <- SmallValues
  OptionSets <- SmallOptions
  FilterName <- MetaKey
  BloomHash <- SomeHash
  FilterBaseLg = 6
  BitsPerKey = 10
  MaxOps = 0
  MaxChanges = 0
INVARIANTS
  IndexFindsKeys
CHECK_DEADLOCK FALSE
