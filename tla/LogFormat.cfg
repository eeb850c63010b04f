SPECIFICATION FairSpec
CONSTANTS
  BlockSize = 5
  HeaderSize = 2
  RegionSize = 10
  Sizes = {0, 1, 3, 5}
  MaxRecords = 3
  MaxFaults = 1
INVARIANTS
  ReadBack
  NoPhantom
  CleanIsSilent
PROPERTIES
  ReadingEnds
