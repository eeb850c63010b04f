SPECIFICATION FairSpec
CONSTANTS
  Keys = {1, 2}
  Children = 2
  Written = 3
  MaxWrites = 4

  
PROPERTIES
  IteratesSnapshot
  CallsReturn
