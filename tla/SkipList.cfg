SPECIFICATION FairSpec
CONSTANTS
  Keys = {1, 2, 3}
  Readers = {r1}
  Writer = w
  kMaxHeight = 3
INVARIANTS
  TypeOK
  ListsNested
  ReadsInitialised
PROPERTIES
  AnswersExactly
  SearchesReturn
