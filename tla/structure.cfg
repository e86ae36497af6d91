SPECIFICATION Spec
CONSTANTS
  MaxTokens = 4
  OverlapTokens = 1
  MaxPages = 3
  MaxBlocks = 5
  Leaves <- MCLeaves
  Plates <- MCPlates
INVARIANTS
  TextIsInOrder
  SectionsTileTheBook
  
  NumeralsAreRead
  NothingIsLost
  PassagesAreCitable
  OneSentenceTooMany
CHECK_DEADLOCK FALSE
