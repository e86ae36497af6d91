SPECIFICATION Spec
CONSTANTS
  c1 = c1
  c2 = c2
  c3 = c3
  Chunks <- ThreeChunks
  Texts = {"asked", "translated"}
  Original = "asked"
  Similarities = {0, 3}
  Overlap <- Overlaps
  Passage <- Passages
  Floor = 1
  DefaultTopN = 2
  TopNs = {0, 1}
  Limit = 3
  MaxVariants = 2
  K = 60
  Unit = 238266
  MaxRanking = 2
INVARIANTS OutageIsRaised EvidenceIsSound NothingBetterIsLost
CHECK_DEADLOCK FALSE
