CONSTANTS
  u1 = u1
  u2 = u2
  u3 = u3
  c1 = c1
  c2 = c2
  NoContent = NoContent
  Uploads <- Three
  Contents <- TwoContents
  Deletable <- One
  FaultKinds = {"crash", "database", "storage", "lost"}
  MaxFaults = 2
SYMMETRY PairSymmetry
SPECIFICATION Spec
INVARIANTS TypeOK FileHasRow RejectedFileIsGone AcceptedOnce DuplicateIsStored
CHECK_DEADLOCK FALSE
