SPECIFICATION Spec
CONSTANTS
  w1 = w1
  w2 = w2
  Workers <- TwoWorkers
  Threads = 2
  PageCount = 2
  CheckpointPages = 1
  BatchSize = 2
  MaxRetries = 0
  PdfKinds = {"good"}
  Restarts = {"initial", "layout", "metadata", "chunking", "indexing"}
  MaxRequests = 1
  FaultKinds = {"raise", "embed"}
  MaxFaults = 2
SYMMETRY WorkerSymmetry
INVARIANTS
  NoLockout
CHECK_DEADLOCK FALSE
