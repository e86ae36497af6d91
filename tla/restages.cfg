SPECIFICATION Spec
CONSTANTS
  w1 = w1
  w2 = w2
  Workers <- OneWorker
  Threads = 2
  PageCount = 2
  CheckpointPages = 1
  BatchSize = 1
  MaxRetries = 0
  PdfKinds = {"good"}
  Restarts = {"layout", "metadata", "chunking", "indexing"}
  MaxRequests = 2
  FaultKinds = {"transient", "lost"}
  MaxFaults = 2
INVARIANTS
  StagesAreWhole
CHECK_DEADLOCK FALSE
