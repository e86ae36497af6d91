SPECIFICATION FairSpec
CONSTANTS
  w1 = w1
  w2 = w2
  Workers <- OneWorker
  Threads = 2
  PageCount = 3
  CheckpointPages = 1
  BatchSize = 1
  MaxRetries = 1
  PdfKinds = {"good", "malformed", "missing"}
  Restarts = {}
  MaxRequests = 0
  FaultKinds = {"transient", "crash", "redeliver"}
  MaxFaults = 4
INVARIANTS
  TypeOK
  CompletedExtractionIsWhole
  StagesAreWhole
  VerdictMatchesIndex
PROPERTIES
  BookSettles
CHECK_DEADLOCK FALSE
