SPECIFICATION Spec
CONSTANTS
  w1 = w1
  w2 = w2
  Workers <- OneWorker
  Threads = 2
  PageCount = 2
  CheckpointPages = 1
  BatchSize = 1
  MaxRetries = 0
  PdfKinds = {"good"}
  Restarts = {"layout"}
  MaxRequests = 1
  FaultKinds = {}
  MaxFaults = 0
INVARIANTS
  LayoutClassifiesPages
CHECK_DEADLOCK FALSE
