SPECIFICATION Spec
CONSTANTS
  u1 = u1
  u2 = u2
  w1 = w1
  w2 = w2
  Uploads = {u1, u2}
  Workers = {w1, w2}
  NumTexts = 2
  Books <- MCBooks
  EmbeddingBatch = 2
  BatchSize = 2
  ScrollLimit = 2
  ReportLimit = 1
  MaxTasks = 4
  MaxFaults = 2
SYMMETRY Symmetry
INVARIANTS VectorsAreTheirOwn IndexIsExact RowsAreWhole ReportIsTrue
CHECK_DEADLOCK FALSE
