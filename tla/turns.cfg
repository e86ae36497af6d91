SPECIFICATION Spec
CONSTANTS
  t1 = t1
  t2 = t2
  q1 = q1
  bn = bn
  ar = ar
  Turns <- Pair
  Queries <- OneQuery
  Languages <- TwoLanguages
  Streams <- OneStream
  Attempts = 2
  MaxParts = 2
  MaxVersion = 1
INVARIANTS TypeOK DoneIsRecorded CacheIsGrounded  TokensEndInAnswer NothingStale
SYMMETRY LanguagesAlike
CHECK_DEADLOCK FALSE
