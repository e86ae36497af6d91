SPECIFICATION Spec
CONSTANTS
  MaxChunks = 3
  MaxEvidence = 4
  Passages <- MCPassages
INVARIANTS FactsOnlyRaise AnswerIsBacked
CHECK_DEADLOCK FALSE
