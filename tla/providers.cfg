SPECIFICATION FairSpec
CONSTANTS
  groq = groq
  openrouter = openrouter
  NoProvider = NoProvider
  Providers <- Configured
  Chain <- FallbackChain
  Models <- FreeModels
  Retries = 2
  Threshold = 3
  MaxChunks = 2
INVARIANTS TypeOK BreakerCounts
PROPERTIES PortKept CallEnds
CHECK_DEADLOCK FALSE
