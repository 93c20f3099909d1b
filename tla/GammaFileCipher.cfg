SPECIFICATION FairSpec
CONSTANTS
  Chunk <- MCChunk
  ZeroChunk <- MCZeroChunk
  GammaChunk <- MCGammaChunk
  MaxPortions = 3
  Masters <- MCMasters
  Keys <- MCKeys
  MaxPasses = 3
INVARIANTS
  TypeOK
  PrefixesOnly
  RoundTrip
  AnswersObeyed
PROPERTIES
  PassEnds
CHECK_DEADLOCK FALSE
