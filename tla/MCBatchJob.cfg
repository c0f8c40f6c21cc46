CONSTANTS
  Lines <- MCLines
  Programs <- MCPrograms
  Batches <- MCBatches
  PipeBuf = 1
  ForkFailures = 1
SPECIFICATION FairSpec
INVARIANT BatchInv
PROPERTY BatchEnds
CHECK_DEADLOCK FALSE
