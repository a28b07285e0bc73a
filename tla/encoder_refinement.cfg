CONSTANTS
  NL = NL
  BodyByte = BodyByte
  SigByte = SigByte
  Assertions <- EncAssertions
  Batches <- EncBatches
  AtomicWriter = FALSE
  OnError = {"retry", "skip", "stop"}
  MaxFailures = 2
INIT EInit
NEXT ENext
PROPERTIES SinkRefinement
