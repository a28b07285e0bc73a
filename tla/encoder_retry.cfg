CONSTANTS
  NL = NL
  BodyByte = BodyByte
  SigByte = SigByte
  Assertions <- EncAssertions
  Batches <- EncBatches
  AtomicWriter = TRUE
  OnError = {"retry", "skip"}
  MaxFailures = 2
INIT EInit
NEXT ENext
INVARIANTS StreamOfSent
