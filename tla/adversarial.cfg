CONSTANTS
  NL = NL
  BodyByte = BodyByte
  SigByte = SigByte
  InitialBufSize = 2
  MinReadBufferSize = 4
  MaxHeadersSize = 16
  MaxBodySize = 2
  MaxSigSize = 4
  MaxCalls = 3
  Sources <- AdversarialSources
SPECIFICATION Spec
INVARIANTS DecodedIsStreamSegment DecodedInStreamOrder CapsRespected BufferBounded CleanEOFAtBoundary
PROPERTIES DecodeTerminates
