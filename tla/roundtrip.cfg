CONSTANTS
  NL = NL
  BodyByte = BodyByte
  SigByte = SigByte
  InitialBufSize = 2
  MaxHeadersSize = 16
  MaxBodySize = 4
  MaxSigSize = 4
  MaxCalls = 4
  MinReadBufferSize = 4
  Sources <- RoundTripSources
SPECIFICATION Spec
INVARIANTS TypeOK RoundTrip
