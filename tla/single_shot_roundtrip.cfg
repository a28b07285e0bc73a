CONSTANTS
  NL = NL
  BodyByte = BodyByte
  SigByte = SigByte
  Inputs <- PlainInputs
INIT SInit
NEXT SNext
INVARIANTS SingleShotRoundTrip
