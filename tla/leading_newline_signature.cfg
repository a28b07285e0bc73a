CONSTANTS
  NL = NL
  BodyByte = BodyByte
  SigByte = SigByte
  Inputs <- LeadingNLInputs
INIT SInit
NEXT SNext
INVARIANTS SingleShotRoundTrip
