CONSTANTS
  NL = NL
  BodyByte = BodyByte
  SigByte = SigByte
  SP = SP
  COLON = COLON
  DASH = DASH
  UPPER = UPPER
  LA = LA
  LB = LB
  Letters = {LA, LB}
  Inputs <- SaneInputs
INIT HInit
NEXT HNext
INVARIANTS HeaderRoundTrip
