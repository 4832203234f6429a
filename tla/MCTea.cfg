SPECIFICATION Spec
CONSTANTS
  Rounds = 128
  Texts <- ShortTexts
INVARIANTS TypeOK RoundTrip BitwiseAgree ProductsAgree ShiftsAgree
CHECK_DEADLOCK FALSE
