SPECIFICATION Spec
CONSTANTS
  MAX_APDU = 1476
  MAX_OCTET_STRING_BYTES = 1470
  CHARACTER_STRING_CAPACITY = 1470
  MAX_BITSTRING_BYTES = 15
  Encode <- Encoded
  Decode <- DecodedApdu
  Expected <- Said
  Library <- MCMessages
  Routes <- MCRoutes
  Starts <- MCStarts
  Steps <- MCSteps
  MaxSteps = 4
  LastYear = 2105
  Keys = {1, 2, 3}
  MaxCount = 5
  CHUNK = 2
  MAX_ADDRESS_CACHE = 4
  Own_Device_ID = 0
  SHORT_TIME = 1
  LONG_TIME = 2
  FOREVER = 3
  NoDevice = 0
  NoAddress = 0
INVARIANTS
  RoundTrip
  ReckonedExactly
  FoundWhereItIs
  RangeIsPartOfList
