SPECIFICATION FairSpec
CONSTANTS
  MAX_ADDRESS_CACHE = 2
  Own_Device_ID = NoDevice
  SHORT_TIME = 1
  LONG_TIME = 2
  FOREVER = 9
  NoDevice = NoDevice
  NoAddress = NoAddress
  Devices = {1, 2, 3}
  Target = 2
  Addresses = {"a1", "a2", "a3", "a4"}
  Start <- StartAt
  MaxCalls = 2
INVARIANTS
  BoundAsAnnounced
  ListsWhatIsBound
PROPERTIES
  EvictsNearestExpiry
  ClientFindsDevice
