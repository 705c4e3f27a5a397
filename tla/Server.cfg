CONSTANTS
  MaxObjects = 2
  BufferSize = 3
  ServerDeviceId = 260001
  MaxRevision = 4
  MaxRecords = 5
  Registered <- MCRegistered
  UnderTest  <- MCUnderTest
  Accesses   <- MCAccesses
  Pairs      <- MCPairs
  Controlled <- MCControlled
SPECIFICATION Spec
INVARIANTS
  PresentValueIsCommanded
  WrittenIsRead
  EveryListedPropertyReads
  NamesIdentify
PROPERTIES
  RefusalLeavesNoTrace
  RevisionTellsOfChange
