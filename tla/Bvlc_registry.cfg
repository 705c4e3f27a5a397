SPECIFICATION Spec
CONSTANTS
  b1 = b1
  b2 = b2
  d1 = d1
  d2 = d2
  BBMDs = {b1}
  Subnet <- OneSubnet
  Devices = {d1}
  ForeignDevices = {f1, f2, f3}
  Tables <- NoTables
  MAX_BBMD_ENTRIES = 2
  MAX_FD_ENTRIES = 2
  TimesToLive = {0, 2}
  Grace = 2
  Elapsed = {1, 3}
  TimerCalls = {TRUE, FALSE}
INVARIANTS
  TypeOK
  UniqueRegistrations
  ListedThroughLease
