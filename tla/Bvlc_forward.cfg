SPECIFICATION Spec
CONSTANTS
  b1 = b1
  b2 = b2
  d1 = d1
  d2 = d2
  BBMDs = {b1, b2}
  Subnet <- MCSubnet
  Devices = {d1, d2}
  ForeignDevices = {f1, f2}
  Tables <- UniformTables
  MAX_BBMD_ENTRIES = 2
  MAX_FD_ENTRIES = 2
  TimesToLive = {0}
  Grace = 1
  Elapsed = {}
  TimerCalls = {FALSE}
INVARIANTS
  AtMostOnce
  EveryoneReached
  NotEchoed
