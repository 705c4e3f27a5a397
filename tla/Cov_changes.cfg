SPECIFICATION FairSpec
CONSTANTS
  p1 = p1
  p2 = p2
  o1 = o1
  o2 = o2
  NoPeer = NoPeer
  NoSubscription = NoSubscription
  NotNotified = NotNotified
  NoPDU = NoPDU
  MaxTransactions = 1
  MaxInvokeID = 3
  Timeout = 1
  Retries = 1
  MaxSubscriptions = 2
  MaxAddresses = 2
  LoopsPerSecond = 1
  Objects = {o1, o2}
  Writable <- OneEach
  Contexts <- OwnObjects
  Confirmed = {TRUE}
  Lifetimes = {0}
INVARIANT
  ChangeIsPending
PROPERTY
  EventuallyConsistent
