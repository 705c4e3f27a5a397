SPECIFICATION Spec
CONSTANTS
  p1 = p1
  p2 = p2
  o1 = o1
  o2 = o2
  NoPeer = NoPeer
  NoSubscription = NoSubscription
  NotNotified = NotNotified
  NoPDU = NoPDU
  MaxTransactions = 1
  MaxInvokeID = 3
  Timeout = 1
  Retries = 1
  MaxSubscriptions = 2
  MaxAddresses = 2
  LoopsPerSecond = 2
  Objects = {o1}
  Writable <- NothingWritten
  Contexts <- SharedObject
  Confirmed = {TRUE, FALSE}
  Lifetimes = {0, 1}
INVARIANTS
  TypeOK
  AddressTableExact
  NotifiesItsSubscriber
  NoDuplicateSubscription
  TransactionsAreOwned
PROPERTY
  OnlySubscriberOrTimeEnds
