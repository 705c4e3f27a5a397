SPECIFICATION FairSpec
CONSTANTS
  MaxTransactions = 2
  MaxInvokeID = 3
  Timeout = 2
  Retries = 1
  NoPDU = NoPDU
  MaxRequests = 4
INVARIANTS
  TypeOK
  UniqueInvokeIDs
  PendingHasID
  DoneMeansAnswered
  FailedMeansAllRetries
PROPERTY
  ImplementsLedger
  EveryRequestSettles
