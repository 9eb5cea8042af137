SPECIFICATION FairSpec
CONSTANTS
  e1 = e1
  e2 = e2
  e3 = e3
  r1 = r1
  r2 = r2
  t1 = t1
  t2 = t2
  t3 = t3
  Event = {e1, e2, e3}
  Request = {r1, r2}
  RequestOf <- MCRequestOf
  Transaction = {t1, t3}
  TransactionOf <- MCOneTransaction
  CreationDate <- MCCreationDate
  Malformed = {e3}
  Instance = {i1, i2}
  Primary = {i1}
  RetryAge = 1
  Ttl = 2
  MaxTorn = 0
  MaxCrashes = 2
CHECK_DEADLOCK FALSE
INVARIANTS TypeOK OneOperationPerRequest RequestInv
PROPERTIES SuccessIsFinal JournaledEventually PurgedEventually
