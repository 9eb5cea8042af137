SPECIFICATION Spec
CONSTANTS
  e1 = e1
  e2 = e2
  e3 = e3
  r1 = r1
  r2 = r2
  t1 = t1
  t2 = t2
  t3 = t3
  Event = {e1, e2, e3}
  Request = {r1, r2}
  RequestOf <- MCRequestOf
  Transaction = {t1, t2, t3}
  TransactionOf <- MCTwoTransactions
  CreationDate <- MCCreationDate
  Malformed = {}
  Instance = {i1, i2}
  Primary = {i1, i2}
  RetryAge = 1
  Ttl = 1
  MaxTorn = 1
  MaxCrashes = 0
CHECK_DEADLOCK FALSE
INVARIANTS NoLoss SuccessIsTrue OutboxInv
PROPERTY JournalSpec
