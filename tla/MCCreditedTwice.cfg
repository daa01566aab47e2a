SPECIFICATION Spec
CONSTANTS
  u1 = u1
  o1 = o1
  o2 = o2
  t1 = t1
  t2 = t2
  c1 = c1
  c2 = c2
  w1 = w1
  w2 = w2
  r1 = r1
  r2 = r2
  Users <- MCUsers
  Orders <- MCOrders
  Transfers <- MCOneTransfer
  BankRefs <- MCOneBankRef
  ById = ById
  Amounts <- MCAmounts
  MinDeposit = 1
  MaxDeposit = 2
  MaxPending = 1
  Creators <- MCCreators
  Workers <- MCWorkers
  MaxFailures = 1
  NoOrder = NoOrder
  NoTransfer = NoTransfer
  NoCode = NoCode
  NoWorker = NoWorker
INVARIANT TransferCreditedOnce
CHECK_DEADLOCK FALSE
