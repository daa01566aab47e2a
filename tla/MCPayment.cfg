SPECIFICATION PaymentFairSpec
CONSTANTS
  u1 = u1
  u2 = u2
  o1 = o1
  t1 = t1
  s1 = s1
  s2 = s2
  c1 = c1
  w1 = w1
  r1 = r1
  b1 = b1
  b2 = b2
  Users <- MCUsers
  Orders <- MCOrders
  Transfers <- MCTransfers
  BankRefs <- MCBankRefs
  ById = ById
  Amounts <- MCAmounts
  MinDeposit = 1
  MaxDeposit = 1
  MaxPending = 1
  Creators <- MCCreators
  Workers <- MCWorkers
  MaxFailures = 1
  NoOrder = NoOrder
  NoTransfer = NoTransfer
  NoCode = NoCode
  NoWorker = NoWorker
  Sets <- MCSets
  Owner <- MCOwner
  Buyers <- MCBuyers
  MaxAdjusted = 1
  NoBuyer = NoBuyer
INVARIANTS
  NoOverdraft
  ChargedExactlyOnce
  BuyerKeepsAccess
PROPERTIES
  ImplementsLedger
  PurchaseEnds
  TransferEventuallyApplied
CHECK_DEADLOCK FALSE
