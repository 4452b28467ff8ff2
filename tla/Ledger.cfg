CONSTANTS
  c1 = c1
  c2 = c2
  o = o
  n1 = n1
  n2 = n2
  a1 = a1
  None = None
  Call = {c1, c2}
  Order = {o}
  Notice = {n1, n2}
  Adjustment = {a1}
  By <- MCBy
  OrderOf <- MCOrderOf
  Worth <- MCWorth
  Estimate <- MCEstimate
  Costs = {0, 2}
  Initial = 2
  Locks = TRUE
  MaxCrashes = 1
SPECIFICATION FairSpec
CHECK_DEADLOCK FALSE
INVARIANTS
  BooksBalance
  NobodyPaysTwice
  ChargesMatchCalls
  SuccessIsBilled
PROPERTIES
  PaidOrdersAreCredited
