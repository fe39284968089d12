\* Nothing fails.
CONSTANTS
  o1 = o1  r1 = r1  r2 = r2  c1 = c1  c2 = c2  NoOrder = NoOrder
  Orders = {o1}
  Requests = {r1}
  Cost <- OneCost
  Deposited = 6
  OrderLimit = 3
  Faults = {}
  MaxPlacements = 2
  Replicas = {c1}
  Lossy = FALSE
  MaxDebits = 2
SPECIFICATION PaymentSpec
INVARIANT ChargedOnce
CHECK_DEADLOCK FALSE
