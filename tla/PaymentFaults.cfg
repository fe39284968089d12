\* Two requests overlap on the order; every fault; messages are redelivered.
CONSTANTS
  o1 = o1  r1 = r1  r2 = r2  c1 = c1  c2 = c2  NoOrder = NoOrder
  Orders = {o1}
  Requests = {r1, r2}
  Cost <- OneCost
  Deposited = 4
  OrderLimit = 3
  Faults = {"die", "escrow", "swiggy"}
  MaxPlacements = 2
  Replicas = {c1}
  Lossy = TRUE
  MaxDebits = 2
SPECIFICATION PaymentFairSpec
INVARIANT DebitedOnlyIfPlaced
INVARIANT ChargedOnlyIfPlaced
PROPERTY PlacedIsPaid
CHECK_DEADLOCK FALSE
