\* Every fault; any two requests at a time.
CONSTANTS
  o1 = o1  o2 = o2  r1 = r1  r2 = r2  NoOrder = NoOrder
  Orders = {o1, o2}
  Requests = {r1, r2}
  Cost <- TwoCosts
  Deposited = 3
  OrderLimit = 3
  Faults = {"die", "escrow", "swiggy"}
  MaxPlacements = 2
SPECIFICATION Spec
CONSTRAINT SomeUnraced
SYMMETRY AnyRequest
INVARIANT SettledAtMostOnce
INVARIANT HoldBacksPending
PROPERTY StatusForward
CHECK_DEADLOCK FALSE
