\* Requests about the day take turns; everything may fail.
CONSTANTS
  h1 = h1  h2 = h2
  Items = {1, 2}
  NoItem = 0
  Handlers = {h1}
  Overlap = FALSE
  Slow = FALSE
  Faults = {"die", "gather", "upstream", "publish"}
  MaxOrders = 2
SPECIFICATION SchedulerFairSpec
INVARIANT TypeOK
INVARIANT RolledOverOrOrdered
PROPERTY IsMealCycle
 
CHECK_DEADLOCK FALSE
