\* Requests overlap, answers come late, everything may fail.
CONSTANTS
  h1 = h1  h2 = h2
  Items = {1}
  NoItem = 0
  Handlers = {h1, h2}
  Overlap = TRUE
  Slow = TRUE
  Faults = {"die", "gather", "upstream", "publish", "cron"}
  MaxOrders = 2
SPECIFICATION SchedulerSpec
INVARIANT MarkedIsScouted
INVARIANT OrderedIsApproved
INVARIANT BothOnlyIfOverwritten
PROPERTY MealCycleUnlessOverwritten
SYMMETRY Alike
CHECK_DEADLOCK FALSE
