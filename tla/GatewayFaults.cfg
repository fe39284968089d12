\* Calls of every tool overlap; every fault.
CONSTANTS
  c1 = c1  c2 = c2  a = a  empty = empty  Nothing = Nothing
  Calls = {c1, c2}
  Contents = {a, empty}
  Empty = empty
  Tools = {"get_food_cart", "update_food_cart", "flush_food_cart", "place_food_order"}
  Faults = {"redis", "token", "refused", "http", "network"}
  MaxAttempts = 3
SPECIFICATION FairSpec
INVARIANT TypeOK
INVARIANT PlacedOncePerCall
INVARIANT OnlyOvertakenReadsStale
PROPERTY RetriesEnd
CHECK_DEADLOCK FALSE
