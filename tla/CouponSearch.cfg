\* Three pages, two coupons, one of them perhaps above 100 per cent, every failure of a fetch.
CONSTANTS
  Items <- MenuItems
  Carts <- SomeCarts
  CouponKinds <- AnyCoupons
  MaxCoupons = 2
  Pages <- MenuPages
  MAX_MENU_PAGES = 3
  MIN_FILLER_CANDIDATES_TARGET = 4
SPECIFICATION FairSpec
INVARIANT TypeOK
INVARIANT ScanFindsCheapestPair
INVARIANT CheapestOffer
INVARIANT BreakdownTellsDiscount
INVARIANT ThrownOnlyAboveAll
PROPERTY AlgorithmEnds
CHECK_DEADLOCK FALSE
