\* Money transactions of one user overlap, with each other or with one of the
\* budget plan, at READ COMMITTED.
CONSTANTS
  m1 = m1  m2 = m2  p1 = p1
  MoneyTxns <- TwoMoneyTxns
  PlanTxns <- OnePlanTxn
  Amounts <- SmallAmounts
  CYCLE_DAYS = 2
  DebtBound = 1
  Ops <- AllOps
CONSTRAINT OneOther
SPECIFICATION Spec
INVARIANT TypeOK
INVARIANT HoldNeverNegative
PROPERTY AtomicUnlessLost
PROPERTY HoldStaysCovered
