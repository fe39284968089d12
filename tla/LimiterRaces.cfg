\* Three requests interleave in every way; every command may fail.
CONSTANTS
  r1 = r1  r2 = r2  r3 = r3
  Requests = {r1, r2, r3}
  Window = 2
  Limit = 1
  RedisFails = TRUE
  MaxTime = 2
SPECIFICATION LimiterSpec
INVARIANT LimitOverAnySpan
INVARIANT RejectedOnlyWhenBusy
SYMMETRY AnyRequest
CHECK_DEADLOCK FALSE
