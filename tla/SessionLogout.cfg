\* Two tokens, two logouts, one request; half seconds; four seconds in all.
CONSTANTS
  t1 = t1  t2 = t2  l1 = l1  l2 = l2  r1 = r1
  Tokens = {t1, t2}
  Logouts = {l1, l2}
  Requests = {r1}
  JWT_EXPIRES_IN_SECONDS = 2
  FRACTIONS = 2
  MaxSecond = 3
SPECIFICATION Spec
INVARIANT LoggedOutStaysOut
INVARIANT RefusedOnlyIfLoggedOut
CHECK_DEADLOCK FALSE
