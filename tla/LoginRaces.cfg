\* Two sessions, two callbacks, two calls of the gateway.
CONSTANTS
  s1 = s1  s2 = s2  h1 = h1  h2 = h2  f1 = f1  f2 = f2
  Sessions = {s1, s2}
  Callbacks = {h1, h2}
  Fetches = {f1, f2}
  PENDING_SESSION_TTL = 1
  REAUTH_THRESHOLD = 1
  CACHE_TTL = 1
  ExpiresIn = 2
  MaxTime = 4
SPECIFICATION Spec
INVARIANT TypeOK
INVARIANT ValidIsValid
INVARIANT StaleTokenBounded
PROPERTY SessionKeptUntilExchanged
SYMMETRY Alike
CHECK_DEADLOCK FALSE
