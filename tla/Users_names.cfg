\* Two workers, an account with a name and one without; a token every second tick.
SPECIFICATION Spec
CONSTANTS
  w1 = w1
  w2 = w2
  open = open
  closed = closed
  Workers = {w1, w2}
  Accounts = {open, closed}
  Restricted = {closed}
  MaxAttempts = 3
  Backoff = 1
  Timeout = 5
  RunTimeout = 7
  Burst = 1
  Refill = 2
  RetryAfters = {0, 2}
INVARIANTS
  RateHolds
  EndsInTime
  RetriesHeld
  RefusedOnlyIfLate
  CacheHonest
SYMMETRY AnyOrder
