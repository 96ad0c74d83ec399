CONSTANTS
  c1 = c1
  c2 = c2
  Senders = {c1, c2}
  Limit = 2
  Window = 4
  MaxLag = 1
  Nanos = {0, 1}
  Second = 2
SPECIFICATION WindowSpec
INVARIANTS
  RateIsBounded
PROPERTIES
  RetryAfterIsExact
