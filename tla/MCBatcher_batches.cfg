CONSTANTS
  e1 = e1
  e2 = e2
  e3 = e3
  c = c
  f = f
  Events = {e1, e2, e3}
  Calls = {c}
  Flushes = {f}
  MaxQueueSize = 2
  MaxRetries = 3
  MaxBatch = 2
SPECIFICATION FairSpec
INVARIANTS
  InOnePlace
  OutcomeIsTrue
  UnsharedFlushSettles
PROPERTIES
  NothingIsForgotten
  EveryEventSettles
  EveryFlushReturns
CHECK_DEADLOCK FALSE
