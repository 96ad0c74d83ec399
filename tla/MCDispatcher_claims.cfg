CONSTANTS
  s = s
  e = e
  f = f
  x1 = x1
  x2 = x2
  Subs = {s}
  Events = {e, f}
  Matches <- NoFilter
  Dispatchers = {x1, x2}
  BatchSize = 2
  Timeout = 1
  Buffer = 0
  MinInterval = 1
  MaxAttempts = 3
  BaseBackoff = 1
  MaxBackoff = 2
  Overdue = 1
  MaxFaults = 1
SPECIFICATION FairSpec
INVARIANTS
  DeliveredIsReceived
  FailedOnlyAfterMaxAttempts
  ResentOnlyWithCause
PROPERTIES
  EveryRowEnds
