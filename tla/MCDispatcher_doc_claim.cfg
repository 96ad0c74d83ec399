CONSTANTS
  s = s
  e = e
  f = f
  g = g
  x1 = x1
  x2 = x2
  Subs = {s}
  Events = {e, f, g}
  Matches <- NoFilter
  Dispatchers = {x1, x2}
  BatchSize = 3
  Timeout = 1
  Buffer = 1
  MinInterval = 1
  MaxAttempts = 2
  BaseBackoff = 1
  MaxBackoff = 2
  Overdue = 1
  MaxFaults = 0
SPECIFICATION Spec
INVARIANTS
  NoDoubleSend
