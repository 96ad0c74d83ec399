CONSTANTS
  a = a
  b = b
  c = c
  d = d
  g = g
  x = x
  q1 = q1
  q2 = q2
  q3 = q3
  k = k
  u = u
  w1 = w1
  w2 = w2
  p1 = p1
  p2 = p2
  NoKey = NoKey
  NoUser = NoUser
  NoEvent = NoEvent
  Keys = {k}
  Users = {u}
  Events = {a, x}
  Malformed = {x}
  Invalid = {}
  Requests = {q1}
  Batch <- OneEvent
  Key <- NoKeys
  User <- UserOfA
  Workers = {w1, w2}
  Procs = {p1, p2}
  Process <- TwoProcesses
  MaxFaults = 2
  MaxStream = 2
  ReadCount = 2
  MaxRetries = 3
  MaxBatch = 2
SPECIFICATION FairSpec
INVARIANTS
  AckedIsSettled
  GivenUpOnlyWhenExhausted
  CountedAtMostOncePerDelivery
PROPERTIES
  IsAtLeastOnce
  EveryEntrySettles
  ShutdownTerminates
