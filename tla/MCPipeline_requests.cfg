CONSTANTS
  a = a
  b = b
  c = c
  d = d
  g = g
  x = x
  q1 = q1
  q2 = q2
  q3 = q3
  k = k
  u = u
  w1 = w1
  w2 = w2
  p1 = p1
  p2 = p2
  NoKey = NoKey
  NoUser = NoUser
  NoEvent = NoEvent
  Keys = {k}
  Users = {u}
  Events = {a, b, c, d, g}
  Malformed = {}
  Invalid = {d}
  Requests = {q1, q2, q3}
  Batch <- Repeated
  Key <- RepeatedKey
  User <- UserOfA
  Workers = {w1, w2}
  Procs = {p1}
  Process <- OneProcess
  MaxFaults = 1
  MaxStream = 3
  ReadCount = 2
  MaxRetries = 3
  MaxBatch = 2
SPECIFICATION Spec
SYMMETRY Goroutines
INVARIANTS
  AcceptedIsNeverLost
  FaultFreeIsExactlyOnce
