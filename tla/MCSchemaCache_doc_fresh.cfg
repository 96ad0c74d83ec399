CONSTANTS
  q1 = q1
  q2 = q2
  a1 = a1
  a2 = a2
  r1 = r1
  r2 = r2
  Requests = {q1, q2}
  Writers = {a1, a2}
  Replicas = {r1}
  Home <- OneReplica
  MaxFaults = 0
SPECIFICATION Spec
INVARIANTS
  SubsequentUsesUpdated
