CONSTANTS
  q1 = q1
  q2 = q2
  a1 = a1
  a2 = a2
  a3 = a3
  r1 = r1
  r2 = r2
  Requests = {q1, q2}
  Writers = {a1, a2, a3}
  Replicas = {r1, r2}
  Home <- TwoReplicas
  MaxFaults = 1
SPECIFICATION FairSpec
INVARIANTS
  FreshUnlessRaced
PROPERTIES
  EveryValidationEnds
