CONSTANTS
  c1 = c1
  c2 = c2
  Callers = {c1, c2}
  Threshold = 2
  ResetAfter = 2
  FailMode = "closed"
SPECIFICATION FairSpec
INVARIANTS
  CounterIsCleared
  OpenersStampIsNotOlder
  GaugeUnlessOverlapped
PROPERTIES
  LegalTransitions
  OpenIsProbed
  ClosesAfterRecovery
