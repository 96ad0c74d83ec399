CONSTANTS
  Resources = {"feed"}
  ReadsData = {"feed"}
  ReadsStatus = {"feed"}
  Refreshable = {"feed"}
  NoData = NoData
  MaxFlights = 2
  Users = {"u", "v"}
  Anonymous = "anonymous"
  NoUser = "nobody"
  EventRows <- TwoEvents
  MaxRows = 2
  SampleRows <- SomeEvents
  SampleSize = 4
  SampleLimit = 4
  MaxRequests = 2
  ListLimit = 2
  Now = 7
  BucketCount = 3
  BucketSize = 2
  TopCount = 1
  Steps <- ThreeSteps
  Window = 2
  DayLength = 4
  Cohorts = 2
SPECIFICATION Spec
INVARIANTS
  ListedIsSelected
  ListViewsAgree
  FunnelIsSound
  RetentionIsComplete
PROPERTIES
  ForwardUnlessOverlapped
