CONSTANTS
  Resources = {"seed", "fallback", "stats"}
  ReadsData = {}
  ReadsStatus = {}
  NoData = NoData
  MaxFlights = 1
  EventCount = 2
  Matching <- FirstOrAll
  Exact <- PartOfName
  SeedLimit = 2
  PollLimit = 1
  MaxBuffer = 2
  MaxReconnects = 1
  ChanSize = 1
SPECIFICATION FairSpec
INVARIANTS
  FeedIsComplete
PROPERTIES
  StreamReopens
  BannerGoes
