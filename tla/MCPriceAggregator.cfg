SPECIFICATION MCSpec
CONSTANTS
  Ray = 10
  Bps = 100
  MaxI128 = 1000000
  NoOracle = NoOracle
  Rejected = Rejected
  RequireDisjoint = RequireDisjoint
  NoData = NoData
  NoPrice = NoPrice
  Keys <- MCKeys
  Tokens <- MCKeys
  TokenDecimals <- MCDecimals
  MaxResolutionDepth = 2
  MaxPrice = 1000
  MinStale = 1
  MaxStale = 5
  MinBand = 10
  SingleBand = 70
  LpBand = 70
  MinTolerance = 5
  MaxTolerance = 30
  MinTwap = 2
  MaxTwap = 3
  MinDecimals = 0
  MaxDecimals = 1
  MinFeedDecimals = 1
  MaxFeedDecimals = 1
  StringFeeds = {"rx"}
  MaxCurveCoins = 3
  WadDecimals = 1
  MaxU256 = 1000000
  MaxAmp = 10
  MaxNormalizedReserve = 1000
  MaxDIterations = 10
  Feeds <- MCFeeds
  FeedContract <- MCFeedContract
  FeedKind <- MCFeedKind
  Provider <- MCProvider
  MsPerSecond = 2
  MaxSkew = 1
  MaxLegAgeSpread = 1
  MinResolution = 1
  MinBulkFeeds = 2
  RedStoneDecimals = 1
  ChainlinkDecimals = 1
  Candidates = Candidates
  Bands = {}
  Tolerances = {}
  RoundPrices = {}
  PoolReports = {}
  StartFeeds = {}
  StartPools = {}
  PublishedFeeds = {}
  MaxTime = 3
  MaxHistory = 3
  MaxA = 20
  MaxB = 30
  MaxSwap = 10
  Amps = {1, 10}
  GridPrices = {10, 30}
CHECK_DEADLOCK FALSE
INVARIANTS
  AdmissionStands
  UsablePriceNeedsEveryFeed
  BatchTransparent
  ShareWithinBacking
  ShareMathIsExact
