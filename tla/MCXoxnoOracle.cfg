SPECIFICATION MCSpec
CONSTANTS
  s1 = s1
  s2 = s2
  s3 = s3
  s4 = s4
  s5 = s5
  f1 = f1
  f2 = f2
  f3 = f3
  a1 = a1
  a2 = a2
  a3 = a3
  None = None
  MS_PER_SECOND = 2
  MAX_FUTURE_SKEW_SECONDS = 1
  MAX_SUBMITTED_PRICE = 20
  BPS = 10
  Signer = {s1, s2, s3, s4, s5}
  Feed = {f1, f2, f3}
  Asset = {a1, a2, a3}
  InitialSigners = {s1, s2, s3}
  InitialThreshold = 2
  InitialResolution = 1
  DEFAULT_MAX_STALE_SECONDS = 3
  DEFAULT_MAX_SUBMISSION_AGE_SECONDS = 2
  DEFAULT_MAX_CLUSTER_SPREAD_BPS = 1
  MAX_HISTORY_LEN = 2
  Prices = {0, 10, 11, 20, 21}
  Stamps = {1, 2, 3, 4, 6}
  Seconds = {0, 1, 2, 3}
  Spreads = {0, 11}
  StartTime = 1
  MaxTime = 4
  MaxBatch = 2
SYMMETRY SignerSymmetry
CHECK_DEADLOCK FALSE
INVARIANTS
  SubmissionsOwned
  RegistryCoherent
  HistoryIsFaithful
PROPERTIES
  PriceNeedsHonestSupport
  ImplementsCatalog
