SPECIFICATION MCFairSpec
CONSTANTS
  Played = {"faults", "refresh", "contention"}
  Shared <- NoRows
  Instances <- NoRows
  MaxAccounts = 2
  Markets <- TwoMarkets
  MaxAccountsScan = 1
  MaxKeys = 1
  AssetChunk = 1
  MaxTxsPerTick = 2
  SafetyMargin = 1
  IndexRefresh = FALSE
  DryRuns = {FALSE}
  ExtendTo = 1
  RestoreTtl = 1
  NewTtl = 1
  StartAccounts = {1}
  StartTtls = {1}
  Closers = {}
  TickLedgers = 1
  Faults = {}
  MaxStops = 1
CHECK_DEADLOCK FALSE
PROPERTIES
  LapsedIsRestored
  LoopsGetRound
