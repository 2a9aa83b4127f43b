SPECIFICATION MCSpec
CONSTANTS
  Played = {"discovery"}
  Shared <- NoRows
  Instances <- NoRows
  MaxAccounts = 3
  Markets <- NoRows
  MaxAccountsScan = 1
  MaxKeys = 1
  AssetChunk = 1
  MaxTxsPerTick = 2
  SafetyMargin = 1
  IndexRefresh = FALSE
  DryRuns = {FALSE}
  ExtendTo = 8
  RestoreTtl = 1
  NewTtl = 1
  StartAccounts = {1}
  StartTtls = {1}
  Closers = {}
  TickLedgers = 2
  Faults = {}
  MaxStops = 1
CHECK_DEADLOCK FALSE
INVARIANT
  GovernanceIsKeptAlive
